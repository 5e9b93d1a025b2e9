-------------------------- MODULE RelayOutboxProofs --------------------------
(***************************************************************************)
(* Proofs about RelayOutbox, for every set of channels and envelopes and   *)
(* every capacity of the event buffer.                                     *)
(***************************************************************************)
EXTENDS RelayOutbox, TLAPS

\* The local variable env of deliver is an envelope while there is one to send.
CarriersHold == \A p \in Procs : pc[p] \in Carrying => held[p] \in Envelopes

TypeInv == TypeOK /\ CarriersHold

\* Every goroutine has a channel.
LEMMA ChanType == \A p \in Procs : Chan(p) \in Channels
  BY OutboxAssumption DEF OutboxAssumption, Chan, Procs

\* Shapes of a queue after it loses its head or gets a new one.
LEMMA QueueOps ==
  ASSUME NEW S, NEW s \in Seq(S), NEW e \in S
  PROVE  /\ Append(s, e) \in Seq(S)
         /\ <<e>> \o s \in Seq(S)
         /\ s # <<>> => Head(s) \in S /\ Tail(s) \in Seq(S)
  OBVIOUS

\* Emit keeps the buffer within its capacity, and so does taking an event out.
LEMMA EventBuffer ==
  ASSUME NEW s \in Seq(EventKinds), Len(s) <= EventCap, NEW e \in EventKinds
  PROVE  /\ LET t == IF Len(s) < EventCap THEN Append(s, e) ELSE s
            IN  t \in Seq(EventKinds) /\ Len(t) <= EventCap
         /\ s # <<>> => Tail(s) \in Seq(EventKinds) /\ Len(Tail(s)) <= EventCap
  BY EventCapAssumption DEF EventCapAssumption

\* The empty queue is a queue.
LEMMA EmptyQueue == ASSUME NEW S PROVE <<>> \in Seq(S) /\ Len(<<>>) = 0
  OBVIOUS

\* The types hold at the start.
LEMMA InitTypeInv == Init => TypeInv
  <1> SUFFICES ASSUME Init PROVE TypeInv
    OBVIOUS
  <1>1. queues \in [Channels -> Seq(Envelopes)] /\ events \in Seq(EventKinds)
        /\ Len(events) <= EventCap
    BY EmptyQueue, EventCapAssumption DEF EventCapAssumption, Init
  <1>2. pc \in [Procs -> Labels]
    BY DEF Init, Procs, Labels
  <1>3. CarriersHold
    BY DEF Init, CarriersHold, Carrying
  <1> QED
    BY <1>1, <1>2, <1>3 DEF Init, TypeInv, TypeOK

\* Every step keeps the types.
LEMMA NextTypeInv == TypeInv /\ [Next]_vars => TypeInv'
  <1> SUFFICES ASSUME TypeInv, [Next]_vars PROVE TypeInv'
    OBVIOUS
  <1> USE OutboxAssumption
      DEF OutboxAssumption, TypeInv, TypeOK, CarriersHold, Procs, Labels, Running, Carrying
  <1>1. ASSUME NEW m \in Envelopes, Store(m) PROVE TypeInv'
    BY <1>1 DEF Store, linkVars, history
  <1>2. ASSUME NEW m \in Envelopes, OutboundQueue(m) PROVE TypeInv'
    BY <1>2, QueueOps DEF OutboundQueue, Admit, linkVars, history
  <1>3. ASSUME NEW m \in Envelopes, OutboundDirect(m) PROVE TypeInv'
    BY <1>3 DEF OutboundDirect, Admit, linkVars, history
  <1>4. ASSUME NEW p \in Procs, SendOk(p) PROVE TypeInv'
    BY <1>4 DEF SendOk, linkVars, history
  <1>5. ASSUME NEW p \in Procs, SendFail(p) PROVE TypeInv'
    BY <1>5 DEF SendFail, linkVars, history
  <1>6. ASSUME NEW p \in Procs, MarkOffline(p) PROVE TypeInv'
    BY <1>6 DEF MarkOffline, linkVars, history
  <1>7. ASSUME NEW p \in Procs, Requeue(p) PROVE TypeInv'
    <2>1. held[p] \in Envelopes /\ Chan(p) \in Channels
      BY <1>7, ChanType DEF Requeue
    <2>2. <<held[p]>> \o queues[Chan(p)] \in Seq(Envelopes)
      BY <2>1, QueueOps
    <2>3. queues' \in [Channels -> Seq(Envelopes)]
      BY <1>7, <2>1, <2>2 DEF Requeue
    <2> QED
      BY <1>7, <2>3 DEF Requeue, linkVars, history
  <1>8. ASSUME NEW p \in Procs, NextQueued(p) PROVE TypeInv'
    <2>1. Chan(p) \in Channels /\ queues[Chan(p)] # <<>>
      BY <1>8, ChanType DEF NextQueued
    <2>2. /\ Head(queues[Chan(p)]) \in Envelopes
          /\ Tail(queues[Chan(p)]) \in Seq(Envelopes)
      BY <2>1, QueueOps
    <2> QED
      BY <1>8, <2>1, <2>2 DEF NextQueued, linkVars, history
  <1>9. ASSUME NEW p \in Procs, QueueEmpty(p) PROVE TypeInv'
    BY <1>9 DEF QueueEmpty, linkVars, history
  <1>10. ASSUME NEW p \in Procs, Exit(p) PROVE TypeInv'
    BY <1>10 DEF Exit, linkVars, history
  <1>11. CASE HandleOffline
    <2>1. events' \in Seq(EventKinds) /\ Len(events)' <= EventCap
      BY <1>11, EventBuffer DEF HandleOffline, TakeEvent, Take
    <2> QED
      BY <1>11, <2>1 DEF HandleOffline, TakeEvent, Take, history
  <1>12. CASE HandleOnline
    BY <1>12, EventBuffer DEF HandleOnline, TakeEvent, Take, history
  <1>13. CASE HandleTraffic
    BY <1>13, EventBuffer DEF HandleTraffic, TakeEvent, Take, relayVars, history
  <1>14. CASE DrainAll
    BY <1>14, QueueOps DEF DrainAll, linkVars, history
  <1>15. CASE Hub
    <2>1. {"online", "offline", "traffic"} \subseteq EventKinds
      BY DEF EventKinds
    <2>2. events' \in Seq(EventKinds) /\ Len(events)' <= EventCap
          /\ link' \in {"idle", "connected", "serving", "lost"}
      <3>1. \A e \in EventKinds : Emit(e) =>
              events' \in Seq(EventKinds) /\ Len(events') <= EventCap
        BY EventBuffer DEF Emit
      <3> QED
        BY <1>15, <2>1, <3>1 DEF Hub, LinkStep, Connect, AnnounceOnline, ConnLost,
                                 AnnounceOffline, Traffic
    <2> QED
      BY <1>15, <2>2 DEF Hub, RelayRests, relayVars, history
  <1>16. CASE Restart
    <2>1. queues' \in [Channels -> Seq(Envelopes)] /\ events' \in Seq(EventKinds)
          /\ Len(events)' <= EventCap
      BY <1>16, EmptyQueue, EventCapAssumption DEF EventCapAssumption, Restart
    <2> QED
      BY <1>16, <2>1 DEF Restart, Stored
  <1>17. CASE UNCHANGED vars
    BY <1>17 DEF vars, relayVars, linkVars, history
  <1> QED
    BY <1>1, <1>2, <1>3, <1>4, <1>5, <1>6, <1>7, <1>8, <1>9, <1>10, <1>11, <1>12,
       <1>13, <1>14, <1>15, <1>16, <1>17 DEF Next, Request, Deliver, AfterSend, Pump

\* Every variable keeps its type: in particular the hub client's event buffer
\* never exceeds its capacity, and deliver always has an envelope to send.
THEOREM TypeCorrect == Spec => []TypeOK
  <1>1. TypeInv => TypeOK
    BY DEF TypeInv
  <1> QED
    BY <1>1, InitTypeInv, NextTypeInv, PTL DEF Spec

-----------------------------------------------------------------------------
(* One sender per channel.                                                  *)

\* A step that starts and ends no deliver and leaves Relay.sending alone.
LEMMA SameSenders ==
  ASSUME SingleSender, sending' = sending, \A p \in Procs : Active(p)' <=> Active(p)
  PROVE  SingleSender'
  BY DEF SingleSender

\* Within deliver, or outside it, the goroutine stays where it is.
LEMMA MovesWithin ==
  ASSUME TypeInv, NEW p \in Procs, NEW label, pc' = [pc EXCEPT ![p] = label],
         Active(p) <=> label \in Running
  PROVE  \A q \in Procs : Active(q)' <=> Active(q)
  BY DEF TypeInv, TypeOK, Active

\* Nobody sends at the start.
LEMMA InitSingleSender == Init => SingleSender
  BY DEF Init, SingleSender, Active, Running, Carrying

\* Every step leaves one sender per channel.
LEMMA NextSingleSender == TypeInv /\ SingleSender /\ [Next]_vars => SingleSender'
  <1> SUFFICES ASSUME TypeInv, SingleSender, [Next]_vars PROVE SingleSender'
    OBVIOUS
  <1> USE DEF Running, Carrying
  <1>1. ASSUME NEW m \in Envelopes, Store(m) PROVE SingleSender'
    <2>1. pc' = [pc EXCEPT ![m] = "stored"] /\ ~Active(m) /\ m \in Procs
      BY <1>1 DEF Store, Active, Procs
    <2> QED
      BY <1>1, <2>1, MovesWithin, SameSenders DEF Store
  <1>2. ASSUME NEW m \in Envelopes, OutboundQueue(m) PROVE SingleSender'
    <2>1. pc' = [pc EXCEPT ![m] = "done"] /\ ~Active(m) /\ m \in Procs
      BY <1>2 DEF OutboundQueue, Active, Procs
    <2> QED
      BY <1>2, <2>1, MovesWithin, SameSenders DEF OutboundQueue
  <1>3. ASSUME NEW m \in Envelopes, OutboundDirect(m) PROVE SingleSender'
    <2>1. m \in Procs /\ Chan(m) = ChannelOf[m]
      BY OutboxAssumption DEF OutboxAssumption, Procs, Chan
    <2>2. \A q \in Procs : Active(q)' <=> Active(q) \/ q = m
      BY <1>3, <2>1 DEF OutboundDirect, Active, TypeInv, TypeOK
    <2>3. \A q \in Procs : Active(q) => Chan(q) # ChannelOf[m]
      BY <1>3, ChanType DEF OutboundDirect, SingleSender
    <2> QED
      BY <1>3, <2>1, <2>2, <2>3, ChanType DEF OutboundDirect, SingleSender
  <1>4. ASSUME NEW p \in Procs,
               SendOk(p) \/ SendFail(p) \/ MarkOffline(p) \/ Requeue(p)
               \/ NextQueued(p) \/ QueueEmpty(p)
        PROVE  SingleSender'
    <2>1. PICK label \in Running : pc' = [pc EXCEPT ![p] = label]
      BY <1>4 DEF SendOk, SendFail, MarkOffline, Requeue, NextQueued, QueueEmpty
    <2>2. Active(p) /\ sending' = sending
      BY <1>4 DEF Active, SendOk, SendFail, MarkOffline, Requeue, NextQueued, QueueEmpty
    <2> QED
      BY <2>1, <2>2, MovesWithin, SameSenders
  <1>5. ASSUME NEW p \in Procs, Exit(p) PROVE SingleSender'
    <2>1. \A q \in Procs : Active(q)' <=> Active(q) /\ q # p
      BY <1>5 DEF Exit, Active, TypeInv, TypeOK
    <2>2. Active(p) /\ sending' = sending \ {Chan(p)}
      BY <1>5 DEF Exit, Active
    <2> QED
      BY <2>1, <2>2 DEF SingleSender
  <1>6. CASE HandleOffline \/ HandleOnline \/ HandleTraffic \/ Hub \/ UNCHANGED vars
    <2>1. pc' = pc /\ sending' = sending
      BY <1>6 DEF HandleOffline, HandleOnline, HandleTraffic, Hub, RelayRests, vars, relayVars
    <2> QED
      BY <2>1, SameSenders DEF Active
  <1>7. CASE DrainAll
    <2> DEFINE idle == {c \in Channels : queues[c] # <<>> /\ c \notin sending}
    <2>1. /\ sending' = sending \cup idle
          /\ pc' = [p \in Procs |-> IF p \in idle THEN "send" ELSE pc[p]]
      BY <1>7 DEF DrainAll
    <2>2. \A q \in Procs : Active(q)' <=> Active(q) \/ q \in idle
      BY <2>1 DEF Active
    <2>3. \A q \in idle : q \in Procs /\ q \in Channels /\ Chan(q) = q /\ q \notin sending
      BY DEF Procs, Chan
    <2>4. \A q \in Procs : Active(q) => Chan(q) \notin idle
      BY ChanType DEF SingleSender
    <2> HIDE DEF idle
    <2> QED
      BY <2>1, <2>2, <2>3, <2>4, ChanType DEF SingleSender
  <1>8. CASE Restart
    <2>1. sending' = {} /\ \A p \in Procs : ~Active(p)'
      BY <1>8 DEF Restart, Active
    <2> QED
      BY <2>1 DEF SingleSender
  <1> QED
    BY <1>1, <1>2, <1>3, <1>4, <1>5, <1>6, <1>7, <1>8 DEF Next, Request, Deliver, AfterSend, Pump

\* At most one goroutine runs deliver for a channel, and Relay.sending holds the
\* channel exactly as long, whatever requests, drains, failures and restarts do.
THEOREM OneSenderPerChannel == Spec => []SingleSender
  <1>1. Init => TypeInv /\ SingleSender
    BY InitTypeInv, InitSingleSender
  <1>2. (TypeInv /\ SingleSender) /\ [Next]_vars => (TypeInv /\ SingleSender)'
    BY NextTypeInv, NextSingleSender
  <1> QED
    BY <1>1, <1>2, PTL DEF Spec

-----------------------------------------------------------------------------
(* What the operations on a queue do to its members.                        *)

\* The members of a sequence are of its kind.
LEMMA ToSetType == ASSUME NEW S, NEW s \in Seq(S) PROVE ToSet(s) \subseteq S
  BY DEF ToSet

\* What an Append does to the members.
LEMMA AppendMembers ==
  ASSUME NEW S, NEW s \in Seq(S), NEW e \in S
  PROVE  /\ ToSet(Append(s, e)) = ToSet(s) \cup {e}
         /\ IsInjective(s) /\ e \notin ToSet(s) => IsInjective(Append(s, e))
  <1> DEFINE t == Append(s, e)
  <1>1. /\ DOMAIN s = 1..Len(s) /\ Len(s) \in Nat
        /\ DOMAIN t = 1..Len(s) + 1
        /\ \A i \in 1..Len(s) : t[i] = s[i]
        /\ t[Len(s) + 1] = e
    OBVIOUS
  <1> HIDE DEF t
  <1>2. \A i \in DOMAIN t : i \in DOMAIN s \/ i = Len(s) + 1
    BY <1>1
  <1>3. ToSet(t) = ToSet(s) \cup {e}
    BY <1>1, <1>2 DEF ToSet
  <1>4. IsInjective(s) /\ e \notin ToSet(s) => IsInjective(t)
    BY <1>1, <1>2 DEF IsInjective, ToSet
  <1> QED
    BY <1>3, <1>4 DEF t

\* What an element put in front does to them.
LEMMA PrependMembers ==
  ASSUME NEW S, NEW s \in Seq(S), NEW e \in S
  PROVE  /\ ToSet(<<e>> \o s) = ToSet(s) \cup {e}
         /\ IsInjective(s) /\ e \notin ToSet(s) => IsInjective(<<e>> \o s)
  <1> DEFINE t == <<e>> \o s
  <1>1. /\ DOMAIN s = 1..Len(s) /\ Len(s) \in Nat
        /\ DOMAIN t = 1..Len(s) + 1
        /\ \A i \in 1..Len(s) : t[i + 1] = s[i]
        /\ t[1] = e
    OBVIOUS
  <1> HIDE DEF t
  <1>2. \A i \in DOMAIN t : i = 1 \/ (i - 1 \in DOMAIN s /\ t[i] = s[i - 1])
    <2> SUFFICES ASSUME NEW i \in DOMAIN t, i # 1
                 PROVE  i - 1 \in DOMAIN s /\ t[i] = s[i - 1]
      OBVIOUS
    <2>1. i - 1 \in 1..Len(s)
      BY <1>1
    <2> QED
      BY <1>1, <2>1
  <1>3. ToSet(t) = ToSet(s) \cup {e}
    <2>1. ToSet(t) \subseteq ToSet(s) \cup {e}
      BY <1>1, <1>2 DEF ToSet
    <2>2. ASSUME NEW i \in DOMAIN s PROVE s[i] \in ToSet(t)
      BY <1>1 DEF ToSet
    <2>3. e \in ToSet(t)
      BY <1>1 DEF ToSet
    <2> QED
      BY <2>1, <2>2, <2>3 DEF ToSet
  <1>4. IsInjective(s) /\ e \notin ToSet(s) => IsInjective(t)
    BY <1>1, <1>2 DEF IsInjective, ToSet
  <1> QED
    BY <1>3, <1>4 DEF t

\* What taking the first one does.
LEMMA PopMembers ==
  ASSUME NEW S, NEW s \in Seq(S), s # <<>>
  PROVE  /\ Head(s) \in ToSet(s)
         /\ ToSet(s) = ToSet(Tail(s)) \cup {Head(s)}
         /\ IsInjective(s) => IsInjective(Tail(s)) /\ Head(s) \notin ToSet(Tail(s))
  <1> DEFINE t == Tail(s)
             n == Len(s)
  <1>1. /\ n \in Nat /\ n > 0
        /\ DOMAIN s = 1..n
        /\ DOMAIN t = 1..(n - 1)
        /\ \A i \in 1..(n - 1) : t[i] = s[i + 1]
        /\ Head(s) = s[1]
    OBVIOUS
  <1> HIDE DEF t, n
  <1>2. \A i \in DOMAIN t : i + 1 \in DOMAIN s /\ t[i] = s[i + 1]
    BY <1>1
  <1>3. \A i \in DOMAIN s : i = 1 \/ (i - 1 \in DOMAIN t /\ s[i] = t[i - 1])
    <2> SUFFICES ASSUME NEW i \in DOMAIN s, i # 1
                 PROVE  i - 1 \in DOMAIN t /\ s[i] = t[i - 1]
      OBVIOUS
    <2>1. i - 1 \in 1..(n - 1)
      BY <1>1
    <2> QED
      BY <1>1, <2>1
  <1>4. 1 \in DOMAIN s
    BY <1>1
  <1>5. ToSet(s) = ToSet(t) \cup {Head(s)}
    BY <1>1, <1>2, <1>3, <1>4, SMTT(30) DEF ToSet
  <1>6. IsInjective(s) => IsInjective(t)
    BY <1>1, <1>2 DEF IsInjective
  <1>7. IsInjective(s) => Head(s) \notin ToSet(t)
    BY <1>1, <1>2, <1>4 DEF IsInjective, ToSet
  <1> QED
    BY <1>1, <1>4, <1>5, <1>6, <1>7 DEF t, ToSet

\* The empty queue has none.
LEMMA EmptyMembers == ToSet(<<>>) = {} /\ IsInjective(<<>>)
  BY DEF ToSet, IsInjective

-----------------------------------------------------------------------------
(* Where an envelope is.                                                    *)

\* Outbound admits a stored envelope once, and only what it admitted is in a
\* queue or in the histories.
Bookkeeping ==
  /\ \A m \in admitted : pc[m] \notin {"new", "stored"}
  /\ \A c \in Channels : ToSet(queues[c]) \subseteq admitted
  /\ behind \subseteq admitted
  /\ \A m \in Envelopes : \A k \in earlier[m] : k \in admitted /\ ChannelOf[k] = ChannelOf[m]

PlaceInv == TypeInv /\ SingleSender /\ OnePlace /\ Bookkeeping

\* No envelope is anywhere at the start.
LEMMA InitPlace == Init => OnePlace /\ Bookkeeping
  <1> SUFFICES ASSUME Init PROVE OnePlace /\ Bookkeeping
    OBVIOUS
  <1>1. \A c \in Channels : ToSet(queues[c]) = {} /\ IsInjective(queues[c])
    BY EmptyMembers DEF Init
  <1>2. \A p \in Procs : pc[p] \notin Carrying
    BY DEF Init, Carrying
  <1> QED
    BY <1>1, <1>2 DEF Init, OnePlace, Bookkeeping

\* Two goroutines that hold an envelope hold those of different channels.
LEMMA OtherCarrier ==
  ASSUME PlaceInv, NEW p \in Procs, Active(p), NEW q \in Procs, q # p, pc[q] \in Carrying
  PROVE  ChannelOf[held[q]] # Chan(p)
  BY DEF PlaceInv, SingleSender, OnePlace, Active, Running

\* A step of deliver that touches no queue.
LEMMA QuietPlace ==
  ASSUME PlaceInv, NEW p \in Procs, NEW label \in Labels \ {"new", "stored"},
         pc' = [pc EXCEPT ![p] = label],
         label \in Carrying => pc[p] \in Carrying,
         \A q \in Procs : pc'[q] \in Carrying => held'[q] = held[q],
         UNCHANGED <<queues, admitted, earlier, behind>>
  PROVE  OnePlace' /\ Bookkeeping'
  <1> USE DEF PlaceInv, TypeInv, TypeOK
  <1>1. \A q \in Procs : pc'[q] = IF q = p THEN label ELSE pc[q]
    OBVIOUS
  <1>2. Envelopes \subseteq Procs
    BY DEF Procs
  <1>3. Bookkeeping'
    BY <1>1, <1>2 DEF Bookkeeping
  <1>4. \A c \in Channels :
          /\ IsInjective(queues[c])'
          /\ \A m \in ToSet(queues[c])' : ChannelOf[m] = c /\ pc'[m] # "stored"
    <2> SUFFICES ASSUME NEW c \in Channels, NEW m \in ToSet(queues[c])
                 PROVE  ChannelOf[m] = c /\ pc'[m] # "stored"
      BY DEF OnePlace
    <2>1. m \in Procs
      BY <1>2 DEF Bookkeeping
    <2> QED
      BY <1>1, <2>1 DEF OnePlace
  <1>5. \A q \in Procs : pc'[q] \in Carrying => pc[q] \in Carrying
    BY <1>1
  <1> QED
    BY <1>3, <1>4, <1>5 DEF OnePlace, Queued

\* Every step keeps envelopes in one place.
LEMMA NextPlace == PlaceInv /\ [Next]_vars => OnePlace' /\ Bookkeeping'
  <1> SUFFICES ASSUME PlaceInv, [Next]_vars PROVE OnePlace' /\ Bookkeeping'
    OBVIOUS
  <1>t. TypeInv /\ TypeOK
    BY DEF PlaceInv, TypeInv
  <1>e. /\ Envelopes \subseteq Procs
        /\ \A m \in Envelopes : Chan(m) = ChannelOf[m] /\ ChannelOf[m] \in Channels
    BY OutboxAssumption DEF OutboxAssumption, Procs, Chan
  <1>1. ASSUME NEW m \in Envelopes, Store(m) PROVE OnePlace' /\ Bookkeeping'
    <2>1. m \notin admitted
      BY <1>1 DEF Store, PlaceInv, Bookkeeping
    <2>2. \A k \in Procs : k # m => pc'[k] = pc[k]
      BY <1>1, <1>e, <1>t DEF Store, TypeOK
    <2>3. pc'[m] = "stored"
      BY <1>1, <1>e, <1>t DEF Store, TypeOK
    <2>4. Bookkeeping'
      BY <1>1, <1>e, <1>t, <2>1, <2>2 DEF Store, PlaceInv, Bookkeeping, history, TypeOK
    <2>5. \A c \in Channels : m \notin ToSet(queues[c]) /\ ToSet(queues[c]) \subseteq Procs
      BY <2>1, <1>e, <1>t DEF PlaceInv, Bookkeeping, TypeOK
    <2>6. \A q \in Procs : pc'[q] \in Carrying => pc[q] \in Carrying
      BY <2>2, <2>3 DEF Carrying
    <2> QED
      BY <1>1, <2>2, <2>4, <2>5, <2>6 DEF Store, PlaceInv, OnePlace, Queued, history
  <1>2. ASSUME NEW m \in Envelopes, OutboundQueue(m) PROVE OnePlace' /\ Bookkeeping'
    <2> DEFINE c == ChannelOf[m]
    <2>1. m \notin admitted /\ m \notin ToSet(queues[c]) /\ c \in Channels
      BY <1>2, <1>e DEF OutboundQueue, PlaceInv, Bookkeeping
    <2>2. queues[c] \in Seq(Envelopes) /\ IsInjective(queues[c])
      BY <1>t, <2>1 DEF TypeOK, PlaceInv, OnePlace
    <2>3. /\ queues'[c] = Append(queues[c], m)
          /\ \A d \in Channels : d # c => queues'[d] = queues[d]
      BY <1>2, <1>t, <2>1 DEF OutboundQueue, TypeOK
    <2>4. ToSet(queues'[c]) = ToSet(queues[c]) \cup {m} /\ IsInjective(queues'[c])
      BY <2>1, <2>2, <2>3, AppendMembers
    <2>5. /\ \A q \in Procs : q # m => pc'[q] = pc[q]
          /\ pc'[m] = "done"
          /\ held' = held /\ admitted' = admitted \cup {m} /\ behind' = behind \cup {m}
      BY <1>2, <1>t, <1>e DEF OutboundQueue, Admit, TypeOK
    <2>6. \A k \in Envelopes : earlier'[k] =
            IF k = m THEN {j \in admitted : ChannelOf[j] = c} ELSE earlier[k]
      BY <1>2, <1>t DEF OutboundQueue, Admit, TypeOK
    <2> HIDE DEF c
    <2>7. Bookkeeping'
      <3>1. \A k \in admitted' : pc'[k] \notin {"new", "stored"}
        BY <2>5, <1>t, <1>e DEF PlaceInv, Bookkeeping, TypeOK
      <3>2. \A d \in Channels : ToSet(queues'[d]) \subseteq admitted'
        BY <2>3, <2>4, <2>5 DEF PlaceInv, Bookkeeping
      <3>3. behind' \subseteq admitted'
        BY <2>5 DEF PlaceInv, Bookkeeping
      <3>4. ASSUME NEW k \in Envelopes, NEW j \in earlier'[k]
            PROVE  j \in admitted' /\ ChannelOf[j] = ChannelOf[k]
        <4>1. CASE k = m
          BY <4>1, <2>5, <2>6 DEF c
        <4>2. CASE k # m
          BY <4>2, <2>5, <2>6 DEF PlaceInv, Bookkeeping
        <4> QED
          BY <4>1, <4>2
      <3> QED
        BY <3>1, <3>2, <3>3, <3>4 DEF Bookkeeping
    <2>8. \A d \in Channels : IsInjective(queues'[d]) /\ \A k \in ToSet(queues'[d]) :
                                ChannelOf[k] = d /\ pc'[k] # "stored"
      <3> SUFFICES ASSUME NEW d \in Channels
                   PROVE  IsInjective(queues'[d]) /\ \A k \in ToSet(queues'[d]) :
                            ChannelOf[k] = d /\ pc'[k] # "stored"
        OBVIOUS
      <3>1. ToSet(queues[d]) \subseteq Procs
        BY <1>t, <1>e DEF PlaceInv, Bookkeeping, TypeOK
      <3>2. \A k \in ToSet(queues[d]) : ChannelOf[k] = d /\ pc'[k] # "stored"
        BY <2>5, <3>1 DEF PlaceInv, OnePlace
      <3>3. CASE d = c
        BY <3>2, <3>3, <2>4, <2>5 DEF c
      <3>4. CASE d # c
        BY <3>2, <3>4, <2>3 DEF PlaceInv, OnePlace
      <3> QED
        BY <3>3, <3>4
    <2>9. ASSUME NEW q \in Procs, pc'[q] \in Carrying
          PROVE  /\ held'[q] \in admitted' /\ ChannelOf[held'[q]] = Chan(q)
                 /\ held'[q] \notin ToSet(queues'[ChannelOf[held'[q]]])
      <3>1. q # m /\ pc[q] \in Carrying
        BY <2>5, <2>9 DEF Carrying
      <3>2. held[q] \in admitted /\ ChannelOf[held[q]] = Chan(q) /\ ~Queued(held[q])
        BY <3>1 DEF PlaceInv, OnePlace
      <3> QED
        BY <2>1, <2>3, <2>4, <2>5, <3>2, ChanType DEF Queued
    <2> QED
      BY <2>7, <2>8, <2>9 DEF OnePlace, Queued
  <1>3. ASSUME NEW m \in Envelopes, OutboundDirect(m) PROVE OnePlace' /\ Bookkeeping'
    <2>1. m \notin admitted
      BY <1>3 DEF OutboundDirect, PlaceInv, Bookkeeping
    <2>2. \A d \in Channels : m \notin ToSet(queues[d]) /\ ToSet(queues[d]) \subseteq Procs
      BY <2>1, <1>t, <1>e DEF PlaceInv, Bookkeeping, TypeOK
    <2>3. /\ \A q \in Procs : q # m => pc'[q] = pc[q] /\ held'[q] = held[q]
          /\ pc'[m] = "send" /\ held'[m] = m
          /\ queues' = queues /\ behind' = behind
          /\ admitted' = admitted \cup {m}
      BY <1>3, <1>t, <1>e DEF OutboundDirect, Admit, TypeOK
    <2>4. \A k \in Envelopes : earlier'[k] =
            IF k = m THEN {j \in admitted : ChannelOf[j] = ChannelOf[m]} ELSE earlier[k]
      BY <1>3, <1>t DEF OutboundDirect, Admit, TypeOK
    <2>5. Bookkeeping'
      <3>1. \A k \in admitted' : pc'[k] \notin {"new", "stored"}
        BY <2>3, <1>t, <1>e DEF PlaceInv, Bookkeeping, TypeOK
      <3>2. ASSUME NEW k \in Envelopes, NEW j \in earlier'[k]
            PROVE  j \in admitted' /\ ChannelOf[j] = ChannelOf[k]
        <4>1. CASE k = m
          BY <4>1, <2>3, <2>4
        <4>2. CASE k # m
          BY <4>2, <2>3, <2>4 DEF PlaceInv, Bookkeeping
        <4> QED
          BY <4>1, <4>2
      <3> QED
        BY <3>1, <3>2, <2>3 DEF PlaceInv, Bookkeeping
    <2>6. \A d \in Channels : IsInjective(queues'[d]) /\ \A k \in ToSet(queues'[d]) :
                                ChannelOf[k] = d /\ pc'[k] # "stored"
      BY <2>2, <2>3 DEF PlaceInv, OnePlace
    <2>7. ASSUME NEW q \in Procs, pc'[q] \in Carrying
          PROVE  /\ held'[q] \in admitted' /\ ChannelOf[held'[q]] = Chan(q)
                 /\ held'[q] \notin ToSet(queues'[ChannelOf[held'[q]]])
      <3>1. CASE q = m
        BY <3>1, <1>e, <2>2, <2>3
      <3>2. CASE q # m
        BY <3>2, <2>3, <2>7 DEF PlaceInv, OnePlace, Queued
      <3> QED
        BY <3>1, <3>2
    <2> QED
      BY <2>5, <2>6, <2>7 DEF OnePlace, Queued
  <1>4. ASSUME NEW p \in Procs,
               SendOk(p) \/ SendFail(p) \/ MarkOffline(p) \/ QueueEmpty(p) \/ Exit(p)
        PROVE  OnePlace' /\ Bookkeeping'
    <2>1. PICK label \in Labels \ {"new", "stored"} :
            pc' = [pc EXCEPT ![p] = label] /\ (label \in Carrying => pc[p] \in Carrying)
      BY <1>4 DEF SendOk, SendFail, MarkOffline, QueueEmpty, Exit, Labels, Running, Carrying
    <2>2. \A q \in Procs : pc'[q] \in Carrying => held'[q] = held[q]
      BY <1>4, <1>t DEF SendOk, SendFail, MarkOffline, QueueEmpty, Exit, TypeOK, Carrying
    <2>3. UNCHANGED <<queues, admitted, earlier, behind>>
      BY <1>4 DEF SendOk, SendFail, MarkOffline, QueueEmpty, Exit, history
    <2> QED
      BY <2>1, <2>2, <2>3, QuietPlace
  <1>5. ASSUME NEW p \in Procs, Requeue(p) PROVE OnePlace' /\ Bookkeeping'
    <2> DEFINE c == Chan(p)
               m == held[p]
    <2>1. /\ m \in admitted /\ m \in Envelopes /\ ChannelOf[m] = c
          /\ m \notin ToSet(queues[c]) /\ c \in Channels
          /\ queues[c] \in Seq(Envelopes) /\ IsInjective(queues[c])
      BY <1>5, <1>t, ChanType DEF Requeue, Carrying, PlaceInv, OnePlace, Queued, TypeOK
    <2>2. /\ queues'[c] = <<m>> \o queues[c]
          /\ \A d \in Channels : d # c => queues'[d] = queues[d]
      BY <1>5, <1>t, <2>1 DEF Requeue, TypeOK
    <2>3. ToSet(queues'[c]) = ToSet(queues[c]) \cup {m} /\ IsInjective(queues'[c])
      BY <2>1, <2>2, PrependMembers
    <2>4. /\ \A q \in Procs : q # p => pc'[q] = pc[q]
          /\ pc'[p] = "exit" /\ pc[p] = "requeue"
          /\ UNCHANGED <<held, admitted, earlier, behind>>
      BY <1>5, <1>t DEF Requeue, history, TypeOK
    <2> HIDE DEF c
    <2>5. Bookkeeping'
      <3>1. \A k \in admitted' : pc'[k] \notin {"new", "stored"}
        BY <2>4, <1>t, <1>e DEF PlaceInv, Bookkeeping, TypeOK
      <3>2. \A d \in Channels : ToSet(queues'[d]) \subseteq admitted'
        BY <2>1, <2>2, <2>3, <2>4 DEF PlaceInv, Bookkeeping
      <3> QED
        BY <3>1, <3>2, <2>4 DEF PlaceInv, Bookkeeping
    <2>6. \A d \in Channels : IsInjective(queues'[d]) /\ \A k \in ToSet(queues'[d]) :
                                ChannelOf[k] = d /\ pc'[k] # "stored"
      <3> SUFFICES ASSUME NEW d \in Channels
                   PROVE  IsInjective(queues'[d]) /\ \A k \in ToSet(queues'[d]) :
                            ChannelOf[k] = d /\ pc'[k] # "stored"
        OBVIOUS
      <3>1. \A k \in ToSet(queues'[d]) : pc'[k] # "stored"
        BY <2>5 DEF Bookkeeping
      <3>2. CASE d = c
        BY <3>1, <3>2, <2>1, <2>3 DEF PlaceInv, OnePlace
      <3>3. CASE d # c
        BY <3>1, <3>3, <2>2 DEF PlaceInv, OnePlace
      <3> QED
        BY <3>2, <3>3
    <2>7. ASSUME NEW q \in Procs, pc'[q] \in Carrying
          PROVE  /\ held'[q] \in admitted' /\ ChannelOf[held'[q]] = Chan(q)
                 /\ held'[q] \notin ToSet(queues'[ChannelOf[held'[q]]])
      <3>1. q # p /\ pc[q] \in Carrying
        BY <2>4, <2>7 DEF Carrying
      <3>2. ChannelOf[held[q]] # c
        BY <3>1, <2>4, OtherCarrier DEF Active, Running, Carrying, c
      <3>3. held[q] \in admitted /\ ChannelOf[held[q]] = Chan(q) /\ ~Queued(held[q])
        BY <3>1 DEF PlaceInv, OnePlace
      <3> QED
        BY <2>2, <2>4, <3>2, <3>3, ChanType DEF Queued
    <2> QED
      BY <2>5, <2>6, <2>7 DEF OnePlace, Queued
  <1>6. ASSUME NEW p \in Procs, NextQueued(p) PROVE OnePlace' /\ Bookkeeping'
    <2> DEFINE c == Chan(p)
               m == Head(queues[c])
    <2>1. /\ c \in Channels /\ queues[c] \in Seq(Envelopes) /\ queues[c] # <<>>
          /\ IsInjective(queues[c])
      BY <1>6, <1>t, ChanType DEF NextQueued, TypeOK, PlaceInv, OnePlace
    <2>2. /\ m \in ToSet(queues[c]) /\ ToSet(Tail(queues[c])) \subseteq ToSet(queues[c])
          /\ IsInjective(Tail(queues[c])) /\ m \notin ToSet(Tail(queues[c]))
      BY <2>1, PopMembers
    <2>3. /\ queues'[c] = Tail(queues[c])
          /\ \A d \in Channels : d # c => queues'[d] = queues[d]
      BY <1>6, <1>t, <2>1 DEF NextQueued, TypeOK
    <2>4. /\ \A q \in Procs : q # p => pc'[q] = pc[q] /\ held'[q] = held[q]
          /\ pc'[p] = "send" /\ held'[p] = m /\ pc[p] = "next"
          /\ UNCHANGED <<admitted, earlier, behind>>
      BY <1>6, <1>t DEF NextQueued, history, TypeOK
    <2>5. m \in admitted /\ ChannelOf[m] = c
      BY <2>1, <2>2 DEF PlaceInv, Bookkeeping, OnePlace
    <2> HIDE DEF c, m
    <2>6. Bookkeeping'
      <3>1. \A k \in admitted' : pc'[k] \notin {"new", "stored"}
        BY <2>4, <1>t, <1>e DEF PlaceInv, Bookkeeping, TypeOK
      <3>2. \A d \in Channels : ToSet(queues'[d]) \subseteq admitted'
        BY <2>1, <2>2, <2>3, <2>4 DEF PlaceInv, Bookkeeping
      <3> QED
        BY <3>1, <3>2, <2>4 DEF PlaceInv, Bookkeeping
    <2>7. \A d \in Channels : IsInjective(queues'[d]) /\ \A k \in ToSet(queues'[d]) :
                                ChannelOf[k] = d /\ pc'[k] # "stored"
      BY <2>1, <2>2, <2>3, <2>6 DEF PlaceInv, OnePlace, Bookkeeping
    <2>8. ASSUME NEW q \in Procs, pc'[q] \in Carrying
          PROVE  /\ held'[q] \in admitted' /\ ChannelOf[held'[q]] = Chan(q)
                 /\ held'[q] \notin ToSet(queues'[ChannelOf[held'[q]]])
      <3>1. CASE q = p
        BY <3>1, <2>2, <2>3, <2>4, <2>5 DEF c
      <3>2. CASE q # p
        <4>1. ChannelOf[held[q]] # c
          BY <3>2, <2>4, <2>8, OtherCarrier DEF Active, Running, c
        <4>2. held[q] \in admitted /\ ChannelOf[held[q]] = Chan(q) /\ ~Queued(held[q])
          BY <3>2, <2>4, <2>8 DEF PlaceInv, OnePlace
        <4> QED
          BY <3>2, <2>3, <2>4, <4>1, <4>2, ChanType DEF Queued
      <3> QED
        BY <3>1, <3>2
    <2> QED
      BY <2>6, <2>7, <2>8 DEF OnePlace, Queued
  <1>7. CASE HandleOffline \/ HandleOnline \/ HandleTraffic \/ Hub \/ UNCHANGED vars
    <2>1. UNCHANGED <<queues, pc, held, admitted, earlier, behind>>
      BY <1>7 DEF HandleOffline, HandleOnline, HandleTraffic, Hub, RelayRests, vars, relayVars, history
    <2> QED
      BY <2>1 DEF PlaceInv, OnePlace, Bookkeeping, Queued
  <1>8. CASE DrainAll
    <2> DEFINE idle == {c \in Channels : queues[c] # <<>> /\ c \notin sending}
    <2>1. /\ \A c \in Channels :
               queues'[c] = IF c \in idle THEN Tail(queues[c]) ELSE queues[c]
          /\ \A p \in Procs :
               /\ held'[p] = IF p \in idle THEN Head(queues[p]) ELSE held[p]
               /\ pc'[p] = IF p \in idle THEN "send" ELSE pc[p]
          /\ UNCHANGED <<admitted, earlier, behind>>
      BY <1>8 DEF DrainAll, history
    <2>2. ASSUME NEW c \in idle
          PROVE  /\ Head(queues[c]) \in ToSet(queues[c])
                 /\ ToSet(Tail(queues[c])) \subseteq ToSet(queues[c])
                 /\ IsInjective(Tail(queues[c]))
                 /\ Head(queues[c]) \notin ToSet(Tail(queues[c]))
      BY <1>t, PopMembers DEF TypeOK, PlaceInv, OnePlace
    <2>3. \A c \in idle : c \in Channels /\ c \notin sending /\ Chan(c) = c /\ c \notin Envelopes
      BY OutboxAssumption DEF OutboxAssumption, Chan
    <2> HIDE DEF idle
    <2>4. \A c \in Channels : ToSet(queues'[c]) \subseteq ToSet(queues[c]) /\ IsInjective(queues'[c])
      BY <2>1, <2>2 DEF PlaceInv, OnePlace
    <2>5. Bookkeeping'
      <3>1. \A k \in admitted' : pc'[k] \notin {"new", "stored"}
        BY <2>1, <1>t, <1>e DEF PlaceInv, Bookkeeping, TypeOK
      <3> QED
        BY <3>1, <2>1, <2>4 DEF PlaceInv, Bookkeeping
    <2>6. \A c \in Channels : \A k \in ToSet(queues'[c]) : ChannelOf[k] = c /\ pc'[k] # "stored"
      BY <2>4, <2>5 DEF PlaceInv, OnePlace, Bookkeeping
    <2>7. ASSUME NEW q \in Procs, pc'[q] \in Carrying
          PROVE  /\ held'[q] \in admitted' /\ ChannelOf[held'[q]] = Chan(q)
                 /\ held'[q] \notin ToSet(queues'[ChannelOf[held'[q]]])
      <3>1. CASE q \in idle
        <4>1. held'[q] \in admitted /\ ChannelOf[held'[q]] = q
          BY <3>1, <2>1, <2>2, <2>3 DEF PlaceInv, OnePlace, Bookkeeping
        <4> QED
          BY <3>1, <4>1, <2>1, <2>2, <2>3
      <3>2. CASE q \notin idle
        <4>1. pc[q] \in Carrying /\ held'[q] = held[q]
          BY <3>2, <2>1, <2>7
        <4>2. held[q] \in admitted /\ ChannelOf[held[q]] = Chan(q) /\ ~Queued(held[q])
          BY <4>1 DEF PlaceInv, OnePlace
        <4> QED
          BY <4>1, <4>2, <2>1, <2>4, ChanType DEF Queued
      <3> QED
        BY <3>1, <3>2
    <2> QED
      BY <2>4, <2>5, <2>6, <2>7 DEF OnePlace, Queued
  <1>9. CASE Restart
    <2>1. \A c \in Channels : ToSet(queues'[c]) = {} /\ IsInjective(queues'[c])
      BY <1>9, EmptyMembers DEF Restart
    <2>2. \A p \in Procs : pc'[p] = IF pc[p] = "new" THEN "new" ELSE "done"
      BY <1>9 DEF Restart
    <2>3. \A p \in Procs : pc'[p] \notin Carrying
      BY <2>2 DEF Carrying
    <2>4. \A k \in admitted : pc'[k] \notin {"new", "stored"}
      BY <2>2, <1>t, <1>e DEF PlaceInv, Bookkeeping, TypeOK
    <2> QED
      BY <1>9, <2>1, <2>3, <2>4 DEF Restart, OnePlace, PlaceInv, Bookkeeping
  <1> QED
    BY <1>1, <1>2, <1>3, <1>4, <1>5, <1>6, <1>7, <1>8, <1>9 DEF Next, Request, Deliver, AfterSend, Pump

\* Wherever the goroutines are, an envelope is in one place of the relay at
\* most: no step copies an envelope or mixes up two channels.
THEOREM EachInOnePlace == Spec => []OnePlace
  <1>1. Init => PlaceInv
    BY InitTypeInv, InitSingleSender, InitPlace DEF PlaceInv
  <1>2. PlaceInv /\ [Next]_vars => PlaceInv'
    BY NextTypeInv, NextSingleSender, NextPlace DEF PlaceInv
  <1>3. PlaceInv => OnePlace
    BY DEF PlaceInv
  <1> QED
    BY <1>1, <1>2, <1>3, PTL DEF Spec

-----------------------------------------------------------------------------
(* The relay implements AtLeastOnce.                                        *)

\* Two states agree on where every envelope is.
SameWhereabouts ==
  /\ \A m \in Envelopes : (pc'[m] = "new") <=> (pc[m] = "new")
  /\ \A m \in Envelopes : (m \in InRelay') <=> (m \in InRelay)

\* Where whereabouts stay, so does what is pending.
LEMMA SamePending == SameWhereabouts => Stored' = Stored /\ InRelay' = InRelay
  BY DEF SameWhereabouts, Stored, InRelay

\* Outbound, the requeue, the pop and the drain move envelopes about and lose
\* none: what leaves a request or a queue is queued or held after the step.
LEMMA MoveKeepsAll ==
  ASSUME PlaceInv, PlaceInv',
         NEW p \in Procs,
         OutboundQueue(p) \/ OutboundDirect(p) \/ Requeue(p) \/ NextQueued(p),
         p \in Envelopes \/ Requeue(p) \/ NextQueued(p)
  PROVE  SameWhereabouts
  <1>t. TypeOK /\ \A q \in Procs : Chan(q) \in Channels
    BY ChanType DEF PlaceInv, TypeInv
  <1>e. /\ Envelopes \subseteq Procs
        /\ \A m \in Envelopes : Chan(m) = ChannelOf[m] /\ ChannelOf[m] \in Channels
    BY OutboxAssumption DEF OutboxAssumption, Procs, Chan
  <1>1. CASE p \in Envelopes /\ OutboundQueue(p)
    <2>1. ToSet(Append(queues[ChannelOf[p]], p)) = ToSet(queues[ChannelOf[p]]) \cup {p}
      BY <1>1, <1>t, <1>e, AppendMembers DEF TypeOK
    <2>2. \A m \in Envelopes : Queued(m)' <=> Queued(m) \/ m = p
      BY <1>1, <1>t, <1>e, <2>1 DEF OutboundQueue, Queued, TypeOK
    <2>3. \A q \in Procs : pc'[q] = IF q = p THEN "done" ELSE pc[q]
      BY <1>1, <1>t DEF OutboundQueue, TypeOK
    <2>4. pc[p] = "stored" /\ held' = held
      BY <1>1 DEF OutboundQueue
    <2>5. \A q \in Procs : \A m \in Envelopes : Carries(q, m)' <=> Carries(q, m)
      BY <2>3, <2>4 DEF Carries, Carrying
    <2> QED
      BY <1>e, <2>2, <2>3, <2>4, <2>5 DEF SameWhereabouts, InRelay
  <1>2. CASE p \in Envelopes /\ OutboundDirect(p)
    <2>1. \A m \in Envelopes : Queued(m)' <=> Queued(m)
      BY <1>2 DEF OutboundDirect, Queued
    <2>2. \A q \in Procs : /\ pc'[q] = IF q = p THEN "send" ELSE pc[q]
                          /\ held'[q] = IF q = p THEN p ELSE held[q]
      BY <1>2, <1>t, <1>e DEF OutboundDirect, TypeOK
    <2>3. pc[p] = "stored"
      BY <1>2 DEF OutboundDirect
    <2>4. \A q \in Procs : \A m \in Envelopes :
            Carries(q, m)' <=> Carries(q, m) \/ (q = p /\ m = p)
      BY <2>2, <2>3 DEF Carries, Carrying
    <2> QED
      BY <1>e, <2>1, <2>2, <2>3, <2>4 DEF SameWhereabouts, InRelay
  <1>3. CASE Requeue(p)
    <2>0. pc[p] = "requeue" /\ held[p] \in Envelopes /\ ChannelOf[held[p]] = Chan(p)
      BY <1>3, <1>t DEF Requeue, PlaceInv, OnePlace, Carrying, TypeOK
    <2>1. ToSet(<<held[p]>> \o queues[Chan(p)]) = ToSet(queues[Chan(p)]) \cup {held[p]}
      BY <1>t, <2>0, PrependMembers DEF TypeOK
    <2>2. \A m \in Envelopes : Queued(m)' <=> Queued(m) \/ m = held[p]
      BY <1>3, <1>t, <1>e, <2>0, <2>1 DEF Requeue, Queued, TypeOK
    <2>3. /\ \A q \in Procs : pc'[q] = IF q = p THEN "exit" ELSE pc[q]
          /\ held' = held
      BY <1>3, <1>t DEF Requeue, TypeOK
    <2>4. \A q \in Procs : \A m \in Envelopes :
            Carries(q, m) <=> Carries(q, m)' \/ (q = p /\ m = held[p])
      BY <2>0, <2>3 DEF Carries, Carrying
    <2>5. /\ \A m \in Envelopes : (pc'[m] = "new") <=> (pc[m] = "new")
          /\ \A m \in Envelopes : (pc'[m] = "stored") <=> (pc[m] = "stored")
      BY <2>0, <2>3, <1>e
    <2>6. \A m \in Envelopes : (\E q \in Procs : Carries(q, m)) <=>
                              (\E q \in Procs : Carries(q, m)') \/ m = held[p]
      BY <2>4
    <2>7. \A m \in Envelopes : (m \in InRelay') <=> (m \in InRelay)
      BY <2>2, <2>5, <2>6 DEF InRelay
    <2> QED
      BY <2>5, <2>7 DEF SameWhereabouts
  <1>4. CASE NextQueued(p)
    <2> DEFINE c == Chan(p)
    <2>0. /\ pc[p] = "next" /\ c \in Channels
          /\ queues[c] \in Seq(Envelopes) /\ queues[c] # <<>>
      BY <1>4, <1>t DEF NextQueued, TypeOK
    <2>1. /\ Head(queues[c]) \in Envelopes /\ ChannelOf[Head(queues[c])] = c
          /\ ToSet(queues[c]) = ToSet(Tail(queues[c])) \cup {Head(queues[c])}
      BY <2>0, PopMembers, ToSetType DEF PlaceInv, OnePlace
    <2>2. /\ queues'[c] = Tail(queues[c])
          /\ \A d \in Channels : d # c => queues'[d] = queues[d]
          /\ \A q \in Procs : /\ pc'[q] = IF q = p THEN "send" ELSE pc[q]
                              /\ held'[q] = IF q = p THEN Head(queues[c]) ELSE held[q]
      BY <1>4, <1>t, <2>0 DEF NextQueued, TypeOK
    <2>3. \A m \in Envelopes : Queued(m) <=> Queued(m)' \/ m = Head(queues[c])
      BY <1>e, <2>1, <2>2 DEF Queued
    <2>4. \A q \in Procs : \A m \in Envelopes :
            Carries(q, m)' <=> Carries(q, m) \/ (q = p /\ m = Head(queues[c]))
      BY <2>0, <2>2 DEF Carries, Carrying
    <2>5. /\ \A m \in Envelopes : (pc'[m] = "new") <=> (pc[m] = "new")
          /\ \A m \in Envelopes : (pc'[m] = "stored") <=> (pc[m] = "stored")
      BY <2>0, <2>2, <1>e
    <2>6. \A m \in Envelopes : (\E q \in Procs : Carries(q, m)') <=>
                              (\E q \in Procs : Carries(q, m)) \/ m = Head(queues[c])
      BY <2>4
    <2>7. \A m \in Envelopes : (m \in InRelay') <=> (m \in InRelay)
      BY <2>3, <2>5, <2>6 DEF InRelay
    <2> QED
      BY <2>5, <2>7 DEF SameWhereabouts
  <1> QED
    BY <1>1, <1>2, <1>3, <1>4

\* A drain leaves every envelope where it counts.
LEMMA DrainKeepsAll == PlaceInv /\ DrainAll => SameWhereabouts
  <1> SUFFICES ASSUME PlaceInv, DrainAll PROVE SameWhereabouts
    OBVIOUS
  <1> DEFINE idle == {c \in Channels : queues[c] # <<>> /\ c \notin sending}
  <1>t. TypeOK
    BY DEF PlaceInv, TypeInv
  <1>e. /\ Envelopes \subseteq Procs /\ idle \subseteq Procs
        /\ \A m \in Envelopes : m \notin idle /\ ChannelOf[m] \in Channels
        /\ \A c \in idle : c \in Channels /\ c \notin sending /\ Chan(c) = c
    BY OutboxAssumption DEF OutboxAssumption, Procs, Chan
  <1>1. /\ \A c \in Channels :
             queues'[c] = IF c \in idle THEN Tail(queues[c]) ELSE queues[c]
        /\ \A p \in Procs :
             /\ held'[p] = IF p \in idle THEN Head(queues[p]) ELSE held[p]
             /\ pc'[p] = IF p \in idle THEN "send" ELSE pc[p]
    BY DEF DrainAll
  <1>2. ASSUME NEW c \in idle
        PROVE  /\ Head(queues[c]) \in Envelopes /\ ChannelOf[Head(queues[c])] = c
               /\ ToSet(queues[c]) = ToSet(Tail(queues[c])) \cup {Head(queues[c])}
    BY <1>t, PopMembers, ToSetType DEF TypeOK, PlaceInv, OnePlace
  <1>3. \A c \in idle : pc[c] \notin Carrying
    BY <1>e DEF PlaceInv, SingleSender, Active, Running
  <1> HIDE DEF idle
  <1>4. \A m \in Envelopes : Queued(m) <=>
          Queued(m)' \/ (ChannelOf[m] \in idle /\ m = Head(queues[ChannelOf[m]]))
    BY <1>e, <1>1, <1>2 DEF Queued
  <1>5. \A q \in Procs : \A m \in Envelopes :
          Carries(q, m)' <=> Carries(q, m) \/ (q \in idle /\ m = Head(queues[q]))
    BY <1>1, <1>3 DEF Carries, Carrying
  <1>6. \A m \in Envelopes : pc'[m] = pc[m]
    BY <1>e, <1>1
  <1>7. ASSUME NEW m \in Envelopes PROVE (m \in InRelay') <=> (m \in InRelay)
    <2>1. (\E q \in Procs : Carries(q, m)') <=>
             \/ \E q \in Procs : Carries(q, m)
             \/ ChannelOf[m] \in idle /\ m = Head(queues[ChannelOf[m]])
      BY <1>e, <1>2, <1>5
    <2> QED
      BY <2>1, <1>4, <1>6 DEF InRelay
  <1> QED
    BY <1>6, <1>7 DEF SameWhereabouts

\* How a step changes what the relay has in memory.
LEMMA StepOfInRelay ==
  ASSUME PlaceInv, PlaceInv', [Next]_vars
  PROVE  \/ \E m \in Envelopes : /\ m \notin Stored
                                 /\ Stored' = Stored \cup {m} /\ InRelay' = InRelay \cup {m}
                                 /\ handed' = handed /\ lost' = lost
         \/ \E m \in InRelay : /\ handed' = handed \cup {m}
                              /\ InRelay' \in {InRelay, InRelay \ {m}}
                              /\ Stored' = Stored /\ lost' = lost
         \/ /\ InRelay' = {} /\ lost' = lost \cup (Stored \ handed)
            /\ Stored' = Stored /\ handed' = handed
         \/ Stored' = Stored /\ InRelay' = InRelay /\ handed' = handed /\ lost' = lost
  <1> DEFINE Quiet == Stored' = Stored /\ InRelay' = InRelay /\ handed' = handed /\ lost' = lost
  <1>t. TypeOK
    BY DEF PlaceInv, TypeInv
  <1>e. Envelopes \subseteq Procs
    BY DEF Procs
  <1>1. ASSUME NEW m \in Envelopes, Store(m)
        PROVE  /\ m \notin Stored /\ Stored' = Stored \cup {m}
               /\ InRelay' = InRelay \cup {m} /\ handed' = handed /\ lost' = lost
    <2>1. /\ \A q \in Procs : pc'[q] = IF q = m THEN "stored" ELSE pc[q]
          /\ pc[m] = "new" /\ queues' = queues /\ held' = held
          /\ handed' = handed /\ lost' = lost
      BY <1>1, <1>t, <1>e DEF Store, history, TypeOK
    <2>2. \A q \in Procs : \A k \in Envelopes : Carries(q, k)' <=> Carries(q, k)
      BY <2>1 DEF Carries, Carrying
    <2>3. \A k \in Envelopes : Queued(k)' <=> Queued(k)
      BY <2>1 DEF Queued
    <2>4. \A k \in Envelopes : k \in InRelay' <=> k \in InRelay \/ k = m
      BY <1>e, <2>1, <2>2, <2>3 DEF InRelay
    <2>5. InRelay' \subseteq Envelopes /\ InRelay \subseteq Envelopes
      BY DEF InRelay
    <2>6. InRelay' = InRelay \cup {m}
      BY <2>4, <2>5
    <2>7. m \notin Stored /\ Stored' = Stored \cup {m}
      BY <1>e, <2>1 DEF Stored
    <2> QED
      BY <2>1, <2>6, <2>7
  <1>2. ASSUME NEW m \in Envelopes, OutboundQueue(m) \/ OutboundDirect(m) PROVE Quiet
    <2>1. SameWhereabouts
      BY <1>2, <1>e, MoveKeepsAll
    <2> QED
      BY <1>2, <2>1, SamePending DEF OutboundQueue, OutboundDirect
  <1>3. ASSUME NEW p \in Procs, Requeue(p) \/ NextQueued(p) PROVE Quiet
    <2>1. SameWhereabouts
      BY <1>3, MoveKeepsAll
    <2> QED
      BY <1>3, <2>1, SamePending DEF Requeue, NextQueued, history
  <1>4. CASE DrainAll
    <2> QED
      BY <1>4, DrainKeepsAll, SamePending DEF DrainAll, history
  <1>5. ASSUME NEW p \in Procs, MarkOffline(p) \/ QueueEmpty(p) \/ Exit(p) PROVE Quiet
    <2>1. PICK label \in {"requeue", "exit", "done"} :
            /\ pc' = [pc EXCEPT ![p] = label]
            /\ label \in Carrying <=> pc[p] \in Carrying
            /\ pc[p] \in Running
      BY <1>5 DEF MarkOffline, QueueEmpty, Exit, Running, Carrying
    <2>2. /\ \A q \in Procs : pc'[q] = IF q = p THEN label ELSE pc[q]
          /\ \A q \in Procs : pc[q] \in Carrying => held'[q] = held[q]
          /\ queues' = queues /\ handed' = handed /\ lost' = lost
      BY <1>5, <1>t, <2>1 DEF MarkOffline, QueueEmpty, Exit, history, TypeOK, Carrying
    <2>3. \A q \in Procs : \A k \in Envelopes : Carries(q, k)' <=> Carries(q, k)
      BY <2>1, <2>2 DEF Carries
    <2>4. /\ \A k \in Envelopes : (pc'[k] = "new") <=> (pc[k] = "new")
          /\ \A k \in Envelopes : (pc'[k] = "stored") <=> (pc[k] = "stored")
      BY <1>e, <2>1, <2>2 DEF Running, Carrying
    <2>5. SameWhereabouts
      BY <2>2, <2>3, <2>4 DEF SameWhereabouts, InRelay, Queued
    <2> QED
      BY <2>2, <2>5, SamePending
  <1>6. ASSUME NEW p \in Procs, SendOk(p) \/ SendFail(p)
        PROVE  \/ /\ held[p] \in InRelay
                  /\ handed' = handed \cup {held[p]}
                  /\ InRelay' \in {InRelay, InRelay \ {held[p]}}
                  /\ Stored' = Stored /\ lost' = lost
               \/ Quiet
    <2> DEFINE m == held[p]
    <2>1. /\ pc[p] = "send" /\ held' = held /\ queues' = queues /\ lost' = lost
          /\ m \in admitted /\ m \in Envelopes /\ Chan(p) = ChannelOf[m]
          /\ ~Queued(m) /\ pc[m] # "stored"
      BY <1>6, <1>t DEF SendOk, SendFail, PlaceInv, OnePlace, Bookkeeping, Carrying, TypeOK
    <2>2. m \in InRelay
      BY <2>1 DEF InRelay, Carries, Carrying
    <2>3. PICK label \in {"next", "failed"} :
            /\ label = "next" <=> SendOk(p)
            /\ \A q \in Procs : pc'[q] = IF q = p THEN label ELSE pc[q]
      BY <1>6, <1>t DEF SendOk, SendFail, TypeOK
    <2>4. /\ \A k \in Envelopes : (pc'[k] = "new") <=> (pc[k] = "new")
          /\ \A k \in Envelopes : (pc'[k] = "stored") <=> (pc[k] = "stored")
      BY <1>e, <2>1, <2>3
    <2>5. \A k \in Envelopes : Queued(k)' <=> Queued(k)
      BY <2>1 DEF Queued
    <2>6. \A q \in Procs : q # p => ~Carries(q, m)
      BY <2>1, OtherCarrier DEF Active, Running, Carrying, Carries
    <2>7. CASE SendOk(p)
      <3>1. \A q \in Procs : \A k \in Envelopes :
              Carries(q, k)' <=> Carries(q, k) /\ q # p
        BY <2>1, <2>3, <2>7 DEF Carries, Carrying
      <3>2. \A k \in Envelopes : Carries(p, k) => k = m
        BY DEF Carries
      <3>3. \A k \in Envelopes : (\E q \in Procs : Carries(q, k)') <=>
                                (\E q \in Procs : Carries(q, k)) /\ k # m
        BY <2>6, <3>1, <3>2
      <3>4. \A k \in Envelopes : k \in InRelay' <=> k \in InRelay /\ k # m
        BY <2>1, <2>4, <2>5, <3>3 DEF InRelay
      <3>5. InRelay' \subseteq Envelopes /\ InRelay \subseteq Envelopes
        BY DEF InRelay
      <3>6. InRelay' = InRelay \ {m}
        BY <3>4, <3>5
      <3>7. Stored' = Stored
        BY <2>4 DEF Stored
      <3> QED
        BY <2>1, <2>2, <2>7, <3>6, <3>7 DEF SendOk
    <2>8. CASE SendFail(p) /\ ~SendOk(p)
      <3>1. \A q \in Procs : \A k \in Envelopes : Carries(q, k)' <=> Carries(q, k)
        BY <2>1, <2>3, <2>8 DEF Carries, Carrying
      <3>2. SameWhereabouts
        BY <2>4, <2>5, <3>1 DEF SameWhereabouts, InRelay
      <3> QED
        BY <2>1, <2>2, <2>8, <3>2, SamePending DEF SendFail
    <2> QED
      BY <1>6, <2>7, <2>8
  <1>7. CASE HandleOffline \/ HandleOnline \/ HandleTraffic \/ Hub \/ UNCHANGED vars
    <2>1. UNCHANGED <<queues, pc, held, handed, lost>>
      BY <1>7 DEF HandleOffline, HandleOnline, HandleTraffic, Hub, RelayRests, vars, relayVars, history
    <2>2. Quiet
      BY <2>1 DEF Stored, InRelay, Queued, Carries
    <2> QED
      BY <2>2
  <1>8. CASE Restart
    <2>1. /\ \A q \in Procs : pc'[q] = IF pc[q] = "new" THEN "new" ELSE "done"
          /\ \A c \in Channels : ToSet(queues'[c]) = {}
          /\ handed' = handed /\ lost' = lost \cup (Stored \ handed)
      BY <1>8, EmptyMembers DEF Restart
    <2>2. \A k \in Envelopes : ~Queued(k)' /\ pc'[k] # "stored"
      BY <1>e, <2>1, OutboxAssumption DEF OutboxAssumption, Queued
    <2>3. \A q \in Procs : pc'[q] \notin Carrying
      BY <2>1 DEF Carrying
    <2>4. InRelay' = {}
      BY <2>2, <2>3 DEF InRelay, Carries
    <2>5. Stored' = Stored
      BY <1>e, <2>1 DEF Stored
    <2> QED
      BY <2>1, <2>4, <2>5
  <1> HIDE DEF Quiet
  <1>9. CASE Quiet
    BY <1>9 DEF Quiet
  <1> QED
    BY <1>1, <1>2, <1>3, <1>4, <1>5, <1>6, <1>7, <1>8, <1>9 DEF Next, Request, Deliver, AfterSend, Pump

\* The invariant holds always.
LEMMA PlaceAlways == Spec => []PlaceInv
  <1>1. Init => PlaceInv
    BY InitTypeInv, InitSingleSender, InitPlace DEF PlaceInv
  <1>2. PlaceInv /\ [Next]_vars => PlaceInv'
    BY NextTypeInv, NextSingleSender, NextPlace DEF PlaceInv
  <1> QED
    BY <1>1, <1>2, PTL DEF Spec

\* Nothing is pending at the start.
LEMMA InitNothingPending == Init => Stored = {} /\ InRelay = {}
  <1> SUFFICES ASSUME Init PROVE Stored = {} /\ InRelay = {}
    OBVIOUS
  <1>1. \A m \in Envelopes : pc[m] = "new" /\ ~Queued(m)
    BY EmptyMembers, OutboxAssumption DEF OutboxAssumption, Init, Procs, Queued
  <1>2. \A p \in Procs : pc[p] \notin Carrying
    BY DEF Init, Carrying
  <1> QED
    BY <1>1, <1>2 DEF Stored, InRelay, Carries

\* The relay implements AtLeastOnce: except at a restart, an envelope whose id is
\* taken stays in the relay's memory until the hub connection has had it.
THEOREM RelayImplementsAtLeastOnce == Spec => ImplementsAtLeastOnce
  <1>1. Init => Promise!AInit
    BY InitNothingPending DEF Init, Promise!AInit
  <1>2. PlaceInv /\ PlaceInv' /\ [Next]_vars => [Promise!ANext]_(Promise!abstractVars)
    <2> SUFFICES ASSUME PlaceInv, PlaceInv', [Next]_vars
                 PROVE  [Promise!ANext]_(Promise!abstractVars)
      OBVIOUS
    <2>1. ASSUME NEW m \in Envelopes, m \notin Stored, Stored' = Stored \cup {m},
                 InRelay' = InRelay \cup {m}, handed' = handed
          PROVE  Promise!ANext
      BY <2>1 DEF Promise!ANext, Promise!Accept
    <2>2. ASSUME NEW m \in InRelay, handed' = handed \cup {m},
                 InRelay' \in {InRelay, InRelay \ {m}}, Stored' = Stored
          PROVE  Promise!ANext
      BY <2>2 DEF Promise!ANext, Promise!Forward, InRelay
    <2>3. ASSUME InRelay' = {}, Stored' = Stored, handed' = handed
          PROVE  Promise!ANext
      BY <2>3 DEF Promise!ANext, Promise!Forget
    <2> QED
      BY StepOfInRelay, <2>1, <2>2, <2>3 DEF Promise!abstractVars
  <1> QED
    BY <1>1, <1>2, PlaceAlways, PTL DEF Spec, ImplementsAtLeastOnce, Promise!ASpec

-----------------------------------------------------------------------------
(* Order within a channel.                                                  *)

\* What the relay took is on its way, arrived, or was lost to a restart.
Kept == Stored \subseteq InRelay \cup handed \cup lost

\* Nothing was taken at the start.
LEMMA InitKept == Init => Kept
  BY InitNothingPending DEF Kept

\* Every step keeps what the relay took.
LEMMA NextKept == PlaceInv /\ PlaceInv' /\ Kept /\ [Next]_vars => Kept'
  BY StepOfInRelay DEF Kept

Settled == handed \cup lost
InHand(c) == {m \in Envelopes : \E p \in Procs : Carries(p, m) /\ Chan(p) = c}

\* An envelope that Outbound queued has ahead of it, in the queue or in the hands
\* of the channel's sender, every earlier envelope of its channel not settled yet.
ChanOrdered(c) ==
  \A j \in 1..Len(queues[c]) :
    queues[c][j] \in behind =>
      \A k \in earlier[queues[c][j]] :
        k \in Settled \/ k \in InHand(c) \/ \E i \in 1..(j - 1) : queues[c][i] = k

QueueOrdered == \A c \in Channels : ChanOrdered(c)

\* Once it is in a sender's hands, none of them is left.
HandOrdered ==
  \A p \in Procs :
    pc[p] \in Carrying /\ held[p] \in behind => earlier[held[p]] \subseteq Settled

OrderInv ==
  PlaceInv /\ Kept /\ handed \subseteq admitted
  /\ QueueOrdered /\ HandOrdered /\ QueuedNeverOvertakes

\* Nothing is queued at the start.
LEMMA InitOrder == Init => OrderInv
  <1> SUFFICES ASSUME Init PROVE OrderInv
    OBVIOUS
  <1>1. PlaceInv /\ Kept
    BY InitTypeInv, InitSingleSender, InitPlace, InitKept DEF PlaceInv
  <1>2. QueueOrdered
    BY EmptyQueue DEF Init, QueueOrdered, ChanOrdered
  <1>3. HandOrdered /\ QueuedNeverOvertakes /\ handed \subseteq admitted
    BY DEF Init, HandOrdered, QueuedNeverOvertakes
  <1> QED
    BY <1>1, <1>2, <1>3 DEF OrderInv

\* A goroutine that holds no envelope while it is the sender of its channel
\* shows that nothing of the channel is in anybody's hands.
LEMMA EmptyHand ==
  ASSUME PlaceInv, NEW c \in Channels,
         c \notin sending \/ \E p \in Procs : Chan(p) = c /\ Active(p) /\ pc[p] \notin Carrying
  PROVE  InHand(c) = {}
  BY DEF PlaceInv, SingleSender, InHand, Carries, Active, Running

\* What a step leaves alone stays ordered, if nothing leaves a sender's hands
\* without being settled.
LEMMA FrameOrder ==
  ASSUME OrderInv, NEW c \in Channels, queues'[c] = queues[c],
         \A m \in ToSet(queues[c]) : earlier'[m] = earlier[m] /\ (m \in behind' => m \in behind),
         Settled \subseteq Settled', InHand(c) \subseteq InHand(c)' \cup Settled'
  PROVE  ChanOrdered(c)'
  <1> SUFFICES ASSUME NEW j \in 1..Len(queues[c]), queues[c][j] \in behind',
                      NEW k \in earlier'[queues[c][j]]
               PROVE  k \in Settled' \/ k \in InHand(c)' \/ \E i \in 1..(j - 1) : queues[c][i] = k
    BY DEF ChanOrdered
  <1>1. queues[c] \in Seq(Envelopes)
    BY DEF OrderInv, PlaceInv, TypeInv, TypeOK
  <1>2. queues[c][j] \in ToSet(queues[c])
    BY <1>1 DEF ToSet
  <1>3. k \in earlier[queues[c][j]] /\ queues[c][j] \in behind
    BY <1>2
  <1>4. k \in Settled \/ k \in InHand(c) \/ \E i \in 1..(j - 1) : queues[c][i] = k
    BY <1>3 DEF OrderInv, QueueOrdered, ChanOrdered
  <1> QED
    BY <1>4

\* The head of an ordered queue whose channel nobody has in hand may be sent; the
\* rest stays ordered behind it.
LEMMA PopOrder ==
  ASSUME OrderInv, NEW c \in Channels, queues[c] # <<>>, InHand(c) = {},
         queues'[c] = Tail(queues[c]), Head(queues[c]) \in InHand(c)',
         UNCHANGED <<earlier, behind>>, Settled' = Settled
  PROVE  /\ Head(queues[c]) \in behind => earlier[Head(queues[c])] \subseteq Settled
         /\ ChanOrdered(c)'
  <1> DEFINE s == queues[c]
             n == Len(s)
  <1>1. s \in Seq(Envelopes) /\ s # <<>>
    BY DEF OrderInv, PlaceInv, TypeInv, TypeOK
  <1>2. /\ n \in Nat /\ n > 0 /\ Head(s) = s[1]
        /\ Len(Tail(s)) = n - 1 /\ \A i \in 1..(n - 1) : Tail(s)[i] = s[i + 1]
    BY <1>1
  <1>3. \A j \in 1..n : s[j] \in behind => \A k \in earlier[s[j]] :
          k \in Settled \/ \E i \in 1..(j - 1) : s[i] = k
    BY DEF OrderInv, QueueOrdered, ChanOrdered
  <1> HIDE DEF s, n
  <1>4. Head(s) \in behind => earlier[Head(s)] \subseteq Settled
    BY <1>2, <1>3
  <1>5. ASSUME NEW j \in 1..(n - 1), Tail(s)[j] \in behind, NEW k \in earlier[Tail(s)[j]]
        PROVE  k \in Settled \/ k = Head(s) \/ \E i \in 1..(j - 1) : Tail(s)[i] = k
    <2>1. j + 1 \in 1..n /\ Tail(s)[j] = s[j + 1] /\ (j + 1) - 1 = j
      BY <1>2
    <2>2. k \in Settled \/ \E i \in 1..((j + 1) - 1) : s[i] = k
      BY <1>3, <1>5, <2>1
    <2>3. ASSUME NEW i \in 1..j, s[i] = k, i # 1
          PROVE  \E l \in 1..(j - 1) : Tail(s)[l] = k
      <3>1. i - 1 \in 1..(j - 1) /\ i - 1 \in 1..(n - 1)
        BY <2>1, <2>3, <1>2
      <3>2. Tail(s)[i - 1] = s[(i - 1) + 1] /\ (i - 1) + 1 = i
        BY <1>2, <3>1
      <3> QED
        BY <2>3, <3>1, <3>2
    <2> QED
      BY <1>2, <2>1, <2>2, <2>3
  <1>6. Len(queues'[c]) = n - 1 /\ queues'[c] = Tail(s) /\ Head(s) \in InHand(c)'
    BY <1>2 DEF s
  <1>7. earlier' = earlier /\ behind' = behind /\ Settled' = Settled
    OBVIOUS
  <1>8. ASSUME NEW j \in 1..Len(queues'[c]), queues'[c][j] \in behind',
               NEW k \in earlier'[queues'[c][j]]
        PROVE  k \in Settled' \/ k \in InHand(c)' \/ \E i \in 1..(j - 1) : queues'[c][i] = k
    <2>1. j \in 1..(n - 1) /\ Tail(s)[j] \in behind /\ k \in earlier[Tail(s)[j]]
      BY <1>6, <1>7, <1>8
    <2>2. k \in Settled \/ k = Head(s) \/ \E i \in 1..(j - 1) : Tail(s)[i] = k
      BY <1>5, <2>1
    <2> QED
      BY <1>6, <1>7, <2>2
  <1> QED
    BY <1>4, <1>8 DEF s, ChanOrdered

\* A step that moves no envelope and leaves the histories alone.
LEMMA QuietOrder ==
  ASSUME OrderInv, UNCHANGED <<queues, admitted, earlier, behind, handed, lost>>,
         \A q \in Procs : (pc'[q] \in Carrying) <=> (pc[q] \in Carrying),
         \A q \in Procs : pc[q] \in Carrying => held'[q] = held[q]
  PROVE  /\ handed' \subseteq admitted' /\ QueueOrdered' /\ HandOrdered'
         /\ QueuedNeverOvertakes'
  <1>1. \A d \in Channels : InHand(d)' = InHand(d)
    BY DEF InHand, Carries
  <1>2. Settled' = Settled
    BY DEF Settled
  <1>3. QueueOrdered'
    BY <1>1, <1>2, FrameOrder DEF QueueOrdered
  <1>4. HandOrdered'
    BY <1>2 DEF OrderInv, HandOrdered
  <1> QED
    BY <1>3, <1>4 DEF OrderInv, QueuedNeverOvertakes

\* Every step keeps the order.
LEMMA NextOrder ==
  ASSUME OrderInv, PlaceInv', Kept', [Next]_vars
  PROVE  OrderInv'
  <1> DEFINE Goal == handed' \subseteq admitted' /\ QueueOrdered' /\ HandOrdered'
                     /\ QueuedNeverOvertakes'
  <1>t. /\ PlaceInv /\ SingleSender /\ OnePlace /\ Bookkeeping /\ Kept
        /\ TypeOK /\ handed \subseteq admitted /\ HandOrdered /\ QueuedNeverOvertakes
        /\ \A q \in Procs : Chan(q) \in Channels
    BY ChanType DEF OrderInv, PlaceInv, TypeInv
  <1>e. /\ Envelopes \subseteq Procs
        /\ \A m \in Envelopes : Chan(m) = ChannelOf[m] /\ ChannelOf[m] \in Channels
    BY OutboxAssumption DEF OutboxAssumption, Procs, Chan
  <1>1. ASSUME NEW m \in Envelopes, Store(m) PROVE Goal
    <2>1. /\ \A q \in Procs : pc'[q] = IF q = m THEN "stored" ELSE pc[q]
          /\ pc[m] = "new"
          /\ UNCHANGED <<queues, held, admitted, earlier, behind, handed, lost>>
      BY <1>1, <1>t, <1>e DEF Store, history, TypeOK
    <2>2. \A q \in Procs : (pc'[q] \in Carrying) <=> (pc[q] \in Carrying)
      BY <2>1 DEF Carrying
    <2> QED
      BY <2>1, <2>2, QuietOrder
  <1>2. ASSUME NEW m \in Envelopes, OutboundQueue(m) PROVE Goal
    <2> DEFINE c == ChannelOf[m]
               s == queues[c]
    <2>1. /\ m \notin admitted /\ m \notin handed /\ pc[m] = "stored" /\ c \in Channels
          /\ \A d \in Channels : m \notin ToSet(queues[d])
      BY <1>2, <1>t, <1>e DEF OutboundQueue, Bookkeeping
    <2>2. /\ \A q \in Procs : pc'[q] = IF q = m THEN "done" ELSE pc[q]
          /\ queues'[c] = Append(s, m)
          /\ \A d \in Channels : d # c => queues'[d] = queues[d]
          /\ admitted' = admitted \cup {m} /\ behind' = behind \cup {m}
          /\ \A k \in Envelopes : earlier'[k] =
               IF k = m THEN {j \in admitted : ChannelOf[j] = c} ELSE earlier[k]
          /\ UNCHANGED <<held, handed, lost>>
      BY <1>2, <1>t, <1>e, <2>1 DEF OutboundQueue, Admit, TypeOK
    <2>3. \A q \in Procs : (pc'[q] \in Carrying) <=> (pc[q] \in Carrying)
      BY <2>1, <2>2 DEF Carrying
    <2>4. Settled' = Settled /\ \A d \in Channels : InHand(d)' = InHand(d)
      BY <2>2, <2>3 DEF Settled, InHand, Carries
    <2>5. s \in Seq(Envelopes)
      BY <1>t, <2>1 DEF TypeOK
    <2>6. \A d \in Channels : \A k \in ToSet(queues[d]) :
            earlier'[k] = earlier[k] /\ (k \in behind' => k \in behind)
      BY <1>t, <2>1, <2>2, ToSetType DEF TypeOK
    <2>7. \A k \in earlier'[m] : k \in Settled \/ k \in InHand(c) \/ k \in ToSet(s)
      <3> SUFFICES ASSUME NEW k \in admitted, ChannelOf[k] = c, k \notin Settled
                   PROVE  k \in InHand(c) \/ k \in ToSet(s)
        BY <2>2
      <3>1. k \in Envelopes /\ pc[k] \notin {"new", "stored"}
        BY <1>t DEF Bookkeeping, TypeOK
      <3>2. k \in InRelay
        BY <1>t, <3>1 DEF Kept, Stored, Settled
      <3>3. Queued(k) \/ \E q \in Procs : Carries(q, k)
        BY <3>1, <3>2 DEF InRelay
      <3>4. ASSUME NEW q \in Procs, Carries(q, k) PROVE k \in InHand(c)
        BY <1>t, <3>1, <3>4 DEF Carries, OnePlace, InHand
      <3> QED
        BY <3>3, <3>4 DEF Queued
    <2>8. ASSUME NEW j \in 1..Len(queues'[c]), queues'[c][j] \in behind',
                 NEW k \in earlier'[queues'[c][j]]
          PROVE  k \in Settled' \/ k \in InHand(c)' \/ \E i \in 1..(j - 1) : queues'[c][i] = k
      <3>1. /\ Len(queues'[c]) = Len(s) + 1 /\ Len(s) \in Nat
            /\ queues'[c][Len(s) + 1] = m
            /\ \A i \in 1..Len(s) : queues'[c][i] = s[i] /\ i \in DOMAIN s
        BY <2>2, <2>5
      <3>2. CASE j = Len(s) + 1
        <4>1. k \in Settled \/ k \in InHand(c) \/ k \in ToSet(s)
          BY <2>7, <2>8, <3>1, <3>2
        <4>2. k \in ToSet(s) => \E i \in 1..Len(s) : s[i] = k
          BY <2>5 DEF ToSet
        <4>3. 1..(j - 1) = 1..Len(s)
          BY <3>1, <3>2
        <4>4. ASSUME NEW i \in 1..Len(s), s[i] = k
              PROVE  \E l \in 1..(j - 1) : queues'[c][l] = k
          <5>1. i \in 1..(j - 1) /\ queues'[c][i] = s[i]
            BY <3>1, <4>3, <4>4
          <5> QED
            BY <4>4, <5>1
        <4>5. k \in Settled' \/ k \in InHand(c)' \/ k \in ToSet(s)
          BY <2>1, <2>4, <4>1
        <4> HIDE DEF s, c
        <4> QED
          BY <4>2, <4>4, <4>5
      <3>3. CASE j # Len(s) + 1
        <4>1. j \in 1..Len(s) /\ queues'[c][j] = s[j] /\ s[j] \in ToSet(s)
          BY <3>1, <3>3 DEF ToSet
        <4>2. s[j] \in behind /\ k \in earlier[s[j]]
          BY <2>1, <2>6, <2>8, <4>1
        <4>3. k \in Settled \/ k \in InHand(c) \/ \E i \in 1..(j - 1) : s[i] = k
          BY <2>1, <4>1, <4>2 DEF OrderInv, QueueOrdered, ChanOrdered
        <4>4. ASSUME NEW i \in 1..(j - 1), s[i] = k
              PROVE  \E l \in 1..(j - 1) : queues'[c][l] = k
          <5>1. i \in 1..Len(s)
            BY <3>1, <4>1
          <5>2. queues'[c][i] = s[i]
            BY <3>1, <5>1
          <5> QED
            BY <4>4, <5>2
        <4>5. k \in Settled' \/ k \in InHand(c)' \/ \E i \in 1..(j - 1) : s[i] = k
          BY <2>1, <2>4, <4>3
        <4> HIDE DEF s, c
        <4> QED
          BY <4>4, <4>5
      <3> QED
        BY <3>2, <3>3
    <2>9. QueueOrdered'
      <3>1. ChanOrdered(c)'
        BY <2>8 DEF ChanOrdered
      <3>2. ASSUME NEW d \in Channels, d # c PROVE ChanOrdered(d)'
        BY <2>2, <2>4, <2>6, <3>2, FrameOrder
      <3> QED
        BY <3>1, <3>2 DEF QueueOrdered
    <2>10. HandOrdered'
      <3> SUFFICES ASSUME NEW q \in Procs, pc'[q] \in Carrying, held'[q] \in behind'
                   PROVE  earlier'[held'[q]] \subseteq Settled'
        BY DEF HandOrdered
      <3>1. pc[q] \in Carrying /\ held'[q] = held[q] /\ held[q] \in admitted /\ held[q] # m
        BY <1>t, <2>1, <2>2, <2>3 DEF OnePlace
      <3>2. held[q] \in behind /\ earlier'[held[q]] = earlier[held[q]]
        BY <1>t, <2>2, <3>1 DEF TypeOK
      <3> QED
        BY <1>t, <2>4, <3>1, <3>2 DEF HandOrdered
    <2> QED
      BY <1>t, <2>1, <2>2, <2>9, <2>10 DEF QueuedNeverOvertakes, TypeOK
  <1>3. ASSUME NEW m \in Envelopes, OutboundDirect(m) PROVE Goal
    <2>1. m \notin admitted /\ m \notin behind /\ pc[m] = "stored"
          /\ \A d \in Channels : m \notin ToSet(queues[d])
      BY <1>3, <1>t DEF OutboundDirect, Bookkeeping
    <2>2. /\ \A q \in Procs : /\ pc'[q] = IF q = m THEN "send" ELSE pc[q]
                             /\ held'[q] = IF q = m THEN m ELSE held[q]
          /\ admitted' = admitted \cup {m}
          /\ \A k \in Envelopes : k # m => earlier'[k] = earlier[k]
          /\ UNCHANGED <<queues, behind, handed, lost>>
      BY <1>3, <1>t, <1>e DEF OutboundDirect, Admit, TypeOK
    <2>3. \A q \in Procs : pc[q] \in Carrying => pc'[q] \in Carrying /\ held'[q] = held[q]
      BY <2>1, <2>2 DEF Carrying
    <2>4. Settled' = Settled /\ \A d \in Channels : InHand(d) \subseteq InHand(d)'
      BY <2>2, <2>3 DEF Settled, InHand, Carries
    <2>5. QueueOrdered'
      <3> SUFFICES ASSUME NEW d \in Channels PROVE ChanOrdered(d)'
        BY DEF QueueOrdered
      <3>1. \A k \in ToSet(queues[d]) :
              earlier'[k] = earlier[k] /\ (k \in behind' => k \in behind)
        BY <1>t, <2>1, <2>2, ToSetType DEF TypeOK
      <3> QED
        BY <2>2, <2>4, <3>1, FrameOrder
    <2>6. HandOrdered'
      <3> SUFFICES ASSUME NEW q \in Procs, pc'[q] \in Carrying, held'[q] \in behind'
                   PROVE  earlier'[held'[q]] \subseteq Settled'
        BY DEF HandOrdered
      <3>1. q # m /\ pc[q] \in Carrying /\ held'[q] = held[q]
        BY <2>1, <2>2
      <3>2. held[q] \in behind /\ held[q] # m /\ held[q] \in Envelopes
        BY <1>t, <2>1, <2>2, <3>1 DEF TypeOK
      <3> QED
        BY <1>t, <2>2, <2>4, <3>1, <3>2 DEF HandOrdered
    <2>7. QueuedNeverOvertakes'
      <3> SUFFICES ASSUME NEW k \in behind \cap handed PROVE earlier'[k] \subseteq Settled
        BY <2>2, <2>4 DEF QueuedNeverOvertakes, Settled
      <3>1. k # m /\ k \in Envelopes
        BY <1>t, <2>1 DEF TypeOK
      <3> QED
        BY <1>t, <2>2, <3>1 DEF QueuedNeverOvertakes, Settled
    <2> QED
      BY <1>t, <2>2, <2>5, <2>6, <2>7
  <1>4. ASSUME NEW p \in Procs, SendOk(p) \/ SendFail(p) PROVE Goal
    <2> DEFINE m == held[p]
    <2>1. /\ pc[p] = "send" /\ m \in admitted /\ m \in Envelopes
          /\ UNCHANGED <<queues, held, admitted, earlier, behind, lost>>
          /\ handed' = handed \/ handed' = handed \cup {m}
          /\ SendOk(p) => handed' = handed \cup {m}
      BY <1>4, <1>t DEF SendOk, SendFail, OnePlace, TypeOK, Carrying
    <2>2. PICK label \in {"next", "failed"} :
            /\ label = "next" <=> SendOk(p)
            /\ \A q \in Procs : pc'[q] = IF q = p THEN label ELSE pc[q]
      BY <1>4, <1>t DEF SendOk, SendFail, TypeOK
    <2>3. Settled \subseteq Settled' /\ (label = "next" => m \in Settled')
      BY <2>1, <2>2 DEF Settled
    <2>4. \A q \in Procs : pc[q] \in Carrying => pc'[q] \in Carrying \/ (q = p /\ label = "next")
      BY <2>2 DEF Carrying
    <2>5. \A d \in Channels : InHand(d) \subseteq InHand(d)' \cup Settled'
      <3> SUFFICES ASSUME NEW d \in Channels, NEW k \in Envelopes, NEW q \in Procs,
                          pc[q] \in Carrying, held[q] = k, Chan(q) = d, k \notin Settled'
                   PROVE  k \in InHand(d)'
        BY DEF InHand, Carries
      <3>1. pc'[q] \in Carrying /\ held'[q] = k
        BY <2>1, <2>3, <2>4
      <3> QED
        BY <3>1 DEF InHand, Carries
    <2>6. QueueOrdered'
      BY <2>1, <2>3, <2>5, FrameOrder DEF QueueOrdered
    <2>7. \A q \in Procs : pc'[q] \in Carrying => pc[q] \in Carrying
      BY <2>1, <2>2 DEF Carrying
    <2>8. HandOrdered'
      BY <1>t, <2>1, <2>3, <2>7 DEF HandOrdered
    <2>9. m \in behind => earlier[m] \subseteq Settled
      BY <1>t, <2>1 DEF HandOrdered, Carrying
    <2>10. QueuedNeverOvertakes'
      <3> SUFFICES ASSUME NEW k \in behind, k \in handed' PROVE earlier[k] \subseteq Settled'
        BY <2>1 DEF QueuedNeverOvertakes, Settled
      <3>1. k = m \/ k \in handed
        BY <2>1
      <3>2. earlier[k] \subseteq Settled
        BY <1>t, <2>9, <3>1 DEF QueuedNeverOvertakes, Settled
      <3> QED
        BY <2>3, <3>2
    <2> QED
      BY <1>t, <2>1, <2>6, <2>8, <2>10
  <1>5. ASSUME NEW p \in Procs, MarkOffline(p) \/ QueueEmpty(p) \/ Exit(p) PROVE Goal
    <2>1. PICK label \in {"requeue", "exit", "done"} :
            /\ \A q \in Procs : pc'[q] = IF q = p THEN label ELSE pc[q]
            /\ label \in Carrying <=> pc[p] \in Carrying
      BY <1>5, <1>t DEF MarkOffline, QueueEmpty, Exit, Carrying, TypeOK
    <2>2. /\ \A q \in Procs : pc[q] \in Carrying => held'[q] = held[q]
          /\ UNCHANGED <<queues, admitted, earlier, behind, handed, lost>>
      BY <1>5, <1>t DEF MarkOffline, QueueEmpty, Exit, history, TypeOK, Carrying
    <2> QED
      BY <2>1, <2>2, QuietOrder
  <1>6. ASSUME NEW p \in Procs, Requeue(p) PROVE Goal
    <2> DEFINE c == Chan(p)
               s == queues[c]
               m == held[p]
    <2>1. /\ pc[p] = "requeue" /\ c \in Channels /\ s \in Seq(Envelopes) /\ m \in Envelopes
          /\ m \in InHand(c)
      BY <1>6, <1>t DEF Requeue, OnePlace, TypeOK, Carrying, InHand, Carries
    <2>2. /\ queues'[c] = <<m>> \o s
          /\ \A d \in Channels : d # c => queues'[d] = queues[d]
          /\ \A q \in Procs : pc'[q] = IF q = p THEN "exit" ELSE pc[q]
          /\ UNCHANGED <<held, admitted, earlier, behind, handed, lost>>
      BY <1>6, <1>t, <2>1 DEF Requeue, history, TypeOK
    <2>3. Settled' = Settled
      BY <2>2 DEF Settled
    <2>4. \A d \in Channels : d # c => InHand(d) \subseteq InHand(d)'
      BY <2>2 DEF InHand, Carries
    <2>5. \A k \in InHand(c) : k = m
      BY <1>t, <2>1 DEF InHand, Carries, SingleSender, Active, Running, Carrying
    <2>6. m \in behind => earlier[m] \subseteq Settled
      BY <1>t, <2>1 DEF HandOrdered, Carrying
    <2>7. /\ Len(s) \in Nat /\ Len(queues'[c]) = Len(s) + 1
          /\ queues'[c][1] = m
          /\ \A i \in 1..Len(s) : queues'[c][i + 1] = s[i]
      BY <2>1, <2>2
    <2>8. \A j \in 1..Len(s) : s[j] \in behind => \A k \in earlier[s[j]] :
            k \in Settled \/ k \in InHand(c) \/ \E i \in 1..(j - 1) : s[i] = k
      BY <2>1 DEF OrderInv, QueueOrdered, ChanOrdered
    <2> HIDE DEF s, m
    <2>9. ASSUME NEW j \in 1..Len(queues'[c]), queues'[c][j] \in behind,
                 NEW k \in earlier[queues'[c][j]]
          PROVE  k \in Settled \/ \E i \in 1..(j - 1) : queues'[c][i] = k
      <3>1. CASE j = 1
        BY <2>6, <2>7, <2>9, <3>1
      <3>2. CASE j # 1
        <4>1. j - 1 \in 1..Len(s) /\ (j - 1) + 1 = j
          BY <2>7, <3>2
        <4>2. queues'[c][j] = s[j - 1]
          BY <2>7, <4>1
        <4>3. k \in Settled \/ k \in InHand(c) \/ \E i \in 1..((j - 1) - 1) : s[i] = k
          BY <2>8, <2>9, <4>1, <4>2
        <4>4. CASE k \in InHand(c)
          <5>1. 1 \in 1..(j - 1)
            BY <4>1
          <5> QED
            BY <2>5, <2>7, <4>4, <5>1
        <4>5. ASSUME NEW i \in 1..((j - 1) - 1), s[i] = k
              PROVE  \E l \in 1..(j - 1) : queues'[c][l] = k
          <5>1. i + 1 \in 1..(j - 1) /\ i \in 1..Len(s)
            BY <2>7, <4>1
          <5> QED
            BY <2>7, <4>5, <5>1
        <4> QED
          BY <4>3, <4>4, <4>5
      <3> QED
        BY <3>1, <3>2
    <2>10. QueueOrdered'
      <3>1. ChanOrdered(c)'
        BY <2>2, <2>3, <2>9 DEF ChanOrdered
      <3>2. ASSUME NEW d \in Channels, d # c PROVE ChanOrdered(d)'
        BY <2>2, <2>3, <2>4, <3>2, FrameOrder
      <3> QED
        BY <3>1, <3>2 DEF QueueOrdered
    <2>11. \A q \in Procs : pc'[q] \in Carrying => pc[q] \in Carrying
      BY <2>2 DEF Carrying
    <2> QED
      BY <1>t, <2>2, <2>3, <2>10, <2>11 DEF HandOrdered, QueuedNeverOvertakes
  <1>7. ASSUME NEW p \in Procs, NextQueued(p) PROVE Goal
    <2> DEFINE c == Chan(p)
               h == Head(queues[c])
    <2>1. pc[p] = "next" /\ c \in Channels /\ queues[c] \in Seq(Envelopes) /\ queues[c] # <<>>
      BY <1>7, <1>t DEF NextQueued, TypeOK
    <2>2. /\ queues'[c] = Tail(queues[c])
          /\ \A d \in Channels : d # c => queues'[d] = queues[d]
          /\ \A q \in Procs : /\ pc'[q] = IF q = p THEN "send" ELSE pc[q]
                              /\ held'[q] = IF q = p THEN h ELSE held[q]
          /\ UNCHANGED <<admitted, earlier, behind, handed, lost>>
      BY <1>7, <1>t, <2>1 DEF NextQueued, history, TypeOK
    <2>3. InHand(c) = {}
      BY <1>t, <2>1, EmptyHand DEF Active, Running, Carrying
    <2>4. Settled' = Settled
      BY <2>2 DEF Settled
    <2>5. h \in Envelopes
      BY <2>1
    <2>6. h \in InHand(c)'
      BY <2>2, <2>5 DEF InHand, Carries, Carrying
    <2>7. /\ h \in behind => earlier[h] \subseteq Settled
          /\ ChanOrdered(c)'
      BY <2>1, <2>2, <2>3, <2>4, <2>6, PopOrder
    <2>8. \A d \in Channels : d # c => InHand(d) \subseteq InHand(d)'
      BY <2>2 DEF InHand, Carries
    <2>9. ASSUME NEW d \in Channels, d # c PROVE ChanOrdered(d)'
      BY <2>2, <2>4, <2>8, <2>9, FrameOrder
    <2>10. HandOrdered'
      BY <1>t, <2>2, <2>4, <2>7 DEF HandOrdered
    <2> QED
      BY <1>t, <2>2, <2>7, <2>9, <2>10 DEF QueueOrdered, QueuedNeverOvertakes
  <1>8. ASSUME DrainAll PROVE Goal
    <2> DEFINE idle == {c \in Channels : queues[c] # <<>> /\ c \notin sending}
    <2>1. /\ \A c \in Channels :
               queues'[c] = IF c \in idle THEN Tail(queues[c]) ELSE queues[c]
          /\ \A q \in Procs :
               /\ held'[q] = IF q \in idle THEN Head(queues[q]) ELSE held[q]
               /\ pc'[q] = IF q \in idle THEN "send" ELSE pc[q]
          /\ UNCHANGED <<admitted, earlier, behind, handed, lost>>
      BY <1>8 DEF DrainAll, history
    <2>2. Settled' = Settled
      BY <2>1 DEF Settled
    <2>3. \A q \in idle : /\ q \in Channels /\ q \in Procs /\ Chan(q) = q /\ q \notin sending
                          /\ queues[q] # <<>> /\ queues[q] \in Seq(Envelopes)
      BY <1>t DEF Procs, Chan, TypeOK
    <2> HIDE DEF idle
    <2>4. \A q \in idle : pc[q] \notin Carrying
      BY <1>t, <2>3 DEF SingleSender, Active, Running
    <2>5. \A d \in Channels : InHand(d) \subseteq InHand(d)'
      BY <2>1, <2>4 DEF InHand, Carries
    <2>6. ASSUME NEW d \in idle
          PROVE  /\ Head(queues[d]) \in behind => earlier[Head(queues[d])] \subseteq Settled
                 /\ ChanOrdered(d)'
      <3>1. InHand(d) = {}
        BY <1>t, <2>3, EmptyHand
      <3>2. Head(queues[d]) \in InHand(d)'
        BY <2>1, <2>3 DEF InHand, Carries, Carrying
      <3> QED
        BY <2>1, <2>2, <2>3, <3>1, <3>2, PopOrder
    <2>7. ASSUME NEW d \in Channels, d \notin idle PROVE ChanOrdered(d)'
      BY <2>1, <2>2, <2>5, <2>7, FrameOrder
    <2>8. HandOrdered'
      BY <1>t, <2>1, <2>2, <2>6 DEF HandOrdered
    <2>9. QueueOrdered'
      BY <2>6, <2>7 DEF QueueOrdered
    <2>10. QueuedNeverOvertakes'
      BY <1>t, <2>1 DEF QueuedNeverOvertakes
    <2> QED
      BY <1>t, <2>1, <2>8, <2>9, <2>10
  <1>9. ASSUME HandleOffline \/ HandleOnline \/ HandleTraffic \/ Hub \/ UNCHANGED vars
        PROVE  Goal
    <2>1. UNCHANGED <<queues, pc, held, admitted, earlier, behind, handed, lost>>
      BY <1>9 DEF HandleOffline, HandleOnline, HandleTraffic, Hub, RelayRests, vars, relayVars, history
    <2>2. /\ \A q \in Procs : (pc'[q] \in Carrying) <=> (pc[q] \in Carrying)
          /\ \A q \in Procs : pc[q] \in Carrying => held'[q] = held[q]
      BY <2>1
    <2> QED
      BY <2>1, <2>2, QuietOrder
  <1>10. ASSUME Restart PROVE Goal
    <2>1. /\ \A c \in Channels : Len(queues'[c]) = 0
          /\ \A q \in Procs : pc'[q] \notin Carrying
          /\ UNCHANGED <<admitted, earlier, behind, handed>> /\ lost \subseteq lost'
      BY <1>10, EmptyQueue DEF Restart, Carrying
    <2>2. QueueOrdered' /\ HandOrdered'
      <3>1. 1..0 = {}
        OBVIOUS
      <3> QED
        BY <2>1, <3>1 DEF QueueOrdered, ChanOrdered, HandOrdered
    <2>3. QueuedNeverOvertakes'
      BY <1>t, <2>1 DEF QueuedNeverOvertakes
    <2> QED
      BY <1>t, <2>1, <2>2, <2>3
  <1>11. Goal
    BY <1>1, <1>2, <1>3, <1>4, <1>5, <1>6, <1>7, <1>8, <1>9, <1>10
       DEF Next, Request, Deliver, AfterSend, Pump
  <1> QED
    BY <1>11 DEF OrderInv

\* An envelope that waited in a queue reaches the connection only after all those
\* of its channel that Outbound had taken before it, restarts apart.
THEOREM QueueIsNeverOvertaken == Spec => []QueuedNeverOvertakes
  <1>1. Init => OrderInv
    BY InitOrder
  <1>2. PlaceInv /\ PlaceInv' /\ OrderInv /\ [Next]_vars => OrderInv'
    <2>1. PlaceInv /\ PlaceInv' /\ OrderInv /\ [Next]_vars => Kept'
      BY NextKept DEF OrderInv
    <2> QED
      BY <2>1, NextOrder
  <1>3. OrderInv => QueuedNeverOvertakes
    BY DEF OrderInv
  <1> QED
    BY <1>1, <1>2, <1>3, PlaceAlways, PTL DEF Spec

=============================================================================
