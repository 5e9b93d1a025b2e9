------------------------ MODULE AgentPresenceProofs -------------------------
(***************************************************************************)
(* What holds of AgentPresence for any networks, requests, buffer and      *)
(* bounds: the cache is right once all is quiet, a dropped agent stays     *)
(* hidden, and networks are kept apart.  Each of the three is a            *)
(* consequence of an invariant of its own, proved on top of the types.     *)
(***************************************************************************)
EXTENDS AgentPresence, SequenceTheorems, TLAPS

-----------------------------------------------------------------------------
(* The types, one conjunct for each group of variables.                    *)

Steps == {"none", "tomb", "mark", "owner", "evict", "issue", "compute", "send"}
Ops   == {"none", "drop", "enroll", "roster"}
DropSteps == {"tomb", "mark", "owner", "evict"}
Names == Networks \cup {None}

HubTypes ==
  /\ version \in 1 .. MaxVersion /\ link \in BOOLEAN
  /\ events \in Seq(0 .. version) /\ Len(events) <= EventCap

Flags == gap \in BOOLEAN /\ seeded \in BOOLEAN /\ regressed \in BOOLEAN /\ blind \in BOOLEAN

SeedTypes ==
  /\ cache \in 0 .. version
  /\ seeds \in [Seeders -> [left : 0 .. 1 + Retries, answer : 0 .. version, here : BOOLEAN]]

PumpTypes ==
  /\ pump \in [step : {"load", "idle", "seed", "next", "recheck", "send"},
               ver : 0 .. version, todo : SUBSET Networks, net : Names]
  /\ pump.step \in {"recheck", "send"} => pump.net \in Networks

NetTypes ==
  /\ owner \in Names
  /\ tombs \subseteq Networks /\ dropped \subseteq Networks /\ late \subseteq Networks
  /\ asked \subseteq Networks
  /\ view \in [Networks -> 0 .. version]

ReqTypes ==
  /\ req \in [Procs -> [op : Ops, step : Steps, net : Names, told : 0 .. version]]
  /\ \A p \in Procs :
       /\ req[p].step # "none" => req[p].net \in Networks
       /\ req[p].step = "none" => req[p].op = "none" /\ req[p].told = 0
       /\ req[p].step \in DropSteps => req[p].op = "drop"
       /\ req[p].told # 0 => req[p].step = "send"

TypeInv == HubTypes /\ Flags /\ SeedTypes /\ PumpTypes /\ NetTypes /\ ReqTypes

-----------------------------------------------------------------------------
(* The three invariants.                                                   *)

\* Whatever was decided to be shown or asked was decided for the owner, and the
\* owner is settled from then on.
ApartHolds ==
  /\ asked \subseteq {owner}
  /\ \A n \in Networks : view[n] # 0 => owner = n
  /\ \A p \in Procs : (req[p].step \in {"evict", "issue"} \/ req[p].told # 0) => owner = req[p].net
  /\ pump.step \in {"recheck", "send"} => owner = pump.net

NothingAsked == \A s \in Seeders : seeds[s].left = 0 /\ seeds[s].answer = 0

\* Before the exclusions are loaded nobody has been shown anything.
NothingBeforeLoad ==
  pump.step = "load" =>
    /\ cache = 0 /\ dropped = {} /\ late = {} /\ ~blind
    /\ NothingAsked
    /\ \A n \in Networks : view[n] = 0
    /\ \A p \in Procs : req[p].told = 0 /\ req[p].op # "drop"

\* p is dropping the agent from n and has reached one of the steps.
Dropping(p, n, steps) == req[p].op = "drop" /\ req[p].net = n /\ req[p].step \in steps

AfterMark == {"owner", "evict", "compute", "send"}

\* What the store excludes, the relay excludes or is about to.
TombsAreMarked ==
  (~blind /\ pump.step # "load") =>
    \A n \in tombs : n \in dropped \/ \E p \in Procs : Dropping(p, n, {"mark"})

\* Nothing that is about to be sent shows an excluded agent, but what `late' owns up to.
NothingOnItsWay ==
  \A n \in dropped \ late :
    /\ ~(pump.step = "send" /\ pump.net = n)
    /\ \A p \in Procs : ~Told(p, n)

\* Who still sees an excluded agent is about to be told.
SoonHidden ==
  \A n \in dropped \ late : view[n] = 0 \/ \E p \in Procs : Dropping(p, n, AfterMark)

HiddenHolds == NothingBeforeLoad /\ TombsAreMarked /\ NothingOnItsWay /\ SoonHidden

\* The pump asks only while it seeds, and an answer of this connection needs one.
Asked ==
  /\ pump.step # "seed" => seeds["pump"].left = 0 /\ seeds["pump"].answer = 0
  /\ \A s \in Seeders : seeds[s].here => link

Answered(s) == seeds[s].answer # 0
Whole       == link /\ ~gap      \* all that changed in this connection was put into the buffer
Drained     == Whole /\ events = <<>>

\* What the pump takes last tells the presence, or that it must be asked for; while
\* it is that, what was answered in this connection is still true.
BufferEnds ==
  (Whole /\ events # <<>>) =>
    /\ events[Len(events)] \in {Online, version}
    /\ events[Len(events)] = Online =>
         \A s \in Seeders : (seeds[s].here /\ Answered(s)) => seeds[s].answer = version

\* With nothing left to take, the pump's answer is true, and any other is true or
\* will be seen to be older than the cache.
AnswersHold ==
  Drained =>
    /\ seeded => (cache = version \/ regressed)
    /\ Answered("pump") => seeds["pump"].answer = version
    /\ \A s \in Seeders :
         ((seeded \/ seeds[s].here) /\ Answered(s)) =>
           (seeds[s].answer = version \/ seeds[s].answer < cache)

CacheHolds == Asked /\ BufferEnds /\ AnswersHold

-----------------------------------------------------------------------------
(* Types.                                                                  *)

\* The versions and tries that occur are among those the types allow.
LEMMA Numbers ==
  ASSUME HubTypes
  PROVE  /\ 0 \in 0 .. version /\ version \in 0 .. version /\ version \in Nat
         /\ 1 \in 0 .. 1 + Retries /\ 0 \in 0 .. 1 + Retries /\ Retries \in 0 .. 1 + Retries
BY PresenceAssumption DEF HubTypes

\* A request that moves to a well-formed record keeps the requests well-formed.
WellFormed(r) ==
  /\ r \in [op : Ops, step : Steps, net : Names, told : 0 .. version]
  /\ r.step # "none" => r.net \in Networks
  /\ r.step = "none" => r.op = "none" /\ r.told = 0
  /\ r.step \in DropSteps => r.op = "drop"
  /\ r.told # 0 => r.step = "send"

\* Only the request that moves changes.
LEMMA MovedRequest ==
  ASSUME ReqTypes, NEW p \in Procs, NEW r, WellFormed(r),
         req' = [req EXCEPT ![p] = r], version' = version
  PROVE  ReqTypes' /\ req'[p] = r /\ \A q \in Procs : q # p => req'[q] = req[q]
BY DEF ReqTypes, WellFormed

\* Every request is well formed, a resting one too.
LEMMA RequestTypes ==
  ASSUME TypeInv, NEW p \in Procs
  PROVE  WellFormed(req[p]) /\ WellFormed(Resting)
<1>1. WellFormed(req[p])
  BY DEF TypeInv, ReqTypes, WellFormed
<1>2. WellFormed(Resting)
  BY Numbers DEF TypeInv, WellFormed, Resting, Ops, Steps, Names, DropSteps
<1> QED BY <1>1, <1>2

\* What the moves of a request leave: req is a function that differs at p only.
LEMMA Moves ==
  ASSUME TypeInv, NEW p \in Procs, version' = version
  PROVE  /\ Done(p) => /\ ReqTypes' /\ req'[p] = Resting
                       /\ \A q \in Procs : q # p => req'[q] = req[q]
         /\ \A s \in Steps :
              (Goto(p, s) /\ WellFormed([req[p] EXCEPT !.step = s])) =>
                /\ ReqTypes' /\ req'[p] = [req[p] EXCEPT !.step = s]
                /\ \A q \in Procs : q # p => req'[q] = req[q]
<1>1. Done(p) => /\ ReqTypes' /\ req'[p] = Resting
                 /\ \A q \in Procs : q # p => req'[q] = req[q]
  BY RequestTypes, MovedRequest DEF Done, TypeInv
<1>2. ASSUME NEW s \in Steps, Goto(p, s), WellFormed([req[p] EXCEPT !.step = s])
      PROVE  /\ ReqTypes' /\ req'[p] = [req[p] EXCEPT !.step = s]
             /\ \A q \in Procs : q # p => req'[q] = req[q]
  <2>1. req' = [req EXCEPT ![p] = [req[p] EXCEPT !.step = s]]
    BY <1>2 DEF Goto
  <2> QED BY <2>1, <1>2, MovedRequest DEF TypeInv
<1> QED BY <1>1, <1>2

\* A new request.
LEMMA Begins ==
  ASSUME TypeInv, NEW p \in Procs, NEW n \in Networks, NEW op, NEW s,
         Begin(p, op, n, s), version' = version,
         <<op, s>> \in {<<"drop", "tomb">>, <<"enroll", "issue">>, <<"roster", "compute">>}
  PROVE  /\ ReqTypes' /\ req[p] = Resting
         /\ req'[p] = [op |-> op, step |-> s, net |-> n, told |-> 0]
         /\ \A q \in Procs : q # p => req'[q] = req[q]
<1> DEFINE r == [op |-> op, step |-> s, net |-> n, told |-> 0]
<1>1. WellFormed(r)
  BY Numbers DEF TypeInv, WellFormed, Ops, Steps, Names, DropSteps
<1>2. req' = [req EXCEPT ![p] = r] /\ req[p] = Resting
  BY DEF Begin
<1> QED BY <1>1, <1>2, MovedRequest DEF TypeInv

\* A request that begins, and what its first step did.
LEMMA NewRequests ==
  ASSUME TypeInv, NEW p \in Procs, NEW n \in Networks,
         DropAgent(p, n) \/ Claim(p, n) \/ RosterRequest(p, n)
  PROVE  /\ ReqTypes' /\ req[p] = Resting
         /\ req'[p].told = 0 /\ req'[p].net = n /\ req'[p].step \in {"tomb", "issue", "compute"}
         /\ req'[p].op = "drop" => DropAgent(p, n)
         /\ req'[p].step = "issue" => Claim(p, n)
         /\ \A q \in Procs : q # p => req'[q] = req[q]
<1>1. CASE DropAgent(p, n)
  <2>1. Begin(p, "drop", n, "tomb") /\ version' = version
    BY <1>1 DEF DropAgent, hubVars
  <2>2. /\ ReqTypes' /\ req[p] = Resting
        /\ req'[p] = [op |-> "drop", step |-> "tomb", net |-> n, told |-> 0]
        /\ \A q \in Procs : q # p => req'[q] = req[q]
    BY <2>1, Begins
  <2> QED BY <2>2, <1>1
<1>2. CASE Claim(p, n)
  <2>1. Begin(p, "enroll", n, "issue") /\ version' = version
    BY <1>2 DEF Claim, hubVars
  <2>2. /\ ReqTypes' /\ req[p] = Resting
        /\ req'[p] = [op |-> "enroll", step |-> "issue", net |-> n, told |-> 0]
        /\ \A q \in Procs : q # p => req'[q] = req[q]
    BY <2>1, Begins
  <2> QED BY <2>2, <1>2
<1>3. CASE RosterRequest(p, n)
  <2>1. Begin(p, "roster", n, "compute") /\ version' = version
    BY <1>3 DEF RosterRequest, hubVars
  <2>2. /\ ReqTypes' /\ req[p] = Resting
        /\ req'[p] = [op |-> "roster", step |-> "compute", net |-> n, told |-> 0]
        /\ \A q \in Procs : q # p => req'[q] = req[q]
    BY <2>1, Begins
  <2> QED BY <2>2, <1>3
<1> QED BY <1>1, <1>2, <1>3

\* The types hold at the start.
LEMMA InitTyped == Init => TypeInv
<1> SUFFICES ASSUME Init PROVE TypeInv
  OBVIOUS
<1>1. HubTypes
  <2>1. version \in 1 .. MaxVersion /\ events = <<>>
    BY PresenceAssumption DEF Init
  <2>3. link \in BOOLEAN
    BY DEF Init
  <2>2. events \in Seq(0 .. version) /\ Len(events) = 0
    BY <2>1
  <2> QED BY <2>1, <2>2, <2>3, PresenceAssumption DEF HubTypes
<1>2. Flags /\ NetTypes
  BY <1>1, Numbers DEF Init, Flags, NetTypes, Names
<1>3. SeedTypes
  BY <1>1, Numbers DEF Init, SeedTypes, NoSeed
<1>4. PumpTypes
  BY <1>1, Numbers DEF Init, PumpTypes, Idle, Names
<1>5. ReqTypes
  BY <1>1, Numbers DEF Init, ReqTypes, Resting, Ops, Steps, Names, DropSteps
<1> QED BY <1>1, <1>2, <1>3, <1>4, <1>5 DEF TypeInv

\* What an event added to the buffer does.
LEMMA Emitted ==
  ASSUME TypeInv, NEW e \in 0 .. version', version' \in {version, version + 1}, Emit(e)
  PROVE  /\ events' \in Seq(0 .. version') /\ Len(events') <= EventCap
         /\ Len(events) # EventCap => events' = Append(events, e)
<1>1. events \in Seq(0 .. version') /\ Len(events) <= EventCap /\ Len(events) \in Nat
  BY DEF TypeInv, HubTypes
<1>2. CASE Len(events) < EventCap
  <2>1. Append(events, e) \in Seq(0 .. version') /\ Len(Append(events, e)) = Len(events) + 1
    BY <1>1
  <2> QED BY <1>1, <1>2, <2>1, PresenceAssumption DEF Emit
<1>3. CASE ~(Len(events) < EventCap)
  BY <1>1, <1>3, PresenceAssumption DEF Emit
<1> QED BY <1>2, <1>3

\* Every step keeps the types.
LEMMA StepTyped == TypeInv /\ [Next]_vars => TypeInv'
<1> SUFFICES ASSUME TypeInv, [Next]_vars PROVE TypeInv'
  OBVIOUS
<1> USE DEF hubVars, seedVars, netVars
<1>1. CASE HubChange
  <2>1. version' = version + 1 /\ version' \in 1 .. MaxVersion /\ version \in Nat
    BY <1>1, PresenceAssumption DEF HubChange, TypeInv, HubTypes
  <2>2. 0 .. version \subseteq 0 .. version' /\ version' \in 0 .. version'
    BY <2>1
  <2>3. HubTypes' /\ gap' \in BOOLEAN
    <3>1. CASE link
      BY <1>1, <2>1, <2>2, <3>1, Emitted DEF HubChange, TypeInv, HubTypes, Flags
    <3>2. CASE ~link
      BY <1>1, <2>1, <2>2, <3>2 DEF HubChange, TypeInv, HubTypes, Flags
    <3> QED BY <3>1, <3>2
  <2>4. SeedTypes' /\ Flags'
    BY <1>1, <2>2, <2>3 DEF HubChange, TypeInv, SeedTypes, Flags
  <2>5. PumpTypes' /\ NetTypes'
    BY <1>1, <2>2 DEF HubChange, TypeInv, PumpTypes, NetTypes
  <2>6. ReqTypes'
    BY <1>1, <2>2 DEF HubChange, TypeInv, ReqTypes
  <2> QED BY <2>3, <2>4, <2>5, <2>6 DEF TypeInv
<1>2. CASE Connect
  <2>1. HubTypes'
    BY <1>2, Emitted, Numbers DEF Connect, TypeInv, HubTypes, Online
  <2> QED BY <1>2, <2>1 DEF Connect, TypeInv, Flags, SeedTypes, PumpTypes, NetTypes, ReqTypes
<1>3. CASE ConnLost
  <2>1. HubTypes' /\ SeedTypes'
    BY <1>3 DEF ConnLost, TypeInv, HubTypes, SeedTypes
  <2> QED BY <1>3, <2>1 DEF ConnLost, TypeInv, Flags, PumpTypes, NetTypes, ReqTypes
<1>4. CASE Restart
  <2>1. HubTypes'
    <3>1. events' \in Seq(0 .. version') /\ Len(events') = 0
      BY <1>4 DEF Restart, Fresh
    <3>2. version' \in 1 .. MaxVersion /\ link' \in BOOLEAN
      BY <1>4 DEF Restart, Fresh, TypeInv, HubTypes
    <3> QED BY <3>1, <3>2, PresenceAssumption DEF HubTypes
  <2>2. SeedTypes' /\ Flags'
    BY <1>4, Numbers DEF Restart, Fresh, TypeInv, SeedTypes, Flags, NoSeed
  <2>3. PumpTypes' /\ NetTypes'
    BY <1>4, Numbers DEF Restart, Fresh, TypeInv, PumpTypes, NetTypes, Idle, Names
  <2>4. ReqTypes'
    BY <1>4, Numbers DEF Restart, Fresh, TypeInv, ReqTypes, Resting, Ops, Steps, Names, DropSteps
  <2> QED BY <2>1, <2>2, <2>3, <2>4 DEF TypeInv
<1>5. CASE LoadDropped
  BY <1>5, Numbers DEF LoadDropped, Idle, Names, TypeInv, HubTypes, Flags, SeedTypes, PumpTypes, NetTypes, ReqTypes
<1>6. CASE TakeEvent
  <2>1. HubTypes' /\ Head(events) \in 0 .. version
    <3>1. /\ events \in Seq(0 .. version) /\ events # <<>> /\ events' = Tail(events)
          /\ Len(events) <= EventCap
      BY <1>6 DEF TakeEvent, TypeInv, HubTypes
    <3> DEFINE S == 0 .. version
    <3> HIDE DEF S
    <3>3. events \in Seq(S) /\ events # <<>>
      BY <3>1 DEF S
    <3>4. Head(events) \in S /\ Tail(events) \in Seq(S) /\ Len(Tail(events)) = Len(events) - 1
      BY ONLY <3>3, HeadTailProperties
    <3>5. Len(events) \in Nat
      BY ONLY <3>3
    <3>2. /\ Head(events) \in 0 .. version /\ events' \in Seq(0 .. version)
          /\ Len(events') = Len(events) - 1 /\ Len(events) \in Nat
      BY <3>1, <3>4, <3>5 DEF S
    <3> QED BY <1>6, <3>1, <3>2, PresenceAssumption DEF TakeEvent, TypeInv, HubTypes
  <2>2. SeedTypes' /\ Flags'
    <3>1. [NoSeed EXCEPT !.left = 1] \in [left : 0 .. 1 + Retries, answer : 0 .. version, here : BOOLEAN]
      BY Numbers DEF NoSeed, TypeInv
    <3> QED BY <1>6, <2>1, <3>1, ZenonT(30) DEF TakeEvent, TypeInv, SeedTypes, Flags
  <2>3. PumpTypes'
    BY <1>6, <2>1, Numbers DEF TakeEvent, TypeInv, PumpTypes, Idle, Names
  <2> QED BY <1>6, <2>1, <2>2, <2>3 DEF TakeEvent, TypeInv, NetTypes, ReqTypes
<1>7. CASE Recheck
  BY <1>7 DEF Recheck, TypeInv, HubTypes, Flags, SeedTypes, PumpTypes, NetTypes, ReqTypes
<1>8. CASE Announce
  <2>1. PumpTypes' /\ NetTypes'
    BY <1>8 DEF Announce, TypeInv, PumpTypes, NetTypes, Names
  <2> QED BY <1>8, <2>1 DEF Announce, TypeInv, HubTypes, Flags, SeedTypes, ReqTypes
<1>9. CASE EventDone
  BY <1>9, Numbers DEF EventDone, Idle, Names, TypeInv, HubTypes, Flags, SeedTypes, PumpTypes, NetTypes, ReqTypes
<1>10. ASSUME NEW n \in Networks, Check(n) PROVE TypeInv'
  <2>1. PumpTypes'
    BY <1>10 DEF Check, TypeInv, PumpTypes, Names
  <2> QED BY <1>10, <2>1 DEF Check, TypeInv, HubTypes, Flags, SeedTypes, NetTypes, ReqTypes
<1>11. ASSUME NEW s \in Seeders, Answer(s) PROVE TypeInv'
  <2>1. SeedTypes'
    BY <1>11, Numbers DEF Answer, TypeInv, SeedTypes
  <2> QED BY <1>11, <2>1 DEF Answer, TypeInv, HubTypes, Flags, PumpTypes, NetTypes, ReqTypes
<1>12. ASSUME NEW s \in Seeders, Merge(s) PROVE TypeInv'
  <2>1. SeedTypes' /\ Flags'
    BY <1>12, Numbers DEF Merge, Merged, TypeInv, SeedTypes, Flags, NoSeed
  <2>2. PumpTypes'
    BY <1>12, Numbers DEF Merge, PumpDone, TypeInv, PumpTypes, Idle, Names
  <2> QED BY <1>12, <2>1, <2>2 DEF Merge, TypeInv, HubTypes, NetTypes, ReqTypes
<1>17. ASSUME NEW s \in Seeders, SeedRefused(s) PROVE TypeInv'
  <2>1. SeedTypes'
    BY <1>17, Numbers DEF SeedRefused, TypeInv, SeedTypes, NoSeed
  <2>2. PumpTypes'
    BY <1>17, Numbers DEF SeedRefused, PumpDone, TypeInv, PumpTypes, Idle, Names
  <2> QED BY <1>17, <2>1, <2>2 DEF SeedRefused, TypeInv, HubTypes, Flags, NetTypes, ReqTypes
<1>13. ASSUME NEW s \in Seeders, SeedFails(s) PROVE TypeInv'
  <2>1. SeedTypes'
    <3>1. CASE s = "pump"
      BY <1>13, <3>1, Numbers, PresenceAssumption DEF SeedFails, TypeInv, SeedTypes, NoSeed
    <3>2. CASE s # "pump"
      <4>1. seeds[s].left - 1 \in 0 .. 1 + Retries
        BY <1>13, PresenceAssumption DEF SeedFails, Asking, TypeInv, SeedTypes
      <4> QED BY <1>13, <3>2, <4>1 DEF SeedFails, TypeInv, SeedTypes
    <3> QED BY <3>1, <3>2
  <2>2. PumpTypes'
    BY <1>13, Numbers DEF SeedFails, PumpDone, TypeInv, PumpTypes, Idle, Names
  <2> QED BY <1>13, <2>1, <2>2 DEF SeedFails, TypeInv, HubTypes, Flags, NetTypes, ReqTypes
<1>14. ASSUME NEW p \in Procs, NEW n \in Networks, DropAgent(p, n) \/ Claim(p, n) \/ RosterRequest(p, n)
       PROVE  TypeInv'
  <2>1. version' = version
    BY <1>14 DEF DropAgent, Claim, RosterRequest
  <2>2. ReqTypes'
    BY <1>14, NewRequests
  <2>3. NetTypes'
    BY <1>14, <2>1 DEF DropAgent, Claim, RosterRequest, TypeInv, NetTypes, Names
  <2> QED BY <1>14, <2>1, <2>2, <2>3
          DEF DropAgent, Claim, RosterRequest, TypeInv, HubTypes, Flags, SeedTypes, PumpTypes
<1>15. ASSUME NEW p \in Procs,
              StoreDrop(p) \/ MarkDropped(p) \/ LookUpOwner(p) \/ Evict(p) \/ Issue(p) \/ ComputeRoster(p) \/ SendRoster(p)
       PROVE  TypeInv'
  <2>1. version' = version /\ WellFormed(req[p])
    BY <1>15, RequestTypes DEF StoreDrop, MarkDropped, LookUpOwner, Evict, Issue, ComputeRoster, SendRoster
  <2>2. /\ req[p].step \in {"tomb", "mark", "owner", "evict", "issue"} =>
              /\ WellFormed([req[p] EXCEPT !.step = "compute"])
              /\ req[p].op = "drop" => \A s \in DropSteps : WellFormed([req[p] EXCEPT !.step = s])
        /\ req[p].step \in DropSteps => req[p].op = "drop"
    BY <2>1 DEF WellFormed, Steps, DropSteps
  <2>3. {"mark", "owner", "evict", "compute"} \subseteq Steps
    BY DEF Steps
  <2>4. ReqTypes'
    <3>1. CASE StoreDrop(p) \/ MarkDropped(p) \/ LookUpOwner(p) \/ Evict(p)
      BY <2>1, <2>2, <2>3, <3>1, Moves DEF StoreDrop, MarkDropped, LookUpOwner, Evict, At, DropSteps
    <3>2. CASE Issue(p) \/ SendRoster(p)
      BY <2>1, <3>2, Moves DEF Issue, SendRoster
    <3>3. CASE ComputeRoster(p)
      <4>1. ASSUME NEW told \in {Roster(req[p].net), 0},
                   req' = [req EXCEPT ![p].step = "send", ![p].told = told]
            PROVE  ReqTypes'
        <5>1. told \in 0 .. version
          BY <4>1, Numbers DEF Roster, TypeInv, SeedTypes
        <5>2. req' = [req EXCEPT ![p] = [req[p] EXCEPT !.step = "send", !.told = told]]
          BY <4>1
        <5>3. WellFormed([req[p] EXCEPT !.step = "send", !.told = told])
          BY <2>1, <3>3, <5>1 DEF WellFormed, Steps, DropSteps, ComputeRoster, At
        <5> QED BY <5>2, <5>3, <2>1, MovedRequest DEF TypeInv
      <4> QED BY <3>3, <4>1, <2>1, Moves DEF ComputeRoster
    <3> QED BY <1>15, <3>1, <3>2, <3>3
  <2>5. NetTypes'
    <3>1. req[p].step # "none" => req[p].net \in Networks
      BY <2>1 DEF WellFormed
    <3>2. CASE StoreDrop(p) \/ LookUpOwner(p)
      BY <3>1, <3>2 DEF StoreDrop, LookUpOwner, TypeInv, NetTypes, At
    <3>3. CASE MarkDropped(p) \/ Evict(p) \/ Issue(p)
      BY <3>1, <3>3 DEF MarkDropped, Evict, Issue, TypeInv, NetTypes, At
    <3>4. CASE ComputeRoster(p)
      BY <3>1, <3>4 DEF ComputeRoster, TypeInv, NetTypes, At
    <3>5. CASE SendRoster(p)
      BY <2>1, <3>1, <3>5 DEF SendRoster, TypeInv, NetTypes, At, WellFormed
    <3> QED BY <1>15, <3>2, <3>3, <3>4, <3>5
  <2> QED BY <1>15, <2>4, <2>5
          DEF StoreDrop, MarkDropped, LookUpOwner, Evict, Issue, ComputeRoster, SendRoster,
              TypeInv, HubTypes, Flags, SeedTypes, PumpTypes
<1>16. CASE UNCHANGED vars
  BY <1>16 DEF vars, TypeInv, HubTypes, Flags, SeedTypes, PumpTypes, NetTypes, ReqTypes
<1> QED
  BY <1>1, <1>2, <1>3, <1>4, <1>5, <1>6, <1>7, <1>8, <1>9, <1>10, <1>11, <1>12, <1>13,
     <1>14, <1>15, <1>16, <1>17 DEF Next

\* The types are an invariant.
THEOREM Typed == Spec => []TypeInv
BY InitTyped, StepTyped, PTL DEF Spec

\* The type invariant of the module follows.
LEMMA TypesSuffice == TypeInv => TypeOK
<1> SUFFICES ASSUME TypeInv PROVE TypeOK
  OBVIOUS
<1>1. version \in 1 .. MaxVersion /\ cache \in 0 .. version /\ Len(events) <= EventCap
  BY DEF TypeInv, HubTypes, SeedTypes
<1>2. /\ pump.step \in {"load", "idle", "seed", "next", "recheck", "send"}
      /\ pump.todo \subseteq Networks
  BY DEF TypeInv, PumpTypes
<1>3. /\ owner \in Networks \cup {None} /\ tombs \cup dropped \cup late \cup asked \subseteq Networks
      /\ \A n \in Networks : view[n] \in 0 .. version
  BY DEF TypeInv, NetTypes, Names
<1>4. \A s \in Seeders : seeds[s].left \in 0 .. 1 + Retries
  BY DEF TypeInv, SeedTypes
<1> QED BY <1>1, <1>2, <1>3, <1>4 DEF TypeOK

\* Every variable stays in its type, whatever the networks, the buffer and the
\* bounds are: what the pump, the seeds and the requests carry is never newer than
\* the hub's word.
THEOREM TypeCorrect == Spec => []TypeOK
BY Typed, TypesSuffice, PTL

-----------------------------------------------------------------------------
(* What the steps of a request do to it, told once for the proofs below.   *)

Requesting(p) ==
  StoreDrop(p) \/ MarkDropped(p) \/ LookUpOwner(p) \/ Evict(p) \/ Issue(p) \/ ComputeRoster(p) \/ SendRoster(p)

\* What a step of a request leaves in its record.
LEMMA RequestSteps ==
  ASSUME TypeInv, NEW p \in Procs, Requesting(p)
  PROVE  /\ req[p].step # "none" /\ req[p].net \in Networks
         /\ req'[p].told # 0 =>
              ComputeRoster(p) /\ req'[p].step = "send" /\ req'[p].told = Roster(req[p].net)
         /\ req'[p].step # "none" => req'[p].net = req[p].net /\ req'[p].op = req[p].op
         /\ req'[p].step = "none" => req'[p].op = "none" /\ req'[p].told = 0
         /\ \A q \in Procs : q # p => req'[q] = req[q]
<1>1. version' = version /\ WellFormed(req[p]) /\ p \in DOMAIN req
  BY RequestTypes DEF Requesting, StoreDrop, MarkDropped, LookUpOwner, Evict, Issue, ComputeRoster,
     SendRoster, hubVars, TypeInv, ReqTypes
<1>2. req[p].step # "none" /\ req[p].net \in Networks
  BY <1>1 DEF Requesting, StoreDrop, MarkDropped, LookUpOwner, Evict, Issue, ComputeRoster,
     SendRoster, At, WellFormed
<1>3. ASSUME Done(p)
      PROVE req'[p] = Resting /\ \A q \in Procs : q # p => req'[q] = req[q]
  BY <1>1, <1>3, Moves
<1>4. ASSUME NEW s \in Steps, Goto(p, s), req[p].step # "send", s # "none"
      PROVE  /\ req'[p] = [req[p] EXCEPT !.step = s] /\ req[p].told = 0
             /\ \A q \in Procs : q # p => req'[q] = req[q]
  BY <1>1, <1>4 DEF Goto, WellFormed, TypeInv, ReqTypes
<1>5. ASSUME NEW told, told \in {Roster(req[p].net), 0}, ComputeRoster(p),
             req' = [req EXCEPT ![p].step = "send", ![p].told = told]
      PROVE  /\ req'[p] = [req[p] EXCEPT !.step = "send", !.told = told]
             /\ told # 0 => told = Roster(req[p].net)
             /\ \A q \in Procs : q # p => req'[q] = req[q]
  BY <1>1, <1>5 DEF TypeInv, ReqTypes
<1>6. {"mark", "owner", "evict", "compute"} \subseteq Steps
  BY DEF Steps
<1>7. CASE StoreDrop(p) \/ MarkDropped(p) \/ LookUpOwner(p) \/ Evict(p) \/ Issue(p)
  <2>1. \/ Done(p)
        \/ \E s \in {"mark", "owner", "evict", "compute"} : Goto(p, s) /\ req[p].step # "send"
    BY <1>7 DEF StoreDrop, MarkDropped, LookUpOwner, Evict, Issue, At
  <2>2. CASE Done(p)
    BY <1>2, <1>3, <2>2 DEF Resting
  <2>3. ASSUME NEW s \in {"mark", "owner", "evict", "compute"}, Goto(p, s), req[p].step # "send"
        PROVE  /\ req'[p] = [req[p] EXCEPT !.step = s] /\ req[p].told = 0 /\ s # "none"
               /\ \A q \in Procs : q # p => req'[q] = req[q]
    BY <1>4, <1>6, <2>3
  <2>4. ASSUME NEW s \in {"mark", "owner", "evict", "compute"}, Goto(p, s), req[p].step # "send"
        PROVE  /\ req'[p].told = 0 /\ req'[p].step # "none"
               /\ req'[p].net = req[p].net /\ req'[p].op = req[p].op
    BY <1>1, <2>3, <2>4 DEF WellFormed
  <2> QED BY <1>2, <2>1, <2>2, <2>3, <2>4
<1>8. CASE ComputeRoster(p)
  <2>1. CASE Done(p)
    BY <1>2, <1>3, <2>1 DEF Resting
  <2>2. ASSUME NEW told, told \in {Roster(req[p].net), 0},
               req' = [req EXCEPT ![p].step = "send", ![p].told = told]
        PROVE  /\ req'[p].told = told /\ req'[p].step = "send"
               /\ req'[p].net = req[p].net /\ req'[p].op = req[p].op
    BY <1>1, <1>5, <1>8, <2>2 DEF WellFormed
  <2> QED BY <1>2, <1>5, <1>8, <2>1, <2>2 DEF ComputeRoster
<1>9. CASE SendRoster(p)
  BY <1>2, <1>3, <1>9 DEF SendRoster, Resting
<1> QED BY <1>7, <1>8, <1>9 DEF Requesting

-----------------------------------------------------------------------------
(* Networks are kept apart.                                                *)

\* Networks are apart at the start.
LEMMA InitApart == Init => ApartHolds
BY DEF Init, ApartHolds, Resting, Idle

\* Every step keeps them apart.
LEMMA StepApart == TypeInv /\ ApartHolds /\ [Next]_vars => ApartHolds'
<1> SUFFICES ASSUME TypeInv, ApartHolds, [Next]_vars PROVE ApartHolds'
  OBVIOUS
<1> USE DEF hubVars, seedVars, netVars
<1>1. ASSUME owner' = owner, asked' = asked, view' = view, req' = req,
             pump' = pump \/ pump'.step \notin {"recheck", "send"}
      PROVE  ApartHolds'
  BY <1>1 DEF ApartHolds
<1>2. CASE HubChange \/ Connect \/ ConnLost \/ LoadDropped \/ TakeEvent \/ EventDone
  <2>1. CASE HubChange \/ Connect \/ ConnLost
    BY <1>1, <2>1 DEF HubChange, Connect, ConnLost
  <2>2. CASE LoadDropped \/ EventDone
    BY <1>1, <2>2 DEF LoadDropped, EventDone, Idle
  <2>3. CASE TakeEvent
    <3>1. pump'.step \notin {"recheck", "send"}
      BY <2>3 DEF TakeEvent, Idle
    <3> QED BY <1>1, <2>3, <3>1 DEF TakeEvent
  <2> QED BY <1>2, <2>1, <2>2, <2>3
<1>3. ASSUME NEW s \in Seeders, Answer(s) \/ Merge(s) \/ SeedFails(s) \/ SeedRefused(s) PROVE ApartHolds'
  BY <1>1, <1>3 DEF Answer, Merge, SeedFails, SeedRefused, PumpDone, Idle
<1>4. CASE Restart
  BY <1>4 DEF Restart, Fresh, ApartHolds, Resting, Idle
<1>5. ASSUME NEW n \in Networks, Check(n) PROVE ApartHolds'
  <2>1. CASE owner = n /\ n \notin dropped /\ pump' = [pump EXCEPT !.step = "recheck", !.net = n, !.todo = @ \ {n}]
    <3>1. owner' = pump'.net
      BY <1>5, <2>1 DEF Check, TypeInv, PumpTypes
    <3> QED BY <1>5, <3>1 DEF Check, ApartHolds
  <2>2. CASE pump' = [pump EXCEPT !.todo = @ \ {n}]
    <3>1. pump'.step = pump.step /\ pump'.net = pump.net
      BY <2>2 DEF TypeInv, PumpTypes
    <3> QED BY <1>5, <3>1 DEF Check, ApartHolds
  <2> QED BY <1>5, <2>1, <2>2 DEF Check
<1>6. CASE Recheck
  <2>1. pump'.net = pump.net /\ pump.step = "recheck"
    BY <1>6 DEF Recheck, TypeInv, PumpTypes
  <2> QED BY <1>6, <2>1 DEF Recheck, ApartHolds
<1>7. CASE Announce
  <2>1. /\ pump'.step = "next" /\ owner = pump.net
        /\ \A n \in Networks : view'[n] # 0 => view[n] # 0 \/ n = pump.net
    BY <1>7 DEF Announce, TypeInv, PumpTypes, NetTypes, ApartHolds
  <2> QED BY <1>7, <2>1 DEF Announce, ApartHolds
<1>8. ASSUME NEW p \in Procs, NEW n \in Networks, DropAgent(p, n) \/ Claim(p, n) \/ RosterRequest(p, n)
      PROVE  ApartHolds'
  <2>1. /\ req'[p].told = 0 /\ req'[p].step \in {"tomb", "issue", "compute"}
        /\ req'[p].step = "issue" => Claim(p, n) /\ req'[p].net = n
        /\ \A q \in Procs : q # p => req'[q] = req[q]
    BY <1>8, NewRequests
  <2>2. owner' = owner \/ (owner = None /\ Claim(p, n))
    BY <1>8 DEF DropAgent, Claim, Claimed, RosterRequest
  <2>3. asked' = asked /\ view' = view /\ pump' = pump /\ (Claim(p, n) => owner' = n)
    BY <1>8 DEF DropAgent, Claim, RosterRequest
  <2>4. None \notin Networks
    BY PresenceAssumption DEF None
  <2>5. CASE owner' = owner
    BY <2>1, <2>3, <2>5 DEF ApartHolds
  <2>6. CASE owner = None
    <3>1. asked = {}
      BY <2>4, <2>6 DEF ApartHolds, TypeInv, NetTypes
    <3>2. \A m \in Networks : view[m] = 0
      BY <2>4, <2>6 DEF ApartHolds
    <3>3. \A q \in Procs : req[q].step \notin {"evict", "issue"} /\ req[q].told = 0
      BY <2>4, <2>6 DEF ApartHolds, TypeInv, ReqTypes
    <3>4. pump.step \notin {"recheck", "send"}
      BY <2>4, <2>6 DEF ApartHolds, TypeInv, PumpTypes
    <3> QED BY <2>1, <2>3, <3>1, <3>2, <3>3, <3>4 DEF ApartHolds
  <2> QED BY <2>2, <2>5, <2>6
<1>9. ASSUME NEW p \in Procs, Requesting(p) PROVE ApartHolds'
  <2>1. owner' = owner /\ pump' = pump
    BY <1>9 DEF Requesting, StoreDrop, MarkDropped, LookUpOwner, Evict, Issue, ComputeRoster, SendRoster
  <2>2. asked' \subseteq {owner}
    BY <1>9 DEF Requesting, StoreDrop, MarkDropped, LookUpOwner, Evict, Issue, ComputeRoster, SendRoster,
       At, ApartHolds
  <2>3. \A n \in Networks : view'[n] # 0 => owner = n
    <3>1. CASE SendRoster(p)
      BY <3>1, RequestSteps, <1>9 DEF SendRoster, ApartHolds, TypeInv, NetTypes
    <3>2. CASE ~SendRoster(p)
      <4>1. view' = view
        BY <1>9, <3>2 DEF Requesting, StoreDrop, MarkDropped, LookUpOwner, Evict, Issue, ComputeRoster
      <4> QED BY <4>1 DEF ApartHolds
    <3> QED BY <3>1, <3>2
  <2>4. req'[p].told # 0 => owner = req'[p].net
    BY <1>9, RequestSteps DEF Roster
  <2>5. req'[p].step \in {"evict", "issue"} => owner = req'[p].net
    <3>1. CASE LookUpOwner(p)
      <4>1. req'[p].step = "evict" => owner = req[p].net
        BY <3>1 DEF LookUpOwner, Goto, TypeInv, ReqTypes
      <4>2. req'[p].step # "issue"
        BY <3>1 DEF LookUpOwner, Goto, TypeInv, ReqTypes
      <4> QED BY <1>9, <4>1, <4>2, RequestSteps
    <3>2. CASE ~LookUpOwner(p)
      <4>1. req'[p].step \notin {"evict", "issue"}
        BY <1>9, <3>2 DEF Requesting, StoreDrop, MarkDropped, Evict, Issue, ComputeRoster, SendRoster,
           Goto, Done, Resting, TypeInv, ReqTypes
      <4> QED BY <4>1
    <3> QED BY <3>1, <3>2
  <2>6. \A q \in Procs : q # p => req'[q] = req[q]
    BY <1>9, RequestSteps
  <2>7. \A q \in Procs : (req'[q].step \in {"evict", "issue"} \/ req'[q].told # 0) => owner' = req'[q].net
    BY <2>1, <2>4, <2>5, <2>6 DEF ApartHolds
  <2>8. pump'.step \in {"recheck", "send"} => owner' = pump'.net
    BY <2>1 DEF ApartHolds
  <2> QED BY <2>1, <2>2, <2>3, <2>7, <2>8 DEF ApartHolds
<1>10. CASE UNCHANGED vars
  BY <1>10 DEF vars, ApartHolds
<1> QED
  BY <1>2, <1>3, <1>4, <1>5, <1>6, <1>7, <1>8, <1>9, <1>10 DEF Next, Requesting

\* The hub is asked to issue or evict only for one network ever, and no other is
\* shown the agent, for any networks and requests: a claim can be lost to a failure
\* but never to another network.
THEOREM NetworksStayApart == Spec => []TenantsApart
<1>1. Init => TypeInv /\ ApartHolds
  BY InitTyped, InitApart
<1>2. TypeInv /\ ApartHolds /\ [Next]_vars => (TypeInv /\ ApartHolds)'
  BY StepTyped, StepApart
<1>3. ApartHolds => TenantsApart
  BY DEF ApartHolds, TenantsApart
<1> QED BY <1>1, <1>2, <1>3, PTL DEF Spec

-----------------------------------------------------------------------------
(* A dropped agent stays hidden.                                           *)

\* Nothing is dropped at the start.
LEMMA InitHidden == Init => HiddenHolds
BY DEF Init, HiddenHolds, NothingAsked, NoSeed, NothingBeforeLoad, TombsAreMarked, NothingOnItsWay, SoonHidden, Resting, Idle

\* A step that leaves the requests, the views and the exclusions.
LEMMA HiddenSpared ==
  ASSUME TypeInv, HiddenHolds, UNCHANGED <<req, netVars, blind>>,
         pump'.step = "load" => /\ pump.step = "load"
                                /\ (cache = 0 /\ NothingAsked) => (cache' = 0 /\ NothingAsked'),
         pump.step = "load" => pump'.step = "load",
         pump'.step = "send" => (pump' = pump \/ pump'.net \notin dropped)
  PROVE  HiddenHolds'
<1> USE DEF netVars
<1>1. NothingBeforeLoad' /\ TombsAreMarked'
  BY DEF HiddenHolds, NothingBeforeLoad, TombsAreMarked, Dropping
<1>2. NothingOnItsWay'
  BY DEF HiddenHolds, NothingOnItsWay, Told, At
<1>3. SoonHidden'
  BY DEF HiddenHolds, SoonHidden, Dropping
<1> QED BY <1>1, <1>2, <1>3 DEF HiddenHolds

\* The same for a request's step, told by what it does to its network n.
LEMMA HiddenRequest ==
  ASSUME TypeInv, HiddenHolds, NEW p \in Procs, Requesting(p)
  PROVE  HiddenHolds'
<1> DEFINE n == req[p].net
<1> USE DEF hubVars, seedVars, netVars
<1>1. /\ req[p].step # "none" /\ n \in Networks /\ WellFormed(req[p])
      /\ \A q \in Procs : q # p => req'[q] = req[q]
  BY RequestSteps, RequestTypes
<1>2. pump' = pump /\ cache' = cache /\ seeds' = seeds /\ blind' = blind
  BY DEF Requesting, StoreDrop, MarkDropped, LookUpOwner, Evict, Issue, ComputeRoster, SendRoster
<1>3. req[p].step \in DropSteps => req[p].op = "drop" /\ pump.step # "load"
  BY <1>1 DEF WellFormed, HiddenHolds, NothingBeforeLoad
<1>4. req'[p].op = "drop" => req[p].op = "drop"
  BY <1>1, RequestSteps
<1>5. /\ tombs' = tombs \/ (StoreDrop(p) /\ tombs' = tombs \cup {n} /\ req'[p] = [req[p] EXCEPT !.step = "mark"])
      /\ dropped' = dropped \/ (MarkDropped(p) /\ dropped' = dropped \cup {n})
      /\ view' = view \/ (SendRoster(p) /\ view' = [view EXCEPT ![n] = req[p].told])
  BY DEF Requesting, StoreDrop, MarkDropped, LookUpOwner, Evict, Issue, ComputeRoster, SendRoster, Goto,
     TypeInv, ReqTypes
<1>6. /\ late \subseteq late'
      /\ late' = late \/ (MarkDropped(p) /\ n \in late') \/ (ComputeRoster(p) /\ req[p].op = "drop" /\ n \in late')
      /\ late' = late \/ late' = late \cup {n}
  BY DEF Requesting, StoreDrop, MarkDropped, LookUpOwner, Evict, Issue, ComputeRoster, SendRoster
<1>7. NothingBeforeLoad'
  <2> SUFFICES ASSUME pump.step = "load" PROVE NothingBeforeLoad'
    BY <1>2 DEF NothingBeforeLoad
  <2>1. req[p].step \notin DropSteps /\ req[p].op # "drop" /\ cache = 0 /\ dropped = {} /\ late = {}
    BY <1>3 DEF HiddenHolds, NothingBeforeLoad
  <2>2. dropped' = {} /\ late' = {}
    BY <1>5, <1>6, <2>1 DEF MarkDropped, At, DropSteps
  <2>3. req'[p].told = 0 /\ req'[p].op # "drop"
    BY <1>4, <2>1, RequestSteps DEF Roster
  <2>4. \A m \in Networks : view'[m] = 0
    BY <1>5 DEF HiddenHolds, NothingBeforeLoad, TypeInv, NetTypes
  <2> QED BY <1>1, <1>2, <2>2, <2>3, <2>4 DEF HiddenHolds, NothingBeforeLoad, NothingAsked
<1>8. TombsAreMarked'
  <2> SUFFICES ASSUME ~blind, pump.step # "load", NEW m \in tombs'
               PROVE  m \in dropped' \/ \E q \in Procs : Dropping(q, m, {"mark"})'
    BY <1>2 DEF TombsAreMarked, Dropping
  <2>1. CASE m \notin tombs
    <3>1. StoreDrop(p) /\ m = n /\ req'[p] = [req[p] EXCEPT !.step = "mark"]
      BY <1>5, <2>1
    <3>2. req'[p].step = "mark" /\ req'[p].op = "drop" /\ req'[p].net = m
      BY <1>1, <1>3, <3>1 DEF StoreDrop, At, WellFormed, DropSteps
    <3> QED BY <3>2 DEF Dropping
  <2>2. CASE m \in dropped
    BY <1>5, <2>2
  <2>3. CASE m \in tombs /\ m \notin dropped
    <3>1. PICK q \in Procs : Dropping(q, m, {"mark"})
      BY <2>3 DEF HiddenHolds, TombsAreMarked
    <3>2. CASE q = p
      <4>1. MarkDropped(p)
        BY <3>1, <3>2 DEF Dropping, Requesting, StoreDrop, LookUpOwner, Evict, Issue, ComputeRoster,
           SendRoster, At
      <4> QED BY <3>1, <3>2, <4>1 DEF MarkDropped, Dropping
    <3>3. CASE q # p
      BY <1>1, <3>1, <3>3 DEF Dropping
    <3> QED BY <3>2, <3>3
  <2> QED BY <2>1, <2>2, <2>3
<1>9. NothingOnItsWay'
  <2> SUFFICES ASSUME NEW m \in dropped' \ late'
               PROVE  /\ ~(pump.step = "send" /\ pump.net = m)
                      /\ \A q \in Procs : ~Told(q, m)'
    BY <1>2 DEF NothingOnItsWay
  <2>1. m \notin late
    BY <1>6
  <2>2. /\ ~(pump.step = "send" /\ pump.net = m)
        /\ \A q \in Procs : q # p => ~Told(q, m)
    <3>1. CASE m \in dropped
      BY <2>1, <3>1 DEF HiddenHolds, NothingOnItsWay
    <3>2. CASE m \notin dropped
      <4>1. MarkDropped(p) /\ m = n
        BY <1>5, <3>2
      <4> QED BY <4>1 DEF MarkDropped
    <3> QED BY <3>1, <3>2
  <2>3. ~Told(p, m)'
    <3>1. CASE req'[p].told # 0
      <4>1. ComputeRoster(p) /\ Roster(n) # 0 /\ req'[p].net = n
        BY <3>1, RequestSteps
      <4>2. m # n
        BY <1>5, <4>1 DEF Roster, ComputeRoster
      <4> QED BY <4>1, <4>2 DEF Told
    <3>2. CASE req'[p].told = 0
      BY <3>2 DEF Told
    <3> QED BY <3>1, <3>2
  <2> QED BY <1>1, <2>2, <2>3 DEF Told, At
<1>10. SoonHidden'
  <2> SUFFICES ASSUME NEW m \in dropped' \ late', view'[m] # 0
               PROVE  \E q \in Procs : Dropping(q, m, AfterMark)'
    BY DEF SoonHidden
  <2>1. m \notin late
    BY <1>6
  <2>2. CASE m \notin dropped
    <3>1. MarkDropped(p) /\ m = n
      BY <1>5, <2>2
    <3>2. req'[p].step = "owner" /\ req'[p].op = "drop" /\ req'[p].net = m
      BY <1>1, <1>3, <3>1 DEF MarkDropped, Goto, At, DropSteps, TypeInv, ReqTypes
    <3> QED BY <3>2 DEF Dropping, AfterMark
  <2>3. CASE m \in dropped
    <3>1. \A q \in Procs : ~Told(q, m)
      BY <2>1, <2>3 DEF HiddenHolds, NothingOnItsWay
    <3>2. view[m] # 0 /\ ~(SendRoster(p) /\ n = m)
      BY <1>1, <1>5, <3>1 DEF SendRoster, Told, TypeInv, NetTypes
    <3>3. PICK q \in Procs : Dropping(q, m, AfterMark)
      BY <2>1, <2>3, <3>2 DEF HiddenHolds, SoonHidden
    <3>4. CASE q # p
      BY <1>1, <3>3, <3>4 DEF Dropping
    <3>5. CASE q = p
      <4>1. n = m /\ req[p].op = "drop" /\ req[p].step \in AfterMark
        BY <3>3, <3>5 DEF Dropping
      <4>2. ~Done(p)
        <5>1. SUFFICES ASSUME ComputeRoster(p), Done(p) PROVE FALSE
          BY <3>2, <4>1 DEF Requesting, StoreDrop, MarkDropped, LookUpOwner, Evict, Issue, At, AfterMark,
             Done, Goto, Resting, TypeInv, ReqTypes
        <5>2. req'[p].step = "none"
          BY <5>1 DEF Done, Resting, TypeInv, ReqTypes
        <5>3. late' = late \cup {n}
          BY <4>1, <5>1, <5>2 DEF ComputeRoster, TypeInv, ReqTypes
        <5> QED BY <4>1, <5>3
      <4>3. req'[p].step \in AfterMark
        BY <3>2, <4>1, <4>2 DEF Requesting, StoreDrop, MarkDropped, LookUpOwner, Evict, Issue,
           ComputeRoster, At, AfterMark, Goto, TypeInv, ReqTypes
      <4>4. req'[p].net = m /\ req'[p].op = "drop"
        BY <4>1, <4>3, RequestSteps DEF AfterMark
      <4> QED BY <4>3, <4>4 DEF Dropping
    <3> QED BY <3>4, <3>5
  <2> QED BY <2>2, <2>3
<1> QED BY <1>7, <1>8, <1>9, <1>10 DEF HiddenHolds

\* Every step keeps a dropped agent hidden.
LEMMA StepHidden == TypeInv /\ HiddenHolds /\ [Next]_vars => HiddenHolds'
<1> SUFFICES ASSUME TypeInv, HiddenHolds, [Next]_vars PROVE HiddenHolds'
  OBVIOUS
<1> USE DEF hubVars, seedVars, netVars
<1>1. CASE HubChange \/ Connect
  BY <1>1, HiddenSpared DEF HubChange, Connect, NothingAsked
<1>2. CASE ConnLost
  <2>1. NothingAsked => NothingAsked'
    BY <1>2 DEF ConnLost, NothingAsked, TypeInv, SeedTypes
  <2> QED BY <1>2, <2>1, HiddenSpared DEF ConnLost
<1>3. CASE TakeEvent
  <2>1. pump.step = "idle" /\ pump'.step \in {"seed", "next"}
    BY <1>3 DEF TakeEvent, Idle
  <2> QED BY <1>3, <2>1, HiddenSpared DEF TakeEvent
<1>4. CASE EventDone
  BY <1>4, HiddenSpared DEF EventDone, Idle
<1>5. ASSUME NEW n \in Networks, Check(n) PROVE HiddenHolds'
  <2>1. pump.step = "next" /\ pump'.step \in {"recheck", "next"}
    BY <1>5 DEF Check, TypeInv, PumpTypes
  <2> QED BY <1>5, <2>1, HiddenSpared DEF Check
<1>6. CASE Recheck
  <2>1. pump.step = "recheck" /\ pump'.step \in {"send", "next"} /\ (pump'.step = "send" => pump'.net \notin dropped)
    BY <1>6 DEF Recheck, RecheckPasses, TypeInv, PumpTypes
  <2> QED BY <1>6, <2>1, HiddenSpared DEF Recheck
<1>7. ASSUME NEW s \in Seeders, Answer(s) \/ Merge(s) \/ SeedFails(s) \/ SeedRefused(s) PROVE HiddenHolds'
  <2>1. pump.step # "load"
    BY <1>7 DEF Answer, Merge, SeedFails, SeedRefused, Asking, HiddenHolds, NothingBeforeLoad, NothingAsked
  <2>2. pump' = pump \/ pump' = Idle
    BY <1>7 DEF Answer, Merge, SeedFails, SeedRefused, PumpDone
  <2>3. UNCHANGED <<req, netVars, blind>>
    BY <1>7 DEF Answer, Merge, SeedFails, SeedRefused
  <2> QED BY <2>1, <2>2, <2>3, HiddenSpared DEF Idle
<1>8. CASE Announce
  <2>1. /\ pump.step = "send" /\ pump'.step = "next" /\ pump.net \notin (dropped \ late)
        /\ UNCHANGED <<req, dropped, late, tombs, blind>>
    BY <1>8 DEF Announce, HiddenHolds, NothingOnItsWay, TypeInv, PumpTypes
  <2>2. \A m \in Networks : m # pump.net => view'[m] = view[m]
    BY <1>8 DEF Announce, TypeInv, NetTypes
  <2>3. NothingBeforeLoad' /\ TombsAreMarked'
    BY <2>1 DEF HiddenHolds, NothingBeforeLoad, TombsAreMarked, Dropping
  <2>4. NothingOnItsWay'
    BY <2>1 DEF HiddenHolds, NothingOnItsWay, Told, At
  <2>5. SoonHidden'
    BY <2>1, <2>2 DEF HiddenHolds, SoonHidden, Dropping, TypeInv, NetTypes
  <2> QED BY <2>3, <2>4, <2>5 DEF HiddenHolds
<1>9. CASE LoadDropped
  <2>1. /\ pump.step = "load" /\ pump'.step = "idle" /\ req' = req /\ late' = late /\ view' = view /\ tombs' = tombs
        /\ \/ dropped' = tombs /\ ~blind'
           \/ dropped' = {} /\ blind'
        /\ dropped' \subseteq Networks
    BY <1>9 DEF LoadDropped, Idle, HiddenHolds, NothingBeforeLoad, TypeInv, NetTypes
  <2>2. /\ \A n \in Networks : view[n] = 0
        /\ \A p \in Procs : req[p].told = 0
    BY <2>1 DEF HiddenHolds, NothingBeforeLoad
  <2> QED BY <2>1, <2>2 DEF HiddenHolds, NothingBeforeLoad, TombsAreMarked, NothingOnItsWay, SoonHidden, Told
<1>10. CASE Restart
  BY <1>10 DEF Restart, Fresh, HiddenHolds, NothingAsked, NoSeed, NothingBeforeLoad, TombsAreMarked, NothingOnItsWay,
     SoonHidden, Resting, Idle
<1>11. ASSUME NEW p \in Procs, NEW n \in Networks, DropAgent(p, n) \/ Claim(p, n) \/ RosterRequest(p, n)
       PROVE  HiddenHolds'
  <2>1. /\ req[p] = Resting /\ req'[p].told = 0
        /\ req'[p].op = "drop" => DropAgent(p, n)
        /\ \A q \in Procs : q # p => req'[q] = req[q]
    BY <1>11, NewRequests
  <2>2. UNCHANGED <<pump, cache, seeds, tombs, dropped, late, view, blind>>
    BY <1>11 DEF DropAgent, Claim, RosterRequest
  <2>3. req'[p].op = "drop" => pump.step # "load"
    BY <2>1 DEF DropAgent, HiddenHolds, NothingBeforeLoad
  <2>4. NothingBeforeLoad'
    BY <2>1, <2>2, <2>3 DEF HiddenHolds, NothingBeforeLoad, NothingAsked
  <2>5. TombsAreMarked'
    BY <2>1, <2>2 DEF HiddenHolds, TombsAreMarked, Dropping, Resting
  <2>6. NothingOnItsWay'
    BY <2>1, <2>2 DEF HiddenHolds, NothingOnItsWay, Told, At
  <2>7. SoonHidden'
    BY <2>1, <2>2 DEF HiddenHolds, SoonHidden, Dropping, Resting
  <2> QED BY <2>4, <2>5, <2>6, <2>7 DEF HiddenHolds
<1>12. ASSUME NEW p \in Procs, Requesting(p) PROVE HiddenHolds'
  BY <1>12, HiddenRequest
<1>13. CASE UNCHANGED vars
  BY <1>13, HiddenSpared DEF vars, NothingAsked
<1> QED
  BY <1>1, <1>2, <1>3, <1>4, <1>5, <1>6, <1>7, <1>8, <1>9, <1>10, <1>11, <1>12, <1>13 DEF Next, Requesting

\* A drop that has ended stays unseen in that network, through events, seeds,
\* rosters and restarts: what could still show the agent was checked after the
\* mark, or `late' owns up to it.
THEOREM DropsAreFinal == Spec => []DroppedStaysHidden
<1>1. Init => TypeInv /\ HiddenHolds
  BY InitTyped, InitHidden
<1>2. TypeInv /\ HiddenHolds /\ [Next]_vars => (TypeInv /\ HiddenHolds)'
  BY StepTyped, StepHidden
<1>3. TypeInv /\ HiddenHolds => DroppedStaysHidden
  <2> SUFFICES ASSUME TypeInv, HiddenHolds, NEW n \in tombs, ~blind, n \notin late,
                      \A p \in Procs : req[p].op = "drop" => req[p].net # n
               PROVE  view[n] = 0
    BY DEF DroppedStaysHidden
  <2>1. CASE pump.step = "load"
    BY <2>1 DEF HiddenHolds, NothingBeforeLoad, TypeInv, NetTypes
  <2>2. CASE pump.step # "load"
    BY <2>2 DEF HiddenHolds, TombsAreMarked, SoonHidden, Dropping
  <2> QED BY <2>1, <2>2
<1> QED BY <1>1, <1>2, <1>3, PTL DEF Spec

-----------------------------------------------------------------------------
(* The cache is right.                                                     *)

\* The cache is as good as unseeded at the start.
LEMMA InitCache == Init => CacheHolds
<1> SUFFICES ASSUME Init PROVE CacheHolds
  OBVIOUS
<1>1. Asked
  BY DEF Init, Asked, NoSeed, Seeders
<1>2. ~Whole
  BY DEF Init, Whole
<1> QED BY <1>1, <1>2 DEF CacheHolds, BufferEnds, AnswersHold, Drained

\* A step that leaves the hub, the buffer and the seeds.
LEMMA CacheSpared ==
  ASSUME CacheHolds, UNCHANGED <<hubVars, seedVars, gap>>, pump.step = "seed" => pump' = pump
  PROVE  CacheHolds'
BY DEF CacheHolds, Asked, BufferEnds, AnswersHold, Answered, Whole, Drained, hubVars, seedVars

\* The event appended last is the last.
LEMMA LastEvent ==
  ASSUME TypeInv, NEW e \in 0 .. version', version' \in {version, version + 1}, Emit(e),
         Len(events) # EventCap
  PROVE  events' # <<>> /\ events'[Len(events')] = e
<1>1. events \in Seq(0 .. version') /\ events' = Append(events, e)
  BY Emitted DEF TypeInv, HubTypes
<1> QED BY <1>1

\* Taking the first event leaves the last.
LEMMA TailEnds ==
  ASSUME NEW S, NEW q \in Seq(S), q # <<>>
  PROVE  /\ Tail(q) = <<>> => q[Len(q)] = Head(q)
         /\ Tail(q) # <<>> => Tail(q)[Len(Tail(q))] = q[Len(q)]
<1>1. /\ Tail(q) \in Seq(S) /\ Len(Tail(q)) = Len(q) - 1
      /\ \A i \in 1 .. Len(Tail(q)) : Tail(q)[i] = q[i + 1]
  BY HeadTailProperties
<1>2. Len(q) \in Nat /\ Head(q) = q[1] /\ Len(q) > 0
  OBVIOUS
<1>3. CASE Tail(q) = <<>>
  BY <1>1, <1>2, <1>3
<1>4. CASE Tail(q) # <<>>
  <2>1. Len(Tail(q)) \in 1 .. Len(Tail(q))
    BY <1>1, <1>4
  <2> QED BY <1>1, <1>2, <1>4, <2>1
<1> QED BY <1>3, <1>4

\* Every step keeps what the cache owes its sources.
LEMMA StepCache == TypeInv /\ CacheHolds /\ [Next]_vars => CacheHolds'
<1> SUFFICES ASSUME TypeInv, CacheHolds, [Next]_vars PROVE CacheHolds'
  OBVIOUS
<1> USE DEF hubVars, seedVars, netVars
<1>1. CASE HubChange
  <2>1. Asked'
    BY <1>1 DEF HubChange, CacheHolds, Asked
  <2>2. version' = version + 1 /\ version' \in 0 .. version' /\ version' # Online
    BY <1>1 DEF HubChange, TypeInv, HubTypes, Online
  <2>3. Whole' => events' # <<>> /\ events'[Len(events')] = version'
    <3> SUFFICES ASSUME Whole' PROVE events' # <<>> /\ events'[Len(events')] = version'
      OBVIOUS
    <3>1. Emit(version + 1) /\ Len(events) # EventCap
      BY <1>1 DEF HubChange, Whole
    <3> QED BY <2>2, <3>1, LastEvent
  <2> QED BY <2>1, <2>2, <2>3 DEF CacheHolds, BufferEnds, AnswersHold, Drained
<1>2. CASE Connect
  <2>1. Asked'
    BY <1>2 DEF Connect, CacheHolds, Asked
  <2>2. \A s \in Seeders : ~seeds'[s].here
    BY <1>2 DEF Connect, CacheHolds, Asked, TypeInv, SeedTypes
  <2>3. Whole' => events' # <<>> /\ events'[Len(events')] = Online
    <3> SUFFICES ASSUME Whole' PROVE events' # <<>> /\ events'[Len(events')] = Online
      OBVIOUS
    <3>1. Emit(Online) /\ Len(events) # EventCap /\ Online \in 0 .. version' /\ version' = version
      BY <1>2, Numbers DEF Connect, Whole, Online, TypeInv
    <3> QED BY <3>1, LastEvent
  <2> QED BY <2>1, <2>2, <2>3 DEF CacheHolds, BufferEnds, AnswersHold, Drained
<1>3. CASE ConnLost
  <2>1. ~Whole'
    BY <1>3 DEF ConnLost, Whole
  <2>2. \A s \in Seeders : ~seeds'[s].here /\ seeds'[s].left = seeds[s].left /\ seeds'[s].answer = seeds[s].answer
    BY <1>3 DEF ConnLost, TypeInv, SeedTypes
  <2>3. Asked'
    BY <1>3, <2>2 DEF ConnLost, CacheHolds, Asked, Seeders
  <2> QED BY <2>1, <2>3 DEF CacheHolds, BufferEnds, AnswersHold, Drained
<1>4. CASE Restart
  <2>1. ~Whole'
    BY <1>4 DEF Restart, Fresh, Whole
  <2>2. Asked'
    BY <1>4 DEF Restart, Fresh, Asked, NoSeed, Seeders
  <2> QED BY <2>1, <2>2 DEF CacheHolds, BufferEnds, AnswersHold, Drained
<1>5. CASE TakeEvent
  <2>1. /\ events # <<>> /\ events' = Tail(events) /\ pump.step = "idle"
        /\ UNCHANGED <<version, link, gap>> /\ Whole' = Whole
        /\ seeds["pump"].left = 0 /\ seeds["pump"].answer = 0
    BY <1>5 DEF TakeEvent, CacheHolds, Asked, Whole
  <2>2. /\ events' = <<>> => events[Len(events)] = Head(events)
        /\ events' # <<>> => events'[Len(events')] = events[Len(events)]
    <3>1. events \in Seq(0 .. version)
      BY DEF TypeInv, HubTypes
    <3> QED BY <2>1, <3>1, TailEnds
  <2>3. seeds'["background"] = seeds["background"]
    BY <1>5 DEF TakeEvent, TypeInv, SeedTypes, Seeders
  <2>4. seeds'["pump"].answer = 0
    BY <1>5, <2>1 DEF TakeEvent, TypeInv, SeedTypes, Seeders, NoSeed
  <2>5. \A s \in Seeders : Answered(s)' => s = "background" /\ Answered(s)
    BY <2>3, <2>4 DEF Answered, Seeders
  <2>6. CASE Head(events) = Online
    <3>1. pump'.step = "seed" /\ ~seeded' /\ ~seeds'["pump"].here
      BY <1>5, <2>6 DEF TakeEvent, Idle, NoSeed, TypeInv, SeedTypes, Seeders
    <3>2. Asked'
      BY <2>1, <2>3, <3>1 DEF Asked, CacheHolds, Seeders
    <3>3. BufferEnds'
      BY <2>1, <2>2, <2>3, <2>5 DEF CacheHolds, BufferEnds
    <3>4. ASSUME Drained' PROVE \A s \in Seeders : (seeds'[s].here /\ Answered(s)') => seeds'[s].answer = version
      BY <2>1, <2>2, <2>3, <2>5, <2>6, <3>4 DEF CacheHolds, BufferEnds, Drained
    <3>5. AnswersHold'
      <4>1. ~Answered("pump")'
        BY <2>4 DEF Answered
      <4> QED BY <2>1, <3>1, <3>4, <4>1 DEF AnswersHold
    <3> QED BY <3>2, <3>3, <3>5 DEF CacheHolds
  <2>7. CASE Head(events) # Online
    <3>1. pump'.step = "next" /\ cache' = Head(events) /\ UNCHANGED <<seeds, seeded>>
      BY <1>5, <2>7 DEF TakeEvent, Idle
    <3>2. Asked'
      BY <2>1, <3>1 DEF Asked, CacheHolds
    <3>3. BufferEnds'
      BY <2>1, <2>2, <2>3, <2>5, <3>1 DEF CacheHolds, BufferEnds
    <3>4. ASSUME Drained' PROVE cache' = version
      BY <2>1, <2>2, <2>7, <3>1, <3>4 DEF CacheHolds, BufferEnds, Drained
    <3>5. \A s \in Seeders : seeds'[s].answer \in 0 .. version /\ version \in Nat
      BY <3>1, Numbers DEF TypeInv, SeedTypes
    <3>6. AnswersHold'
      BY <2>1, <2>4, <3>4, <3>5 DEF AnswersHold, Answered
    <3> QED BY <3>2, <3>3, <3>6 DEF CacheHolds
  <2> QED BY <2>6, <2>7
<1>6. ASSUME NEW s \in Seeders, Answer(s) PROVE CacheHolds'
  <2>1. /\ seeds'[s].answer = version /\ seeds'[s].left = seeds[s].left /\ seeds[s].left # 0
        /\ \A t \in Seeders : t # s => seeds'[t] = seeds[t]
        /\ link /\ UNCHANGED <<version, link, events, gap, cache, seeded, regressed, pump>>
    BY <1>6 DEF Answer, Asking, TypeInv, SeedTypes
  <2>2. Asked'
    BY <2>1 DEF CacheHolds, Asked, Seeders
  <2>3. BufferEnds'
    BY <2>1 DEF CacheHolds, BufferEnds, Answered, Whole
  <2>4. AnswersHold'
    BY <2>1 DEF CacheHolds, AnswersHold, Answered, Drained, Whole, Seeders
  <2> QED BY <2>2, <2>3, <2>4 DEF CacheHolds
<1>7. ASSUME NEW s \in Seeders, Merge(s) PROVE CacheHolds'
  <2>1. /\ seeds'[s].answer = 0 /\ seeds'[s].left = 0 /\ ~seeds'[s].here
        /\ \A t \in Seeders : t # s => seeds'[t] = seeds[t]
        /\ UNCHANGED <<version, link, events, gap>> /\ Answered(s)
        /\ pump'.step = "idle" \/ (s # "pump" /\ pump' = pump)
    BY <1>7 DEF Merge, PumpDone, Idle, Answered, NoSeed, TypeInv, SeedTypes
  <2>2. /\ cache' = seeds[s].answer /\ regressed' = (seeds[s].answer < cache)
        /\ seeded' => seeded \/ seeds[s].here
    BY <1>7 DEF Merge, Merged
  <2>3. Asked'
    <3>1. CASE s = "pump"
      BY <2>1, <3>1 DEF CacheHolds, Asked, Seeders
    <3>2. CASE s # "pump"
      <4>1. pump.step = "idle" \/ pump' = pump
        BY <1>7, <3>2 DEF Merge, PumpDone
      <4> QED BY <2>1, <3>2, <4>1 DEF CacheHolds, Asked, Seeders
    <3> QED BY <3>1, <3>2
  <2>4. BufferEnds'
    BY <2>1 DEF CacheHolds, BufferEnds, Answered, Whole
  <2>5. ASSUME Drained' PROVE seeded' => (cache' = version \/ regressed')
    BY <2>1, <2>2, <2>5 DEF CacheHolds, AnswersHold, Drained, Whole
  <2>6. ASSUME Drained' PROVE Answered("pump")' => seeds'["pump"].answer = version
    BY <2>1, <2>6 DEF CacheHolds, AnswersHold, Answered, Drained, Whole, Seeders
  <2>7. ASSUME Drained', NEW t \in Seeders, Answered(t)'
        PROVE seeds'[t].answer = version \/ seeds'[t].answer < cache'
    <3>1. t # s /\ seeds'[t] = seeds[t] /\ Answered(t) /\ Drained
      BY <2>1, <2>7 DEF Answered, Drained, Whole
    <3>2. CASE s = "pump"
      <4>1. cache' = version
        BY <2>1, <2>2, <3>1, <3>2 DEF CacheHolds, AnswersHold
      <4>2. seeds[t].answer \in 0 .. version /\ version \in Nat
        BY Numbers DEF TypeInv, SeedTypes
      <4> QED BY <3>1, <4>1, <4>2
    <3>3. CASE s # "pump"
      <4>1. t = "pump"
        BY <3>1, <3>3 DEF Seeders
      <4> QED BY <3>1, <4>1 DEF CacheHolds, AnswersHold
    <3> QED BY <3>2, <3>3
  <2>8. AnswersHold'
    BY <2>1, <2>5, <2>6, <2>7 DEF AnswersHold
  <2> QED BY <2>3, <2>4, <2>8 DEF CacheHolds
<1>8. ASSUME NEW s \in Seeders, SeedFails(s) PROVE CacheHolds'
  <2>1. UNCHANGED <<version, link, events, gap, cache, seeded, regressed>>
    BY <1>8 DEF SeedFails
  <2>2. \A t \in Seeders : /\ seeds'[t].here => seeds[t].here
                           /\ seeds'[t].answer = 0 \/ seeds'[t] = seeds[t]
    <3>1. CASE s = "pump"
      BY <1>8, <3>1 DEF SeedFails, NoSeed, TypeInv, SeedTypes, Seeders
    <3>2. CASE s # "pump"
      BY <1>8, <3>2 DEF SeedFails, Asking, TypeInv, SeedTypes
    <3> QED BY <3>1, <3>2
  <2>3. Asked'
    <3>1. \A t \in Seeders : seeds'[t].here => link'
      BY <2>1, <2>2 DEF CacheHolds, Asked
    <3>2. CASE s = "pump"
      <4>1. seeds'["pump"].left = 0 /\ seeds'["pump"].answer = 0
        BY <1>8, <3>2 DEF SeedFails, NoSeed, TypeInv, SeedTypes, Seeders
      <4> QED BY <3>1, <4>1 DEF Asked
    <3>3. CASE s # "pump"
      <4>1. pump' = pump /\ seeds'["pump"] = seeds["pump"]
        BY <1>8, <3>3 DEF SeedFails, PumpDone, TypeInv, SeedTypes, Seeders
      <4> QED BY <3>1, <4>1 DEF CacheHolds, Asked
    <3> QED BY <3>2, <3>3
  <2>4. BufferEnds'
    BY <2>1, <2>2 DEF CacheHolds, BufferEnds, Answered, Whole
  <2>5. AnswersHold'
    BY <2>1, <2>2 DEF CacheHolds, AnswersHold, Answered, Drained, Whole, Seeders
  <2> QED BY <2>3, <2>4, <2>5 DEF CacheHolds
<1>14. ASSUME NEW s \in Seeders, SeedRefused(s) PROVE CacheHolds'
  <2>1. /\ UNCHANGED <<version, link, events, gap, cache, seeded, regressed>>
        /\ seeds'[s].left = 0 /\ seeds'[s].answer = 0 /\ ~seeds'[s].here
        /\ \A t \in Seeders : t # s => seeds'[t] = seeds[t]
    BY <1>14 DEF SeedRefused, NoSeed, TypeInv, SeedTypes
  <2>2. Asked'
    <3>1. CASE s = "pump"
      BY <2>1, <3>1 DEF CacheHolds, Asked, Seeders
    <3>2. CASE s # "pump"
      <4>1. pump' = pump
        BY <1>14, <3>2 DEF SeedRefused, PumpDone
      <4> QED BY <2>1, <3>2, <4>1 DEF CacheHolds, Asked, Seeders
    <3> QED BY <3>1, <3>2
  <2>3. BufferEnds'
    BY <2>1 DEF CacheHolds, BufferEnds, Answered, Whole
  <2>4. AnswersHold'
    BY <2>1 DEF CacheHolds, AnswersHold, Answered, Drained, Whole, Seeders
  <2> QED BY <2>2, <2>3, <2>4 DEF CacheHolds
<1>9. CASE LoadDropped \/ Recheck \/ Announce \/ EventDone
  BY <1>9, CacheSpared DEF LoadDropped, Recheck, Announce, EventDone
<1>10. ASSUME NEW n \in Networks, Check(n) PROVE CacheHolds'
  BY <1>10, CacheSpared DEF Check
<1>11. ASSUME NEW p \in Procs, NEW n \in Networks, DropAgent(p, n) \/ Claim(p, n) \/ RosterRequest(p, n)
       PROVE  CacheHolds'
  BY <1>11, CacheSpared DEF DropAgent, Claim, RosterRequest
<1>12. ASSUME NEW p \in Procs, Requesting(p) PROVE CacheHolds'
  BY <1>12, CacheSpared
     DEF Requesting, StoreDrop, MarkDropped, LookUpOwner, Evict, Issue, ComputeRoster, SendRoster
<1>13. CASE UNCHANGED vars
  BY <1>13, CacheSpared DEF vars
<1> QED
  BY <1>1, <1>2, <1>3, <1>4, <1>5, <1>6, <1>7, <1>8, <1>9, <1>10, <1>11, <1>12, <1>13, <1>14 DEF Next, Requesting

\* Once everything read from the hub is worked off, the cache has the agent as the
\* hub has it, for any buffer and any number of changes and retries: an event that
\* is still to come, an answer that is true or one seen to be older makes up for it.
THEOREM CacheComesRight == Spec => []CacheRight
<1>1. Init => TypeInv /\ CacheHolds
  BY InitTyped, InitCache
<1>2. TypeInv /\ CacheHolds /\ [Next]_vars => (TypeInv /\ CacheHolds)'
  BY StepTyped, StepCache
<1>3. CacheHolds => CacheRight
  BY DEF CacheHolds, AnswersHold, CacheRight, Quiet, Drained, Whole
<1> QED BY <1>1, <1>2, <1>3, PTL DEF Spec
=============================================================================
