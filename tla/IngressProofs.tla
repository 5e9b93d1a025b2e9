--------------------------- MODULE IngressProofs ---------------------------
(***************************************************************************)
(* What holds of Ingress for any requests, deliveries, windows and limits. *)
(* Each of its four parts keeps a promise about calls that have long       *)
(* ended; the invariants say what the state kept in between still knows    *)
(* of them.                                                                *)
(***************************************************************************)
EXTENDS Ingress, FiniteSetTheorems, TLAPS

-----------------------------------------------------------------------------
(* Types.                                                                  *)

Times  == 0 .. MaxTime
Claims == [of : Deliveries, at : Times]
Reqs   == {Resting} \cup [step : {"log", "verify"}] \cup [step : {"debounce"}, for : Debounces]
          \cup [step : {"post"}, for : Debounces, at : Times] \cup [step : {"insert"}, row : Nat \ {0}]
          \cup [step : {"route", "dispatch"}, of : Deliveries, at : Times]

ReqTypes == req \in [Procs -> Reqs]

ClockTypes == now \in Times /\ online \in BOOLEAN

WakeTypes ==
  /\ reg \in Debounces \cup {0} /\ last \in (0 .. now) \cup {Never}
  /\ posts \in Seq([for : Debounces, at : Times, called : Times])

LogTypes ==
  /\ rows \in SUBSET (Nat \ {0}) /\ IsFiniteSet(rows) /\ serial \in Nat /\ store \in Stores
  /\ walk \in [cursor : Nat, more : BOOLEAN, got : SUBSET Nat, from : SUBSET Nat, again : BOOLEAN]

GateTypes ==
  /\ window \in [start : (0 .. now) \cup {Never}, count : Nat]
  /\ fails \in [count : Nat, last : Nat]

HookTypes ==
  /\ seen \in [Deliveries -> (0 .. now) \cup {Never}]
  /\ timers \subseteq [of : Deliveries, at : Times, due : Nat]
  /\ jobs \in Seq(Claims)

TypeInv == ReqTypes /\ ClockTypes /\ WakeTypes /\ LogTypes /\ GateTypes /\ HookTypes

\* The constants, as numbers.
LEMMA Numbers ==
  /\ MaxTime \in Nat /\ Never = MaxTime + 1 /\ Never \notin Times
  /\ \A d \in Debounces : d \in Nat /\ d > 0
  /\ MaxCount \in Nat \ {0} /\ Window \in Nat \ {0} /\ MaxFailures \in Nat \ {0}
  /\ TTL \in Nat \ {0} /\ Grace \in Nat \ {0} /\ PageLimit \in Nat \ {0} /\ Gap \in Nat
BY IngressAssumption DEF Never, Times

\* A request has the fields its step has.
LEMMA Request ==
  ASSUME TypeInv, NEW p \in Procs
  PROVE  /\ At(p, "debounce") => req[p].for \in Debounces
         /\ At(p, "post") => req[p].for \in Debounces /\ req[p].at \in Times
         /\ At(p, "insert") => req[p].row \in Nat \ {0}
         /\ At(p, "route") => req[p] \in [step : {"route", "dispatch"}, of : Deliveries, at : Times]
         /\ At(p, "dispatch") => req[p] \in [step : {"route", "dispatch"}, of : Deliveries, at : Times]
         /\ req[p] = Resting => \A s \in {"log", "verify", "debounce", "post", "insert", "route", "dispatch"} : ~At(p, s)
BY DEF TypeInv, ReqTypes, Reqs, At, Resting

\* The requests when p's becomes r.
LEMMA Becomes ==
  ASSUME TypeInv, NEW p \in Procs, NEW r, req' = [req EXCEPT ![p] = r]
  PROVE  /\ req'[p] = r
         /\ \A q \in Procs : q # p => req'[q] = req[q]
         /\ r \in Reqs => ReqTypes'
BY DEF TypeInv, ReqTypes

\* The types hold at the start.
LEMMA InitTyped == Init => TypeInv
<1> SUFFICES ASSUME Init PROVE TypeInv
  OBVIOUS
<1>1. ReqTypes
  BY DEF Init, AllRest, ReqTypes, Reqs
<1>2. ClockTypes /\ LogTypes
  BY Numbers, FS_EmptySet DEF Init, ClockTypes, LogTypes, Times, NewWalk
<1>3. WakeTypes /\ GateTypes /\ HookTypes
  BY Numbers DEF Init, WakeTypes, GateTypes, HookTypes, NoWindow, NoFails, Unseen
<1> QED BY <1>1, <1>2, <1>3 DEF TypeInv

\* What the parts of the system leave alone.
LEMMA Untouched ==
  ASSUME TypeInv
  PROVE  /\ UNCHANGED <<now, online>> => ClockTypes'
         /\ UNCHANGED <<now, reg, last, posts>> => WakeTypes'
         /\ UNCHANGED <<rows, serial, store, walk>> => LogTypes'
         /\ UNCHANGED <<now, window, fails>> => GateTypes'
         /\ UNCHANGED <<now, seen, timers, jobs>> => HookTypes'
         /\ UNCHANGED req => ReqTypes'
BY DEF TypeInv, ClockTypes, WakeTypes, LogTypes, GateTypes, HookTypes, ReqTypes

\* The steps of requests, by what they are about.
Wakes(p) == Mention(p) \/ Debounce(p) \/ Post(p) \/ LogDispatch(p) \/ CommitRow(p) \/ RemoveWakeup(p)
Gates(p) == RegisterWakeup(p) \/ AskBlocked(p) \/ Verify(p)
Hooks(p) == (\E d \in Deliveries : Deliver(p, d)) \/ Route(p) \/ DispatchWakeup(p)

\* The entries of a page are those that come first.
LEMMA FirstComes ==
  ASSUME NEW due \in SUBSET Nat, IsFiniteSet(due), NEW x \in FirstOf(due), NEW y \in due \ FirstOf(due)
  PROVE  x < y
<1> DEFINE Below(r) == {s \in due : s < r}
<1> SUFFICES ASSUME ~(x < y) PROVE FALSE
  OBVIOUS
<1>1. x \in Nat /\ y \in Nat /\ x \in due /\ y \in due
  BY DEF FirstOf
<1>2. Below(y) \subseteq Below(x) /\ Below(x) \subseteq due
  <2>1. ASSUME NEW s \in due, s < y PROVE s < x
    <3>1. s \in Nat
      OBVIOUS
    <3> QED BY <1>1, <2>1, <3>1
  <2> QED BY <2>1
<1>3. Cardinality(Below(x)) < PageLimit /\ ~(Cardinality(Below(y)) < PageLimit)
  BY <1>1 DEF FirstOf
<1> HIDE DEF Below
<1>4. IsFiniteSet(Below(x))
  BY <1>2, FS_Subset
<1>5. /\ IsFiniteSet(Below(y)) /\ Cardinality(Below(y)) =< Cardinality(Below(x))
      /\ Cardinality(Below(x)) \in Nat
  BY <1>2, <1>4, FS_Subset, FS_CardinalityType
<1>6. Cardinality(Below(y)) \in Nat /\ PageLimit \in Nat
  BY <1>5, FS_CardinalityType, Numbers
<1> QED BY <1>3, <1>5, <1>6

\* A page of either store, and what the reader makes of it.
LEMMA PageRead ==
  ASSUME TypeInv, ReadPage
  PROVE  \E page, ahead \in SUBSET rows, c \in Nat :
           /\ page \cup ahead = {r \in rows : r > walk.cursor}
           /\ \A x \in page, y \in ahead : x < y
           /\ walk.more /\ walk'.more = (ahead # {}) /\ walk'.cursor = c
           /\ ahead # {} => \/ store = "memory" /\ c \in page /\ \A x \in page : x =< c
                            \/ store = "postgres" /\ c \in ahead
           /\ walk'.got = walk.got \cup page
           /\ walk'.from = IF walk.cursor = 0 THEN rows ELSE walk.from
           /\ walk'.again <=> (walk.again \/ \E x \in page, y \in walk.got : x =< y)
           /\ UNCHANGED <<rows, serial, store>> /\ LogTypes'
<1> DEFINE due   == {r \in rows : r > walk.cursor}
           page  == FirstOf(due)
           ahead == due \ page
<1>1. /\ rows \in SUBSET (Nat \ {0}) /\ IsFiniteSet(rows) /\ store \in {"memory", "postgres"}
      /\ walk \in [cursor : Nat, more : BOOLEAN, got : SUBSET Nat, from : SUBSET Nat, again : BOOLEAN]
  BY DEF TypeInv, LogTypes, Stores
<1>2. due \in SUBSET Nat /\ due \subseteq rows /\ IsFiniteSet(due)
  BY <1>1, FS_Subset
<1>3. page \subseteq due /\ page \cup ahead = due /\ ahead \subseteq due
  BY DEF FirstOf
<1>4. \A x \in page, y \in ahead : x < y
  <2> HIDE DEF due
  <2> QED BY <1>2, FirstComes
<1>5. /\ walk.more /\ UNCHANGED <<rows, serial, store>>
      /\ \E c \in IF ahead = {} THEN {0} ELSE Bookmarks(page, ahead) :
           walk' = [cursor |-> c, more |-> ahead # {}, got |-> walk.got \cup page,
                    from   |-> IF walk.cursor = 0 THEN rows ELSE walk.from,
                    again  |-> walk.again \/ \E r \in page, s \in walk.got : r =< s]
  BY DEF ReadPage
<1> HIDE DEF page, ahead
<1>6. PICK c \in IF ahead = {} THEN {0} ELSE Bookmarks(page, ahead) :
           walk' = [cursor |-> c, more |-> ahead # {}, got |-> walk.got \cup page,
                    from   |-> IF walk.cursor = 0 THEN rows ELSE walk.from,
                    again  |-> walk.again \/ \E r \in page, s \in walk.got : r =< s]
  BY <1>5
<1>7. ahead # {} => \/ store = "memory" /\ c \in page /\ \A x \in page : x =< c
                    \/ store = "postgres" /\ c \in ahead
  BY <1>1, <1>6 DEF Bookmarks
<1>8. c \in Nat
  BY <1>1, <1>2, <1>3, <1>6, <1>7
<1>9. walk' \in [cursor : Nat, more : BOOLEAN, got : SUBSET Nat, from : SUBSET Nat, again : BOOLEAN]
  BY <1>1, <1>2, <1>3, <1>6, <1>8
<1>10. LogTypes'
  BY <1>5, <1>9 DEF LogTypes, TypeInv
<1>11. /\ walk'.cursor = c /\ walk'.more = (ahead # {}) /\ walk'.got = walk.got \cup page
       /\ walk'.from = IF walk.cursor = 0 THEN rows ELSE walk.from
       /\ walk'.again <=> (walk.again \/ \E x \in page, y \in walk.got : x =< y)
  BY <1>6
<1>12. page \in SUBSET rows /\ ahead \in SUBSET rows
  BY <1>2, <1>3
<1> QED BY <1>3, <1>4, <1>5, <1>7, <1>8, <1>10, <1>11, <1>12

\* What a step of a request makes of it, told by where it then stands.
LEMMA Moves ==
  ASSUME TypeInv, NEW p \in Procs, Wakes(p) \/ Gates(p) \/ Hooks(p)
  PROVE  /\ \A q \in Procs : q # p => req'[q] = req[q]
         /\ \/ req'[p] = req[p]
            \/ req'[p] = Resting
            \/ Wakes(p) /\ req'[p].step \in {"log", "debounce", "insert"}
            \/ Debounce(p) /\ req'[p].step = "post"
            \/ AskBlocked(p) /\ req'[p].step = "verify"
            \/ Hooks(p) /\ req'[p].step \in {"route", "dispatch"}
<1>1. ASSUME NEW r, req' = [req EXCEPT ![p] = r]
      PROVE  req'[p] = r /\ \A q \in Procs : q # p => req'[q] = req[q]
  BY <1>1, Becomes
<1>2. CASE Mention(p) \/ Post(p)
  <2>1. CASE Post(p)
    BY <1>1, <2>1 DEF Post, Goto, Wakes
  <2>2. CASE Mention(p) /\ online
    BY <1>1, <2>2 DEF Mention, Begin, Wakes
  <2>3. CASE Mention(p) /\ ~online
    BY <1>1, <2>3 DEF Mention, Begin, Wakes
  <2> QED BY <1>2, <2>1, <2>2, <2>3
<1>3. CASE Debounce(p)
  BY <1>1, <1>3 DEF Debounce, Goto, Wakes
<1>4. CASE CommitRow(p) \/ RemoveWakeup(p) \/ RegisterWakeup(p) \/ Verify(p) \/ DispatchWakeup(p)
  BY <1>1, <1>4 DEF CommitRow, RemoveWakeup, RegisterWakeup, Verify, DispatchWakeup, Done, BeginAndEnd
<1>8. CASE LogDispatch(p)
  BY <1>1, <1>8 DEF LogDispatch, Done, Goto, Wakes
<1>5. CASE AskBlocked(p)
  BY <1>1, <1>5 DEF AskBlocked, Begin
<1>6. ASSUME NEW d \in Deliveries, Deliver(p, d)
      PROVE  /\ \A q \in Procs : q # p => req'[q] = req[q]
             /\ req'[p] = req[p] \/ req'[p].step = "route"
  BY <1>1, <1>6 DEF Deliver, Begin, BeginAndEnd
<1>7. CASE Route(p)
  <2> DEFINE r == [req[p] EXCEPT !.step = "dispatch"]
  <2>1. r.step = "dispatch"
    BY <1>7, Request DEF Route
  <2> HIDE DEF r
  <2>2. req' = [req EXCEPT ![p] = Resting] \/ req' = [req EXCEPT ![p] = r]
    BY <1>7 DEF Route, Done, Goto, r
  <2> QED BY <1>1, <1>7, <2>1, <2>2 DEF Hooks
<1> QED BY <1>2, <1>3, <1>4, <1>5, <1>6, <1>7, <1>8 DEF Wakes, Gates, Hooks

\* Every step keeps the types.
LEMMA StepTyped == TypeInv /\ [Next]_vars => TypeInv'
<1> SUFFICES ASSUME TypeInv, [Next]_vars PROVE TypeInv'
  OBVIOUS
<1> USE DEF wakeVars, logVars, gateVars, hookVars
<1>1. CASE UNCHANGED vars
  BY <1>1, Untouched DEF vars, TypeInv
<1>2. CASE Tick
  <2>1. now \in Nat /\ now' \in Times /\ 0 .. now \subseteq 0 .. now'
    BY <1>2, Numbers DEF Tick, TypeInv, ClockTypes, Times
  <2>2. ClockTypes' /\ LogTypes' /\ ReqTypes'
    BY <1>2, <2>1, Untouched DEF Tick, TypeInv, ClockTypes
  <2>3. WakeTypes'
    BY <1>2, <2>1 DEF Tick, TypeInv, WakeTypes
  <2>4. GateTypes' /\ HookTypes'
    BY <1>2, <2>1 DEF Tick, TypeInv, GateTypes, HookTypes
  <2> QED BY <2>2, <2>3, <2>4 DEF TypeInv
<1>3. CASE ComeAndGo
  BY <1>3, Untouched DEF ComeAndGo, TypeInv, ClockTypes
<1>4. CASE Restart
  <2>1. ReqTypes' /\ WakeTypes'
    BY <1>4 DEF Restart, AllRest, ReqTypes, Reqs, TypeInv, WakeTypes
  <2>2. GateTypes' /\ HookTypes'
    BY <1>4 DEF Restart, GateTypes, HookTypes, NoWindow, NoFails, Unseen
  <2>3. LogTypes'
    <3>1. CASE store = "memory"
      <4>1. rows' = {} /\ serial' = 0 /\ walk' = NewWalk /\ store' = store
        BY <1>4, <3>1 DEF Restart
      <4>2. NewWalk \in [cursor : Nat, more : BOOLEAN, got : SUBSET Nat, from : SUBSET Nat, again : BOOLEAN]
        BY DEF NewWalk
      <4>3. IsFiniteSet({}) /\ store \in Stores
        BY FS_EmptySet DEF TypeInv, LogTypes
      <4> QED BY <4>1, <4>2, <4>3 DEF LogTypes
    <3>2. CASE store # "memory"
      BY <1>4, <3>2, Untouched DEF Restart
    <3> QED BY <3>1, <3>2
  <2> QED BY <1>4, <2>1, <2>2, <2>3, Untouched DEF Restart, TypeInv
<1>5. CASE ReadPage
  BY <1>5, PageRead, Untouched DEF ReadPage, TypeInv
<1>6. ASSUME NEW t \in timers, GraceOver(t) PROVE TypeInv'
  <2>1. [of |-> t.of, at |-> t.at] \in Claims
    BY DEF TypeInv, HookTypes, Claims
  <2>2. HookTypes'
    BY <1>6, <2>1, SMTT(30) DEF GraceOver, Started, TypeInv, HookTypes
  <2> QED BY <1>6, <2>2, Untouched DEF GraceOver, TypeInv
<1>7. ASSUME NEW p \in Procs, Wakes(p) PROVE TypeInv'
  <2>1. UNCHANGED <<now, online, store, walk, window, fails, seen, timers, jobs>>
    BY <1>7 DEF Wakes, Mention, Debounce, Post, LogDispatch, CommitRow, RemoveWakeup
  <2>2. ReqTypes'
    <3>1. PICK r : req' = [req EXCEPT ![p] = r] /\ r \in Reqs
      <4>1. CASE LogDispatch(p)
        <5>1. PICK n \in 1 .. Gap + 1 : Done(p) \/ Goto(p, [step |-> "insert", row |-> serial + n])
          <6>1. 1 \in 1 .. Gap + 1
            BY Numbers
          <6> QED BY <4>1, <6>1 DEF LogDispatch
        <5>2. serial + n \in Nat \ {0}
          BY Numbers DEF TypeInv, LogTypes
        <5>3. [step |-> "insert", row |-> serial + n] \in Reqs /\ Resting \in Reqs
          BY <5>2 DEF Reqs
        <5> QED BY <5>1, <5>3 DEF Done, Goto
      <4>2. CASE ~LogDispatch(p)
        BY <1>7, <4>2, Request, Numbers DEF Wakes, Mention, Debounce, Post, CommitRow, RemoveWakeup,
           Begin, BeginAndEnd, Goto, Done, Reqs, TypeInv, WakeTypes, ClockTypes, ReqTypes
      <4> QED BY <4>1, <4>2
    <3> QED BY <3>1, Becomes
  <2>3. WakeTypes'
    <3>1. CASE Mention(p) \/ LogDispatch(p) \/ CommitRow(p)
      BY <3>1, Untouched DEF Mention, LogDispatch, CommitRow
    <3>2. CASE RemoveWakeup(p)
      BY <3>2 DEF RemoveWakeup, TypeInv, WakeTypes
    <3>3. CASE Debounce(p)
      <4>1. now \in 0 .. now
        BY DEF TypeInv, ClockTypes, Times
      <4> QED BY <3>3, <4>1 DEF Debounce, Stamped, TypeInv, WakeTypes
    <3>4. CASE Post(p)
      <4>1. [for |-> req[p].for, at |-> req[p].at, called |-> now] \in [for : Debounces, at : Times, called : Times]
        BY <3>4, Request DEF Post, TypeInv, ClockTypes
      <4> QED BY <3>4, <4>1 DEF Post, TypeInv, WakeTypes
    <3> QED BY <1>7, <3>1, <3>2, <3>3, <3>4 DEF Wakes
  <2>4. LogTypes'
    <3>1. rows \in SUBSET (Nat \ {0}) /\ IsFiniteSet(rows) /\ serial \in Nat
      BY DEF TypeInv, LogTypes
    <3>2. CASE LogDispatch(p)
      <4>1. /\ rows' = rows \/ rows' = rows \cup {serial + 1}
            /\ \E n \in 1 .. Gap + 1 : serial' = serial + n
        <5>1. 1 \in 1 .. Gap + 1
          BY Numbers
        <5> QED BY <3>2, <5>1 DEF LogDispatch
      <4>2. serial' \in Nat /\ serial + 1 \in Nat \ {0}
        BY <3>1, <4>1, Numbers
      <4>3. rows' \in SUBSET (Nat \ {0}) /\ IsFiniteSet(rows')
        BY <3>1, <4>1, <4>2, FS_AddElement
      <4> QED BY <2>1, <4>2, <4>3 DEF TypeInv, LogTypes
    <3>3. CASE CommitRow(p)
      <4>1. rows' \in {rows, rows \cup {req[p].row}} /\ req[p].row \in Nat \ {0} /\ serial' = serial
        BY <3>3, Request DEF CommitRow
      <4>2. rows' \in SUBSET (Nat \ {0})
        BY <3>1, <4>1
      <4>3. IsFiniteSet(rows \cup {req[p].row})
        BY <3>1, FS_AddElement
      <4>4. IsFiniteSet(rows')
        BY <3>1, <4>1, <4>3
      <4> QED BY <2>1, <3>1, <4>1, <4>2, <4>4 DEF TypeInv, LogTypes
    <3>4. CASE ~LogDispatch(p) /\ ~CommitRow(p)
      BY <1>7, <3>4, Untouched DEF Wakes, Mention, Debounce, Post, RemoveWakeup
    <3> QED BY <3>2, <3>3, <3>4
  <2> QED BY <2>1, <2>2, <2>3, <2>4, Untouched DEF TypeInv
<1>8. ASSUME NEW p \in Procs, Gates(p) PROVE TypeInv'
  <2>1. UNCHANGED <<now, online, last, posts, rows, serial, store, walk, seen, timers, jobs>>
    BY <1>8 DEF Gates, RegisterWakeup, AskBlocked, Verify
  <2>2. ReqTypes'
    <3>1. PICK r : req' = [req EXCEPT ![p] = r] /\ r \in Reqs
      BY <1>8 DEF Gates, RegisterWakeup, AskBlocked, Verify,
         Begin, BeginAndEnd, Done, Reqs, TypeInv, ReqTypes
    <3> QED BY <3>1, Becomes
  <2>3. WakeTypes'
    BY <1>8, <2>1 DEF Gates, RegisterWakeup, AskBlocked, Verify, Upserted, TypeInv, WakeTypes
  <2>4. GateTypes'
    <3>1. CASE RegisterWakeup(p)
      <4>1. now \in Times /\ now \in 0 .. now
        BY DEF TypeInv, ClockTypes, Times
      <4>2. window' \in [start : (0 .. now) \cup {Never}, count : Nat]
        BY <3>1, <4>1 DEF RegisterWakeup, Allow, TypeInv, GateTypes
      <4> QED BY <3>1, <4>2 DEF RegisterWakeup, TypeInv, GateTypes
    <3>2. CASE AskBlocked(p) \/ Verify(p)
      <4>1. fails' \in [count : Nat, last : Nat]
        BY <3>2 DEF AskBlocked, Verify, TypeInv, GateTypes, ClockTypes, Times
      <4> QED BY <3>2, <4>1 DEF AskBlocked, Verify, TypeInv, GateTypes
    <3> QED BY <1>8, <3>1, <3>2 DEF Gates
  <2> QED BY <2>1, <2>2, <2>3, <2>4, Untouched DEF TypeInv
<1>9. ASSUME NEW p \in Procs, Hooks(p) PROVE TypeInv'
  <2>1. UNCHANGED <<now, online, reg, last, posts, rows, serial, store, walk, window, fails>>
    BY <1>9 DEF Hooks, Deliver, Route, DispatchWakeup
  <2>2. ReqTypes'
    <3>1. PICK r : req' = [req EXCEPT ![p] = r] /\ r \in Reqs
      BY <1>9, Request DEF Hooks, Deliver, Route, DispatchWakeup,
         Begin, BeginAndEnd, Goto, Done, Reqs, TypeInv, ReqTypes, ClockTypes
    <3> QED BY <3>1, Becomes
  <2>3. HookTypes'
    <3>1. ASSUME NEW d \in Deliveries, Deliver(p, d) PROVE HookTypes'
      <4>1. now \in 0 .. now
        BY DEF TypeInv, ClockTypes, Times
      <4>2. seen' \in [Deliveries -> (0 .. now) \cup {Never}]
        BY <3>1, <4>1 DEF Deliver, Recorded, TypeInv, HookTypes
      <4> QED BY <3>1, <4>2 DEF Deliver, TypeInv, HookTypes
    <3>2. CASE Route(p)
      <4>1. now + Grace \in Nat
        BY Numbers DEF TypeInv, ClockTypes, Times
      <4>2. timers' \subseteq [of : Deliveries, at : Times, due : Nat]
        BY <3>2, <4>1, Request DEF Route, TypeInv, HookTypes
      <4> QED BY <3>2, <4>2 DEF Route, TypeInv, HookTypes
    <3>3. CASE DispatchWakeup(p)
      <4>1. [of |-> req[p].of, at |-> req[p].at] \in Claims
        BY <3>3, Request DEF DispatchWakeup, Claims
      <4>2. jobs' = jobs \/ jobs' = Append(jobs, [of |-> req[p].of, at |-> req[p].at])
        BY <3>3 DEF DispatchWakeup, Started
      <4>3. jobs' \in Seq(Claims)
        BY <4>1, <4>2 DEF TypeInv, HookTypes
      <4> QED BY <3>3, <4>3 DEF DispatchWakeup, TypeInv, HookTypes
    <3> QED BY <1>9, <3>1, <3>2, <3>3 DEF Hooks
  <2> QED BY <2>1, <2>2, <2>3, Untouched DEF TypeInv
<1> QED BY <1>1, <1>2, <1>3, <1>4, <1>5, <1>6, <1>7, <1>8, <1>9 DEF Next, Wakes, Gates, Hooks

-----------------------------------------------------------------------------
(* Wake-ups.                                                               *)

\* A call that was decided is stamped no later than the dispatcher's stamp.
Past(s) == last # Never /\ s.at =< last

\* Of two calls the later waited for its window.
Apart(a, b) ==
  /\ a.at =< b.at => b.at - a.at >= b.for
  /\ b.at =< a.at => a.at - b.at >= a.for

\* The calls made, those decided and not yet made, and any two of them.
WakeHolds ==
  /\ \A i \in DOMAIN posts : Past(posts[i]) /\ posts[i].at =< posts[i].called
  /\ \A p \in Procs : At(p, "post") => Past(req[p]) /\ \A i \in DOMAIN posts : Apart(posts[i], req[p])
  /\ \A p, q \in Procs : (p # q /\ At(p, "post") /\ At(q, "post")) => Apart(req[p], req[q])
  /\ \A i, j \in DOMAIN posts : i # j => Apart(posts[i], posts[j])

\* What is not a wake-up leaves the decided calls as they are.
LEMMA PostsStay ==
  ASSUME TypeInv, [Next]_vars, \A p \in Procs : ~Wakes(p), ~Restart
  PROVE  /\ posts' = posts /\ last' = last
         /\ \A p \in Procs : At(p, "post")' => At(p, "post") /\ req'[p] = req[p]
<1> USE DEF wakeVars, logVars, gateVars, hookVars
<1>1. CASE UNCHANGED vars \/ Tick \/ ComeAndGo \/ ReadPage \/ \E t \in timers : GraceOver(t)
  BY <1>1 DEF vars, Tick, ComeAndGo, ReadPage, GraceOver, At
<1>2. ASSUME NEW p \in Procs, Gates(p) \/ Hooks(p)
      PROVE  /\ posts' = posts /\ last' = last
             /\ \A q \in Procs : At(q, "post")' => At(q, "post") /\ req'[q] = req[q]
  <2>1. posts' = posts /\ last' = last
    BY <1>2 DEF Gates, Hooks, RegisterWakeup, AskBlocked, Verify, Deliver, Route, DispatchWakeup
  <2>2. \A q \in Procs : At(q, "post")' => At(q, "post") /\ req'[q] = req[q]
    BY <1>2, Moves DEF At, Resting, Wakes
  <2> QED BY <2>1, <2>2
<1> QED BY <1>1, <1>2 DEF Next, Wakes, Gates, Hooks

\* No agent was called at the start.
LEMMA InitWakes == Init => WakeHolds
BY DEF Init, WakeHolds, AllRest, Resting, At

\* Every step keeps the stamps of the calls.
LEMMA StepWakes == TypeInv /\ WakeHolds /\ [Next]_vars => WakeHolds'
<1> SUFFICES ASSUME TypeInv, WakeHolds, [Next]_vars PROVE WakeHolds'
  OBVIOUS
<1>1. CASE Restart
  BY <1>1 DEF Restart, WakeHolds, AllRest, Resting, At
<1>2. CASE ~Restart /\ \A p \in Procs : ~Wakes(p)
  BY <1>2, PostsStay DEF WakeHolds, Past, Apart
<1>3. ASSUME NEW p \in Procs, Mention(p) \/ LogDispatch(p) \/ CommitRow(p) \/ RemoveWakeup(p) PROVE WakeHolds'
  <2>1. posts' = posts /\ last' = last
    BY <1>3 DEF Mention, LogDispatch, CommitRow, RemoveWakeup, wakeVars
  <2>2. ~Debounce(p)
    BY <1>3, Request DEF Mention, LogDispatch, CommitRow, RemoveWakeup, Debounce, Begin, BeginAndEnd, At
  <2>3. \A q \in Procs : At(q, "post")' => At(q, "post") /\ req'[q] = req[q]
    BY <1>3, <2>2, Moves DEF At, Wakes, Resting
  <2> QED BY <2>1, <2>3 DEF WakeHolds, Past, Apart
<1>4. ASSUME NEW p \in Procs, Debounce(p) PROVE WakeHolds'
  <2> DEFINE r == [step |-> "post", for |-> req[p].for, at |-> now]
  <2>1. CASE req' = [req EXCEPT ![p] = [step |-> "log"]] /\ last' = last
    <3>1. \A q \in Procs : At(q, "post")' => At(q, "post") /\ req'[q] = req[q]
      BY <2>1, Becomes DEF At
    <3> QED BY <1>4, <2>1, <3>1 DEF Debounce, WakeHolds, Past, Apart
  <2>2. CASE /\ req' = [req EXCEPT ![p] = r] /\ last' = now
             /\ last = Never \/ now - last >= req[p].for
    <3>1. /\ req[p].for \in Nat /\ req[p].for > 0 /\ now \in Times /\ now \in Nat /\ now # Never
          /\ posts' = posts /\ (last # Never => last \in 0 .. now)
      <4>1. req[p].for \in Debounces /\ posts' = posts
        BY <1>4, Request DEF Debounce
      <4>2. now \in Times /\ last \in (0 .. now) \cup {Never}
        BY DEF TypeInv, ClockTypes, WakeTypes
      <4> QED BY <4>1, <4>2, Numbers DEF Times
    <3>2. /\ req'[p] = r /\ r.at = now /\ r.for = req[p].for
          /\ \A q \in Procs : q # p => req'[q] = req[q]
      BY <2>2, Becomes
    <3> HIDE DEF r
    <3>3. \A i \in DOMAIN posts : posts[i].at \in Nat /\ posts[i].for \in Nat
      <4>1. \A i \in DOMAIN posts : posts[i] \in [for : Debounces, at : Times, called : Times]
        <5> DEFINE S == [for : Debounces, at : Times, called : Times]
        <5>1. posts \in Seq(S)
          BY DEF TypeInv, WakeTypes
        <5> HIDE DEF S
        <5>2. \A i \in DOMAIN posts : posts[i] \in S
          BY <5>1
        <5> QED BY <5>2 DEF S
      <4> QED BY <4>1, Numbers DEF Times
    <3>4. \A q \in Procs : At(q, "post") => req[q].at \in Nat /\ req[q].for \in Nat
      BY Request, Numbers DEF Times
    <3>5. \A i \in DOMAIN posts : Past(posts[i])' /\ Apart(posts[i], r) /\ posts[i].at =< posts[i].called
      BY <2>2, <3>1, <3>2, <3>3 DEF WakeHolds, Past, Apart
    <3>6. \A q \in Procs : (q # p /\ At(q, "post")) => /\ Past(req[q])'
                                                       /\ Apart(req[q], r) /\ Apart(r, req[q])
      BY <2>2, <3>1, <3>2, <3>4 DEF WakeHolds, Past, Apart
    <3>7. Past(req[p])'
      BY <2>2, <3>1, <3>2 DEF Past
    <3> QED BY <3>1, <3>2, <3>5, <3>6, <3>7 DEF WakeHolds, At, Past, Apart
  <2>3. req[p].for \in Nat /\ now \in Nat /\ (last # Never => last \in Nat)
    BY <1>4, Request, Numbers DEF Debounce, TypeInv, ClockTypes, WakeTypes, Times
  <2>4. CASE last # Never /\ now - last < req[p].for
    BY <1>4, <2>1, <2>4 DEF Debounce, Goto
  <2>5. CASE ~(last # Never /\ now - last < req[p].for)
    BY <1>4, <2>2, <2>3, <2>5 DEF Debounce, Goto, Stamped
  <2> QED BY <2>4, <2>5
<1>5. ASSUME NEW p \in Procs, Post(p) PROVE WakeHolds'
  <2> DEFINE s == [for |-> req[p].for, at |-> req[p].at, called |-> now]
             n == Len(posts) + 1
  <2>1. /\ posts' = Append(posts, s) /\ last' = last /\ At(p, "post")
        /\ req' = [req EXCEPT ![p] = [step |-> "log"]]
    BY <1>5 DEF Post, Goto
  <2>2. \A q \in Procs : At(q, "post")' => q # p /\ At(q, "post") /\ req'[q] = req[q]
    <3>1. /\ req'[p] = [step |-> "log"]
          /\ \A q \in Procs : q # p => req'[q] = req[q]
      BY <2>1, Becomes
    <3> QED BY <3>1 DEF At
  <2>3. /\ DOMAIN posts = 1 .. Len(posts) /\ Len(posts) \in Nat
        /\ DOMAIN posts' = 1 .. n /\ posts'[n] = s
        /\ \A i \in DOMAIN posts : posts'[i] = posts[i]
    BY <2>1 DEF TypeInv, WakeTypes
  <2>4. /\ Past(s) /\ s.at =< s.called /\ \A i \in DOMAIN posts : Apart(posts[i], s) /\ Apart(s, posts[i])
        /\ \A q \in Procs : (q # p /\ At(q, "post")) => Apart(s, req[q])
    <3>1. s.at = req[p].at /\ s.for = req[p].for /\ s.called = now
      OBVIOUS
    <3> HIDE DEF s
    <3>2. Past(s)
      BY <2>1, <3>1 DEF WakeHolds, Past
    <3>5. s.at =< s.called
      <4>1. last \in (0 .. now) \cup {Never} /\ now \in Times /\ s.at \in Times
        BY <2>1, <3>1, Request DEF TypeInv, ClockTypes, WakeTypes
      <4> QED BY <3>1, <3>2, <4>1, Numbers DEF Past, Times
    <3>3. \A i \in DOMAIN posts : Apart(posts[i], s) /\ Apart(s, posts[i])
      BY <2>1, <3>1 DEF WakeHolds, Apart
    <3>4. \A q \in Procs : (q # p /\ At(q, "post")) => Apart(s, req[q])
      BY <2>1, <3>1 DEF WakeHolds, Apart
    <3> QED BY <3>2, <3>3, <3>4, <3>5
  <2> HIDE DEF s
  <2>5. \A i \in DOMAIN posts' : i = n \/ (i \in DOMAIN posts /\ posts'[i] = posts[i])
    BY <2>3
  <2>6. \A i \in DOMAIN posts' : Past(posts'[i]) /\ posts'[i].at =< posts'[i].called
    BY <2>3, <2>4, <2>5 DEF WakeHolds
  <2>7. \A i, j \in DOMAIN posts' : i # j => Apart(posts'[i], posts'[j])
    BY <2>3, <2>4, <2>5 DEF WakeHolds
  <2>8. \A q \in Procs : At(q, "post")' => Past(req'[q]) /\ \A i \in DOMAIN posts' : Apart(posts'[i], req'[q])
    BY <2>2, <2>3, <2>4, <2>5 DEF WakeHolds
  <2> HIDE DEF n
  <2> QED BY <2>1, <2>2, <2>6, <2>7, <2>8 DEF WakeHolds, Past, Apart
<1> QED BY <1>1, <1>2, <1>3, <1>4, <1>5 DEF Wakes

\* Two calls of a webhook are decided a debounce window apart, and the later one is
\* made that long after the earlier was decided, for any windows, changes of the
\* registration and mentions that race, and whether the calls succeed or not.
THEOREM CalledOncePerWindow == Spec => []OncePerWindow
<1>1. Init => TypeInv /\ WakeHolds
  BY InitTyped, InitWakes
<1>2. TypeInv /\ WakeHolds /\ [Next]_vars => (TypeInv /\ WakeHolds)'
  BY StepTyped, StepWakes
<1>3. TypeInv /\ WakeHolds => OncePerWindow
  <2> SUFFICES ASSUME TypeInv, WakeHolds, NEW i \in DOMAIN posts, NEW j \in DOMAIN posts,
                      i # j, posts[i].at =< posts[j].at
               PROVE  /\ posts[j].at - posts[i].at >= posts[j].for
                      /\ posts[j].called - posts[i].at >= posts[j].for
    BY DEF OncePerWindow
  <2> DEFINE S == [for : Debounces, at : Times, called : Times]
  <2>1. posts \in Seq(S)
    BY DEF TypeInv, WakeTypes
  <2> HIDE DEF S
  <2>2. posts[i] \in S /\ posts[j] \in S
    BY <2>1
  <2>3. posts[i].at \in Nat /\ posts[j].at \in Nat /\ posts[j].called \in Nat /\ posts[j].for \in Nat
    BY <2>2, Numbers DEF S, Times
  <2>4. posts[j].at - posts[i].at >= posts[j].for /\ posts[j].at =< posts[j].called
    BY DEF WakeHolds, Apart
  <2> QED BY <2>3, <2>4
<1> QED BY <1>1, <1>2, <1>3, PTL DEF Spec

-----------------------------------------------------------------------------
(* The join throttle.                                                      *)

\* The joins that have asked and not verified.
Asking == {p \in Procs : At(p, "verify")}

\* Every join that is past the question may fail once more.
TriesHold == fails.count + Cardinality(Asking) =< MaxFailures - 1 + Cardinality(Procs)

\* Sets of requests can be counted.
LEMMA Counting ==
  ASSUME NEW P \in SUBSET Procs, NEW Q \in SUBSET Procs
  PROVE  /\ IsFiniteSet(P) /\ Cardinality(P) \in Nat /\ Cardinality(Procs) \in Nat
         /\ Cardinality(P) =< Cardinality(Procs)
         /\ P \subseteq Q => Cardinality(P) =< Cardinality(Q)
         /\ \A p \in Q : P = Q \ {p} => Cardinality(P) = Cardinality(Q) - 1
<1>1. IsFiniteSet(P) /\ IsFiniteSet(Q) /\ Cardinality(P) \in Nat /\ Cardinality(P) =< Cardinality(Procs)
  BY FS_Subset, FS_CardinalityType, IngressAssumption
<1>2. Cardinality(Procs) \in Nat /\ Cardinality(Q) \in Nat
  BY <1>1, FS_CardinalityType, IngressAssumption
<1>3. P \subseteq Q => Cardinality(P) =< Cardinality(Q)
  BY <1>1, FS_Subset
<1>4. ASSUME NEW p \in Q, P = Q \ {p} PROVE Cardinality(P) = Cardinality(Q) - 1
  BY <1>1, <1>4, FS_RemoveElement
<1> QED BY <1>1, <1>2, <1>3, <1>4

\* No failure was counted at the start.
LEMMA InitGates == Init => TriesHold
<1> SUFFICES ASSUME Init PROVE TriesHold
  OBVIOUS
<1>1. Asking = {}
  BY DEF Init, Asking, At, AllRest, Resting
<1>2. fails.count = 0 /\ Cardinality({}) = 0
  BY FS_EmptySet DEF Init, NoFails
<1> QED BY <1>1, <1>2, Counting, Numbers DEF TriesHold

\* Every step keeps the count of failures.
LEMMA StepGates == TypeInv /\ TriesHold /\ [Next]_vars => TriesHold'
<1> SUFFICES ASSUME TypeInv, TriesHold, [Next]_vars PROVE TriesHold'
  OBVIOUS
<1> USE DEF wakeVars, logVars, gateVars, hookVars
<1>1. CASE UNCHANGED vars \/ Tick \/ ComeAndGo \/ ReadPage \/ \E t \in timers : GraceOver(t)
  BY <1>1 DEF vars, Tick, ComeAndGo, ReadPage, GraceOver, TriesHold, Asking, At
<1>2. CASE Restart
  <2>1. Asking' = {}
    BY <1>2 DEF Restart, Asking, At, AllRest, Resting
  <2>2. fails'.count = 0 /\ Cardinality({}) = 0
    BY <1>2, FS_EmptySet DEF Restart, NoFails
  <2> QED BY <2>1, <2>2, Counting, Numbers DEF TriesHold
<1>3. ASSUME NEW p \in Procs, Wakes(p) \/ Gates(p) \/ Hooks(p) PROVE TriesHold'
  <2>1. Asking \subseteq Procs /\ Asking' \subseteq Procs /\ fails.count \in Nat /\ MaxFailures \in Nat
    BY Numbers DEF Asking, TypeInv, GateTypes
  <2>2. CASE AskBlocked(p)
    <3>1. fails'.count \in Nat /\ fails'.count =< MaxFailures - 1
      BY <2>1, <2>2, Numbers DEF AskBlocked, TooMany, TypeInv, GateTypes
    <3>2. Cardinality(Asking') =< Cardinality(Procs) /\ Cardinality(Asking') \in Nat /\ Cardinality(Procs) \in Nat
      BY <2>1, Counting
    <3> QED BY <2>1, <3>1, <3>2 DEF TriesHold
  <2>3. CASE Verify(p)
    <3>1. p \in Asking /\ Asking' = Asking \ {p}
      <4>1. /\ At(p, "verify") /\ req'[p] = Resting
            /\ \A q \in Procs : q # p => req'[q] = req[q]
        BY <2>3, Becomes DEF Verify, Done
      <4> QED BY <4>1 DEF Asking, At, Resting
    <3>2. Cardinality(Asking') = Cardinality(Asking) - 1 /\ Cardinality(Asking) \in Nat /\ Cardinality(Procs) \in Nat
      BY <2>1, <3>1, Counting
    <3>3. fails'.count \in Nat /\ fails'.count =< fails.count + 1
      BY <2>1, <2>3 DEF Verify
    <3> QED BY <2>1, <3>2, <3>3 DEF TriesHold
  <2>4. CASE ~AskBlocked(p) /\ ~Verify(p)
    <3>1. fails' = fails
      BY <1>3, <2>4 DEF Wakes, Gates, Hooks, Mention, Debounce, Post, LogDispatch, CommitRow, RemoveWakeup,
         RegisterWakeup, Deliver, Route, DispatchWakeup
    <3>2. Asking' \subseteq Asking
      BY <1>3, <2>4, Moves DEF Asking, At, Resting
    <3>3. Cardinality(Asking') =< Cardinality(Asking) /\ Cardinality(Asking) \in Nat
          /\ Cardinality(Asking') \in Nat /\ Cardinality(Procs) \in Nat
      BY <2>1, <3>2, Counting
    <3> QED BY <2>1, <3>1, <3>3 DEF TriesHold
  <2> QED BY <2>2, <2>3, <2>4
<1> QED BY <1>1, <1>2, <1>3 DEF Next, Wakes, Gates, Hooks

\* A lockout is overrun by no more failures than there are other joins under way, for
\* any limit, lockout and number of joins.
THEOREM LimitsHold == Spec => []TriesBounded
<1>1. Init => TypeInv /\ TriesHold
  BY InitTyped, InitGates
<1>2. TypeInv /\ TriesHold /\ [Next]_vars => (TypeInv /\ TriesHold)'
  BY StepTyped, StepGates
<1>3. TypeInv /\ TriesHold => TriesBounded
  <2> SUFFICES ASSUME TypeInv, TriesHold PROVE TriesBounded
    OBVIOUS
  <2>1. Cardinality(Asking) \in Nat /\ Cardinality(Procs) \in Nat
    BY Counting DEF Asking
  <2>2. fails.count \in Nat /\ MaxFailures \in Nat
    BY Numbers DEF TypeInv, GateTypes
  <2> QED BY <2>1, <2>2 DEF TriesHold, TriesBounded
<1> QED BY <1>1, <1>2, <1>3, PTL DEF Spec

-----------------------------------------------------------------------------
(* The log.                                                                *)

\* What was met lies before the cursor; on the memory store everything of the start
\* that lies before it was met.
WalkHolds ==
  /\ ~walk.again
  /\ walk.more => \A r \in walk.got : r =< walk.cursor
  /\ store = "memory" =>
       /\ walk.from \subseteq rows
       /\ walk.more => \A r \in walk.from : r =< walk.cursor => r \in walk.got
       /\ ~walk.more => walk.from \subseteq walk.got

\* No log is read at the start.
LEMMA InitWalk == Init => WalkHolds
BY DEF Init, NewWalk, WalkHolds

\* The entries of a page follow those met before.
LEMMA PageAdds ==
  ASSUME TypeInv, WalkHolds, ReadPage
  PROVE  WalkHolds'
<1>1. PICK page \in SUBSET rows, ahead \in SUBSET rows, c \in Nat :
           /\ page \cup ahead = {r \in rows : r > walk.cursor}
           /\ \A x \in page, y \in ahead : x < y
           /\ walk.more /\ walk'.more = (ahead # {}) /\ walk'.cursor = c
           /\ ahead # {} => \/ store = "memory" /\ c \in page /\ \A x \in page : x =< c
                            \/ store = "postgres" /\ c \in ahead
           /\ walk'.got = walk.got \cup page
           /\ walk'.from = IF walk.cursor = 0 THEN rows ELSE walk.from
           /\ walk'.again <=> (walk.again \/ \E x \in page, y \in walk.got : x =< y)
           /\ UNCHANGED <<rows, serial, store>> /\ LogTypes'
  BY PageRead
<1>2. /\ rows \in SUBSET (Nat \ {0}) /\ walk.cursor \in Nat /\ walk.got \in SUBSET Nat
      /\ walk.from \in SUBSET Nat
  BY DEF TypeInv, LogTypes
<1>3. /\ ~walk.again /\ \A r \in walk.got : r =< walk.cursor
      /\ store = "memory" => /\ walk.from \subseteq rows
                             /\ \A r \in walk.from : r =< walk.cursor => r \in walk.got
  BY <1>1 DEF WalkHolds
<1>4. \A x \in page \cup ahead : x \in Nat /\ walk.cursor < x
  BY <1>1, <1>2
<1>5. ~walk'.again
  BY <1>1, <1>2, <1>3, <1>4
<1>6. walk'.more => \A r \in walk'.got : r =< walk'.cursor
  <2> SUFFICES ASSUME walk'.more, NEW r \in walk'.got PROVE r =< c
    BY <1>1
  <2>1. c \in page \cup ahead /\ r \in Nat
    BY <1>1, <1>2
  <2>2. CASE r \in walk.got
    BY <1>2, <1>3, <1>4, <2>1, <2>2
  <2>3. CASE r \in page
    <3>1. ahead # {}
      BY <1>1
    <3>2. (c \in page /\ \A x \in page : x =< c) \/ c \in ahead
      BY <1>1, <3>1
    <3>3. CASE c \in ahead
      <4>1. r < c
        BY <1>1, <2>3, <3>3
      <4> QED BY <2>1, <4>1
    <3> QED BY <2>3, <3>2, <3>3
  <2> QED BY <1>1, <2>2, <2>3
<1>7. ASSUME store = "memory"
      PROVE  /\ walk'.from \subseteq rows
             /\ walk'.more => \A r \in walk'.from : r =< walk'.cursor => r \in walk'.got
             /\ ~walk'.more => walk'.from \subseteq walk'.got
  <2>1. walk'.from \subseteq rows
    BY <1>1, <1>3, <1>7
  <2>2. \A r \in walk'.from : r =< walk.cursor => r \in walk.got
    <3>1. CASE walk.cursor = 0
      <4>1. \A r \in rows : r \in Nat /\ r # 0 /\ ~(r =< 0)
        BY <1>2
      <4> QED BY <2>1, <3>1, <4>1
    <3>2. CASE walk.cursor # 0
      BY <1>1, <1>3, <1>7, <3>2
    <3> QED BY <3>1, <3>2
  <2>3. \A r \in walk'.from : r \in walk'.got \/ r \in ahead
    <3> SUFFICES ASSUME NEW r \in walk'.from PROVE r \in walk'.got \/ r \in ahead
      OBVIOUS
    <3>1. CASE r =< walk.cursor
      BY <1>1, <2>2, <3>1
    <3>2. CASE ~(r =< walk.cursor)
      <4>1. r \in rows /\ r \in Nat /\ walk.cursor \in Nat
        BY <1>2, <1>7, <2>1
      <4>2. r > walk.cursor
        BY <3>2, <4>1
      <4> QED BY <1>1, <4>1, <4>2
    <3> QED BY <3>1, <3>2
  <2>4. \A y \in ahead : ~(y =< c)
    <3> SUFFICES ASSUME NEW y \in ahead PROVE ~(y =< c)
      OBVIOUS
    <3>1. c < y /\ y \in Nat
      BY <1>1, <1>2, <1>7
    <3> QED BY <3>1
  <2> QED BY <1>1, <2>1, <2>3, <2>4
<1> QED BY <1>1, <1>5, <1>6, <1>7 DEF WalkHolds

\* Every step keeps the walk.
LEMMA StepWalk == TypeInv /\ WalkHolds /\ [Next]_vars => WalkHolds'
<1> SUFFICES ASSUME TypeInv, WalkHolds, [Next]_vars PROVE WalkHolds'
  OBVIOUS
<1> USE DEF wakeVars, logVars, gateVars, hookVars
<1>1. CASE ReadPage
  BY <1>1, PageAdds
<1>2. CASE Restart
  BY <1>2 DEF Restart, NewWalk, WalkHolds
<1>3. CASE ~ReadPage /\ ~Restart
  <2>1. UNCHANGED <<walk, store>> /\ rows \subseteq rows'
    BY <1>3 DEF Next, vars, Tick, ComeAndGo, GraceOver, Mention, Debounce, Post, LogDispatch, CommitRow,
       RegisterWakeup, RemoveWakeup, AskBlocked, Verify, Deliver, Route, DispatchWakeup
  <2> QED BY <2>1 DEF WalkHolds
<1> QED BY <1>1, <1>2, <1>3

\* A walk through the dispatch log meets nothing twice on either store, and misses
\* nothing of the start on the memory store, for any page size, any order of commits,
\* whatever other networks log and whatever is logged meanwhile.
THEOREM WalksNeverRepeat == Spec => []LogWalk
<1>1. Init => TypeInv /\ WalkHolds
  BY InitTyped, InitWalk
<1>2. TypeInv /\ WalkHolds /\ [Next]_vars => (TypeInv /\ WalkHolds)'
  BY StepTyped, StepWalk
<1>3. WalkHolds => LogWalk
  BY DEF WalkHolds, LogWalk
<1> QED BY <1>1, <1>2, <1>3, PTL DEF Spec

-----------------------------------------------------------------------------
(* Deliveries.                                                             *)

\* A claim on a job of a delivery that was let past deliveryCache.Seen is with a
\* request, with a grace window or with the job.
Routed(p) == At(p, "route") \/ At(p, "dispatch")

Known(c)  == seen[c.of] # Never /\ c.at =< seen[c.of]
Far(a, b) == a.of = b.of => a.at - b.at > TTL \/ b.at - a.at > TTL

\* The cache knows every claim, and claims of one delivery are a TTL apart.
ClaimsHold ==
  /\ \A i \in DOMAIN jobs : Known(jobs[i])
  /\ \A t \in timers : Known(t)
  /\ \A p \in Procs : Routed(p) => Known(req[p])
  /\ \A i, j \in DOMAIN jobs : i # j => Far(jobs[i], jobs[j])
  /\ \A i \in DOMAIN jobs, t \in timers : Far(jobs[i], t)
  /\ \A i \in DOMAIN jobs, p \in Procs : Routed(p) => Far(jobs[i], req[p])
  /\ \A t, u \in timers : t # u => Far(t, u)
  /\ \A t \in timers, p \in Procs : Routed(p) => Far(t, req[p])
  /\ \A p, q \in Procs : (p # q /\ Routed(p) /\ Routed(q)) => Far(req[p], req[q])

\* What was acknowledged has its claim.
Answered(d) ==
  \/ \E i \in DOMAIN jobs : jobs[i].of = d
  \/ \E t \in timers : t.of = d
  \/ \E p \in Procs : Routed(p) /\ req[p].of = d

\* The cache remembers no delivery without a claim but those excused.
KeptHolds ==
  /\ \A d \in acked \ excused : Answered(d)
  /\ \A d \in Deliveries : seen[d] # Never => d \in excused \/ Answered(d)

\* What is not about deliveries leaves the claims as they are.
LEMMA ClaimsStay ==
  ASSUME TypeInv, [Next]_vars, \A p \in Procs : ~Hooks(p), ~Restart, \A t \in timers : ~GraceOver(t)
  PROVE  /\ UNCHANGED <<seen, timers, jobs, acked, excused>>
         /\ \A p \in Procs : (Routed(p)' <=> Routed(p)) /\ (Routed(p) => req'[p] = req[p])
<1> USE DEF wakeVars, logVars, gateVars, hookVars
<1>1. CASE UNCHANGED vars \/ Tick \/ ComeAndGo \/ ReadPage
  BY <1>1 DEF vars, Tick, ComeAndGo, ReadPage, Routed, At
<1>2. ASSUME NEW p \in Procs, Wakes(p) \/ Gates(p)
      PROVE  /\ UNCHANGED <<seen, timers, jobs, acked, excused>>
             /\ \A q \in Procs : (Routed(q)' <=> Routed(q)) /\ (Routed(q) => req'[q] = req[q])
  <2>1. UNCHANGED <<seen, timers, jobs, acked, excused>>
    BY <1>2 DEF Wakes, Gates, Mention, Debounce, Post, LogDispatch, CommitRow, RemoveWakeup, RegisterWakeup, AskBlocked, Verify
  <2>2. req[p] = Resting \/ At(p, "debounce") \/ At(p, "post") \/ At(p, "log") \/ At(p, "insert") \/ At(p, "verify")
    BY <1>2 DEF Wakes, Gates, Mention, Debounce, Post, LogDispatch, CommitRow, RemoveWakeup, RegisterWakeup, AskBlocked, Verify,
       Begin, BeginAndEnd
  <2>3. ~Routed(p)
    BY <2>2, Request DEF Routed, At
  <2>4. ~Hooks(p) /\ ~Routed(p)'
    BY <1>2, <2>3, Moves DEF Routed, At, Resting
  <2>5. \A q \in Procs : q # p => req'[q] = req[q]
    BY <1>2, Moves
  <2> QED BY <2>1, <2>3, <2>4, <2>5 DEF Routed, At
<1> QED BY <1>1, <1>2 DEF Next, Wakes, Gates, Hooks

\* No delivery came at the start.
LEMMA InitClaims == Init => ClaimsHold /\ KeptHolds
<1> SUFFICES ASSUME Init PROVE ClaimsHold /\ KeptHolds
  OBVIOUS
<1>1. \A p \in Procs : ~Routed(p)
  BY DEF Init, AllRest, Routed, At, Resting
<1>2. jobs = <<>> /\ timers = {} /\ acked = {} /\ \A d \in Deliveries : seen[d] = Never
  BY DEF Init, Unseen
<1> QED BY <1>1, <1>2 DEF ClaimsHold, KeptHolds

\* A job is started for a claim.
LEMMA JobAdded ==
  ASSUME TypeInv, NEW d, NEW at, Started(d, at)
  PROVE  \E n : /\ n \notin DOMAIN jobs /\ DOMAIN jobs' = DOMAIN jobs \cup {n}
                /\ jobs'[n] = [of |-> d, at |-> at]
                /\ \A i \in DOMAIN jobs : jobs'[i] = jobs[i]
<1> DEFINE n == Len(jobs) + 1
           c == [of |-> d, at |-> at]
<1>1. jobs \in Seq(Claims) /\ jobs' = Append(jobs, c)
  BY DEF Started, TypeInv, HookTypes
<1> HIDE DEF c
<1>2. /\ n \notin DOMAIN jobs /\ DOMAIN jobs' = DOMAIN jobs \cup {n} /\ jobs'[n] = c
      /\ \A i \in DOMAIN jobs : jobs'[i] = jobs[i]
  <2>1. /\ DOMAIN jobs = 1 .. Len(jobs) /\ Len(jobs) \in Nat /\ DOMAIN jobs' = 1 .. n /\ jobs'[n] = c
        /\ \A i \in 1 .. Len(jobs) : jobs'[i] = jobs[i]
    BY <1>1
  <2> QED BY <2>1
<1> QED BY <1>2 DEF c

\* Claims' numbers are numbers.
LEMMA ClaimTimes ==
  ASSUME TypeInv
  PROVE  /\ \A i \in DOMAIN jobs : jobs[i].of \in Deliveries /\ jobs[i].at \in Nat
         /\ \A t \in timers : t.of \in Deliveries /\ t.at \in Nat
         /\ \A p \in Procs : Routed(p) => req[p].of \in Deliveries /\ req[p].at \in Nat
         /\ \A d \in Deliveries : seen[d] # Never => seen[d] \in 0 .. now
         /\ now \in Nat /\ TTL \in Nat /\ now # Never
<1>1. \A i \in DOMAIN jobs : jobs[i] \in Claims
  BY DEF TypeInv, HookTypes
<1>2. \A p \in Procs : Routed(p) => req[p] \in [step : {"route", "dispatch"}, of : Deliveries, at : Times]
  BY Request DEF Routed
<1>3. \A t \in Times : t \in Nat /\ t # Never
  BY Numbers DEF Times
<1> QED BY <1>1, <1>2, <1>3, Numbers DEF Claims, TypeInv, HookTypes, ClockTypes

\* Every step keeps the claims.
LEMMA StepClaims == TypeInv /\ ClaimsHold /\ KeptHolds /\ [Next]_vars => (ClaimsHold /\ KeptHolds)'
<1> SUFFICES ASSUME TypeInv, ClaimsHold, KeptHolds, [Next]_vars PROVE ClaimsHold' /\ KeptHolds'
  BY DEF ClaimsHold, KeptHolds
<1>1. CASE Restart
  <2>1. \A p \in Procs : ~Routed(p)'
    BY <1>1 DEF Restart, AllRest, Routed, At, Resting
  <2>2. jobs' = <<>> /\ timers' = {} /\ acked' = {} /\ \A d \in Deliveries : seen'[d] = Never
    BY <1>1 DEF Restart, Unseen
  <2> QED BY <2>1, <2>2 DEF ClaimsHold, KeptHolds
<1>2. CASE ~Restart /\ (\A p \in Procs : ~Hooks(p)) /\ \A t \in timers : ~GraceOver(t)
  <2>1. /\ UNCHANGED <<seen, timers, jobs, acked, excused>>
        /\ \A p \in Procs : (Routed(p)' <=> Routed(p)) /\ (Routed(p) => req'[p] = req[p])
    BY <1>2, ClaimsStay
  <2>2. ClaimsHold'
    BY <2>1 DEF ClaimsHold, Known, Far
  <2>3. KeptHolds'
    BY <2>1 DEF KeptHolds, Answered
  <2> QED BY <2>2, <2>3
<1>3. ASSUME NEW p \in Procs, NEW d \in Deliveries, Deliver(p, d) PROVE ClaimsHold' /\ KeptHolds'
  <2>1. CASE Duplicate(d) /\ BeginAndEnd(p) /\ acked' = acked \cup {d} /\ UNCHANGED <<seen, timers, jobs, excused>>
    <3>1. ClaimsHold'
      BY <2>1 DEF BeginAndEnd, ClaimsHold, Known, Far, Routed, At
    <3>2. \A e : Answered(e)' <=> Answered(e)
      BY <2>1 DEF BeginAndEnd, Answered, Routed, At
    <3>3. KeptHolds'
      BY <2>1, <3>2 DEF KeptHolds, Duplicate
    <3> QED BY <3>1, <3>3
  <2>2. CASE /\ ~Duplicate(d) /\ Begin(p, [step |-> "route", of |-> d, at |-> now])
             /\ seen' = Recorded(d) /\ UNCHANGED <<timers, jobs, acked, excused>>
    <3>1. /\ req'[p].step = "route" /\ req'[p].of = d /\ req'[p].at = now
          /\ \A q \in Procs : q # p => req'[q] = req[q]
          /\ ~Routed(p)
      <4> DEFINE r == [step |-> "route", of |-> d, at |-> now]
      <4>1. r.step = "route" /\ r.of = d /\ r.at = now
        OBVIOUS
      <4>2. req[p] = Resting /\ req' = [req EXCEPT ![p] = r]
        BY <2>2 DEF Begin
      <4> HIDE DEF r
      <4>3. req'[p] = r /\ \A q \in Procs : q # p => req'[q] = req[q]
        BY <4>2 DEF TypeInv, ReqTypes
      <4>4. ~Routed(p)
        BY <4>2 DEF Routed, At, Resting
      <4> QED BY <4>1, <4>3, <4>4
    <3>2. /\ Routed(p)'
          /\ \A q \in Procs : q # p => (Routed(q)' <=> Routed(q)) /\ req'[q] = req[q]
      BY <3>1 DEF Routed, At
    <3>3. seen'[d] = now /\ \A e \in Deliveries : e # d => seen'[e] = seen[e]
      BY <2>2 DEF Recorded, TypeInv, HookTypes
    \* A claim the cache knows is old by now.
    <3>4. ASSUME NEW c, Known(c), c.of \in Deliveries, c.at \in Nat
          PROVE  Known(c)' /\ Far(c, req'[p]) /\ Far(req'[p], c)
      <4>1. CASE c.of = d
        <5>1. seen[d] \in 0 .. now /\ c.at =< seen[d] /\ now \in Nat /\ now # Never /\ TTL \in Nat
          BY <3>4, <4>1, ClaimTimes DEF Known
        <5>2. now - seen[d] > TTL
          BY <2>2, <3>4, <4>1, <5>1 DEF Duplicate, Known
        <5>3. now - c.at > TTL /\ c.at =< now
          BY <3>4, <5>1, <5>2
        <5> QED BY <3>1, <3>3, <4>1, <5>1, <5>3 DEF Known, Far
      <4>2. CASE c.of # d
        BY <3>1, <3>3, <3>4, <4>2 DEF Known, Far
      <4> QED BY <4>1, <4>2
    <3>5. Known(req[p])'
      <4>1. now \in Nat /\ now # Never
        BY ClaimTimes
      <4> QED BY <3>1, <3>3, <4>1 DEF Known
    <3>6. \A i \in DOMAIN jobs : Known(jobs[i])' /\ Far(jobs[i], req'[p])
      <4> SUFFICES ASSUME NEW i \in DOMAIN jobs PROVE Known(jobs[i])' /\ Far(jobs[i], req'[p])
        OBVIOUS
      <4>1. Known(jobs[i]) /\ jobs[i].of \in Deliveries /\ jobs[i].at \in Nat
        BY ClaimTimes DEF ClaimsHold
      <4> QED BY <2>2, <3>4, <4>1 DEF Known
    <3>7. \A t \in timers : Known(t)' /\ Far(t, req'[p])
      BY <3>4, ClaimTimes DEF ClaimsHold
    <3>8. \A q \in Procs : (q # p /\ Routed(q)) => Known(req[q])' /\ Far(req[q], req'[p]) /\ Far(req'[p], req[q])
      <4> SUFFICES ASSUME NEW q \in Procs, q # p, Routed(q)
                   PROVE  Known(req[q])' /\ Far(req[q], req'[p]) /\ Far(req'[p], req[q])
        OBVIOUS
      <4>1. Known(req[q]) /\ req[q].of \in Deliveries /\ req[q].at \in Nat
        BY ClaimTimes DEF ClaimsHold
      <4> DEFINE c == req[q]
      <4>2. req'[q] = req[q]
        BY <3>2
      <4> QED BY <3>1, <3>3, <3>4, <4>1, <4>2 DEF Known
    <3>9. ClaimsHold'
      <4>1. (\A i \in DOMAIN jobs : Known(jobs[i]))' /\ (\A t \in timers : Known(t))'
        BY <2>2, <3>6, <3>7 DEF Known
      <4>2. (\A q \in Procs : Routed(q) => Known(req[q]))'
        BY <3>2, <3>5, <3>8 DEF Known
      <4>3. /\ (\A i, j \in DOMAIN jobs : i # j => Far(jobs[i], jobs[j]))'
            /\ (\A i \in DOMAIN jobs, t \in timers : Far(jobs[i], t))'
            /\ (\A t, u \in timers : t # u => Far(t, u))'
        BY <2>2 DEF ClaimsHold, Far
      <4>4. /\ (\A i \in DOMAIN jobs, q \in Procs : Routed(q) => Far(jobs[i], req[q]))'
            /\ (\A t \in timers, q \in Procs : Routed(q) => Far(t, req[q]))'
        BY <2>2, <3>2, <3>6, <3>7 DEF ClaimsHold, Far
      <4>5. (\A q, r \in Procs : (q # r /\ Routed(q) /\ Routed(r)) => Far(req[q], req[r]))'
        BY <3>2, <3>8 DEF ClaimsHold, Far
      <4> QED BY <4>1, <4>2, <4>3, <4>4, <4>5 DEF ClaimsHold
    <3>10. \A e : Answered(e)' <=> Answered(e) \/ e = d
      BY <2>2, <3>1, <3>2 DEF Answered
    <3>11. KeptHolds'
      BY <2>2, <3>3, <3>10 DEF KeptHolds
    <3> QED BY <3>9, <3>11
  <2> QED BY <1>3, <2>1, <2>2 DEF Deliver
\* A claim passes from a request to a job or to a grace window, or is given up.
<1>4. ASSUME NEW p \in Procs, Route(p) PROVE ClaimsHold' /\ KeptHolds'
  <2>1. Routed(p) /\ UNCHANGED <<seen, jobs, excused>>
    BY <1>4 DEF Route, Routed
  <2>2. CASE Goto(p, [req[p] EXCEPT !.step = "dispatch"]) /\ UNCHANGED <<timers, acked>>
    <3>1. /\ req'[p].step = "dispatch" /\ req'[p].of = req[p].of /\ req'[p].at = req[p].at
          /\ \A q \in Procs : q # p => req'[q] = req[q]
      <4>1. req[p] \in [step : {"route", "dispatch"}, of : Deliveries, at : Times]
        BY <2>1, Request DEF Routed
      <4> DEFINE r == [req[p] EXCEPT !.step = "dispatch"]
      <4>2. r.step = "dispatch" /\ r.of = req[p].of /\ r.at = req[p].at
        BY <4>1
      <4>3. req' = [req EXCEPT ![p] = r]
        BY <2>2 DEF Goto
      <4> HIDE DEF r
      <4>4. req'[p] = r /\ \A q \in Procs : q # p => req'[q] = req[q]
        BY <4>3 DEF TypeInv, ReqTypes
      <4> QED BY <4>2, <4>4
    <3>2. \A q \in Procs : /\ Routed(q)' <=> Routed(q)
                           /\ Routed(q) => req'[q].of = req[q].of /\ req'[q].at = req[q].at
      BY <2>1, <3>1 DEF Routed, At
    <3>3. ClaimsHold'
      BY <2>1, <2>2, <3>2 DEF ClaimsHold, Known, Far
    <3>4. \A e : Answered(e)' <=> Answered(e)
      BY <2>1, <2>2, <3>2 DEF Answered
    <3> QED BY <2>1, <2>2, <3>3, <3>4 DEF KeptHolds
  <2>3. CASE /\ timers' = timers \cup {[of |-> req[p].of, at |-> req[p].at, due |-> now + Grace]}
             /\ acked' = acked \cup {req[p].of} /\ Done(p)
    <3> DEFINE c == [of |-> req[p].of, at |-> req[p].at, due |-> now + Grace]
    <3>1. c.of = req[p].of /\ c.at = req[p].at
      OBVIOUS
    <3>2. timers' = timers \cup {c}
      BY <2>3
    <3> HIDE DEF c
    <3>3. ~Routed(p)' /\ \A q \in Procs : q # p => (Routed(q)' <=> Routed(q)) /\ req'[q] = req[q]
      BY <2>3 DEF Done, TypeInv, ReqTypes, Routed, At, Resting
    <3>4. Known(c) /\ \A i \in DOMAIN jobs : Far(jobs[i], c)
      BY <2>1, <3>1 DEF ClaimsHold, Known, Far
    <3>5. \A u \in timers : Far(u, c) /\ Far(c, u)
      BY <2>1, <3>1 DEF ClaimsHold, Far
    <3>6. \A q \in Procs : (q # p /\ Routed(q)) => Far(c, req[q])
      BY <2>1, <3>1 DEF ClaimsHold, Far
    <3>7. ClaimsHold'
      <4>1. /\ (\A i \in DOMAIN jobs : Known(jobs[i]))' /\ (\A u \in timers : Known(u))'
            /\ (\A q \in Procs : Routed(q) => Known(req[q]))'
        BY <2>1, <3>2, <3>3, <3>4 DEF ClaimsHold, Known
      <4>2. /\ (\A i, j \in DOMAIN jobs : i # j => Far(jobs[i], jobs[j]))'
            /\ (\A i \in DOMAIN jobs, u \in timers : Far(jobs[i], u))'
            /\ (\A i \in DOMAIN jobs, q \in Procs : Routed(q) => Far(jobs[i], req[q]))'
        BY <2>1, <3>2, <3>3, <3>4 DEF ClaimsHold, Far
      <4>3. (\A t, u \in timers : t # u => Far(t, u))'
        BY <3>2, <3>5 DEF ClaimsHold, Far
      <4>4. /\ (\A t \in timers, q \in Procs : Routed(q) => Far(t, req[q]))'
            /\ (\A q, r \in Procs : (q # r /\ Routed(q) /\ Routed(r)) => Far(req[q], req[r]))'
        BY <3>2, <3>3, <3>6 DEF ClaimsHold, Far
      <4> QED BY <4>1, <4>2, <4>3, <4>4 DEF ClaimsHold
    <3>8. \A e : (Answered(e) => Answered(e)') /\ (e = req[p].of => Answered(e)')
      BY <2>1, <3>1, <3>2, <3>3 DEF Answered
    <3>9. KeptHolds'
      BY <2>1, <2>3, <3>8 DEF KeptHolds
    <3> QED BY <3>7, <3>9
  <2> QED BY <1>4, <2>2, <2>3 DEF Route
<1>5. ASSUME NEW p \in Procs, DispatchWakeup(p) PROVE ClaimsHold' /\ KeptHolds'
  <2>1. Routed(p) /\ UNCHANGED <<seen, timers>>
    BY <1>5 DEF DispatchWakeup, Routed
  <2>2. ~Routed(p)' /\ \A q \in Procs : q # p => (Routed(q)' <=> Routed(q)) /\ req'[q] = req[q]
    BY <1>5 DEF DispatchWakeup, Done, TypeInv, ReqTypes, Routed, At, Resting
  <2>3. CASE /\ Started(req[p].of, req[p].at)
             /\ \/ acked' = acked \cup {req[p].of} /\ UNCHANGED excused
                \/ excused' = excused \cup {req[p].of} /\ UNCHANGED acked
    <3>1. PICK n : /\ n \notin DOMAIN jobs /\ DOMAIN jobs' = DOMAIN jobs \cup {n}
                   /\ jobs'[n] = [of |-> req[p].of, at |-> req[p].at]
                   /\ \A i \in DOMAIN jobs : jobs'[i] = jobs[i]
      BY <2>3, JobAdded
    <3>2. jobs'[n].of = req[p].of /\ jobs'[n].at = req[p].at
      BY <3>1
    <3>3. Known(jobs'[n]) /\ \A i \in DOMAIN jobs : Far(jobs[i], jobs'[n]) /\ Far(jobs'[n], jobs[i])
      BY <2>1, <3>2 DEF ClaimsHold, Known, Far
    <3>4. \A u \in timers : Far(jobs'[n], u)
      BY <2>1, <3>2 DEF ClaimsHold, Far
    <3>5. \A q \in Procs : (q # p /\ Routed(q)) => Far(jobs'[n], req[q])
      BY <2>1, <3>2 DEF ClaimsHold, Far
    <3>6. ClaimsHold'
      <4>1. /\ (\A i \in DOMAIN jobs : Known(jobs[i]))' /\ (\A u \in timers : Known(u))'
            /\ (\A q \in Procs : Routed(q) => Known(req[q]))'
        BY <2>1, <2>2, <3>1, <3>3 DEF ClaimsHold, Known
      <4>2. (\A i, j \in DOMAIN jobs : i # j => Far(jobs[i], jobs[j]))'
        BY <3>1, <3>3 DEF ClaimsHold, Far
      <4>3. (\A i \in DOMAIN jobs, u \in timers : Far(jobs[i], u))'
        BY <2>1, <3>1, <3>4 DEF ClaimsHold, Far
      <4>4. (\A i \in DOMAIN jobs, q \in Procs : Routed(q) => Far(jobs[i], req[q]))'
        BY <2>2, <3>1, <3>5 DEF ClaimsHold, Far
      <4>5. /\ (\A t, u \in timers : t # u => Far(t, u))'
            /\ (\A t \in timers, q \in Procs : Routed(q) => Far(t, req[q]))'
            /\ (\A q, r \in Procs : (q # r /\ Routed(q) /\ Routed(r)) => Far(req[q], req[r]))'
        BY <2>1, <2>2 DEF ClaimsHold, Far
      <4> QED BY <4>1, <4>2, <4>3, <4>4, <4>5 DEF ClaimsHold
    <3>7. \A e : (Answered(e) => Answered(e)') /\ (e = req[p].of => Answered(e)')
      BY <2>1, <2>2, <3>1, <3>2 DEF Answered
    <3>8. KeptHolds'
      BY <2>1, <2>3, <3>7 DEF KeptHolds
    <3> QED BY <3>6, <3>8
  <2>4. CASE excused' = excused \cup {req[p].of} /\ UNCHANGED <<jobs, acked>>
    <3>1. ClaimsHold'
      BY <2>1, <2>2, <2>4 DEF ClaimsHold, Known, Far
    <3>2. \A e : e # req[p].of => (Answered(e) => Answered(e)')
      BY <2>1, <2>2, <2>4 DEF Answered
    <3>3. KeptHolds'
      BY <2>1, <2>4, <3>2 DEF KeptHolds
    <3> QED BY <3>1, <3>3
  <2> QED BY <1>5, <2>3, <2>4 DEF DispatchWakeup
<1>6. ASSUME NEW t \in timers, GraceOver(t) PROVE ClaimsHold' /\ KeptHolds'
  <2>1. timers' = timers \ {t} /\ UNCHANGED <<seen, req, acked>>
    BY <1>6 DEF GraceOver
  <2>2. \A q \in Procs : Routed(q)' <=> Routed(q)
    BY <2>1 DEF Routed, At
  <2>3. CASE Started(t.of, t.at) /\ UNCHANGED excused
    <3>1. PICK n : /\ n \notin DOMAIN jobs /\ DOMAIN jobs' = DOMAIN jobs \cup {n}
                   /\ jobs'[n] = [of |-> t.of, at |-> t.at]
                   /\ \A i \in DOMAIN jobs : jobs'[i] = jobs[i]
      BY <2>3, JobAdded
    <3>2. jobs'[n].of = t.of /\ jobs'[n].at = t.at
      BY <3>1
    <3>3. Known(jobs'[n]) /\ \A i \in DOMAIN jobs : Far(jobs[i], jobs'[n]) /\ Far(jobs'[n], jobs[i])
      BY <3>2 DEF ClaimsHold, Known, Far
    <3>4. \A u \in timers : u # t => Far(jobs'[n], u)
      BY <3>2 DEF ClaimsHold, Far
    <3>5. \A q \in Procs : Routed(q) => Far(jobs'[n], req[q])
      BY <3>2 DEF ClaimsHold, Far
    <3>6. ClaimsHold'
      <4>1. /\ (\A i \in DOMAIN jobs : Known(jobs[i]))' /\ (\A u \in timers : Known(u))'
            /\ (\A q \in Procs : Routed(q) => Known(req[q]))'
        BY <2>1, <2>2, <3>1, <3>3 DEF ClaimsHold, Known
      <4>2. (\A i, j \in DOMAIN jobs : i # j => Far(jobs[i], jobs[j]))'
        BY <3>1, <3>3 DEF ClaimsHold, Far
      <4>3. (\A i \in DOMAIN jobs, u \in timers : Far(jobs[i], u))'
        BY <2>1, <3>1, <3>4 DEF ClaimsHold, Far
      <4>4. (\A i \in DOMAIN jobs, q \in Procs : Routed(q) => Far(jobs[i], req[q]))'
        BY <2>1, <2>2, <3>1, <3>5 DEF ClaimsHold, Far
      <4>5. /\ (\A u, v \in timers : u # v => Far(u, v))'
            /\ (\A u \in timers, q \in Procs : Routed(q) => Far(u, req[q]))'
            /\ (\A q, r \in Procs : (q # r /\ Routed(q) /\ Routed(r)) => Far(req[q], req[r]))'
        BY <2>1, <2>2 DEF ClaimsHold, Far
      <4> QED BY <4>1, <4>2, <4>3, <4>4, <4>5 DEF ClaimsHold
    <3>7. \A e : Answered(e) => Answered(e)'
      BY <2>1, <2>2, <3>1, <3>2 DEF Answered
    <3>8. KeptHolds'
      BY <2>1, <2>3, <3>7 DEF KeptHolds
    <3> QED BY <3>6, <3>8
  <2>4. CASE excused' = excused \cup {t.of} /\ UNCHANGED jobs
    <3>1. ClaimsHold'
      BY <2>1, <2>2, <2>4 DEF ClaimsHold, Known, Far
    <3>2. \A e : e # t.of => (Answered(e) => Answered(e)')
      BY <2>1, <2>2, <2>4 DEF Answered
    <3>3. KeptHolds'
      BY <2>1, <2>4, <3>2 DEF KeptHolds
    <3> QED BY <3>1, <3>3
  <2> QED BY <1>6, <2>3, <2>4 DEF GraceOver
<1> QED BY <1>1, <1>2, <1>3, <1>4, <1>5, <1>6 DEF Hooks

\* A delivery starts one job within the TTL of its id, and one that was acknowledged
\* has its job or is on its way unless its dispatch failed or was not needed: for
\* any number of requests, of deliveries sent again, and of agents coming and going.
THEOREM DeliveredOnce == Spec => []DeliveryOnce
<1>1. Init => TypeInv /\ ClaimsHold /\ KeptHolds
  BY InitTyped, InitClaims
<1>2. TypeInv /\ ClaimsHold /\ KeptHolds /\ [Next]_vars => (TypeInv /\ ClaimsHold /\ KeptHolds)'
  BY StepTyped, StepClaims
<1>3. ClaimsHold /\ KeptHolds => DeliveryOnce
  <2> SUFFICES ASSUME ClaimsHold, KeptHolds PROVE DeliveryOnce
    OBVIOUS
  <2>1. \A p \in Procs : Routed(p) => req[p].step \in {"route", "dispatch"}
    BY DEF Routed, At
  <2> QED BY <2>1 DEF DeliveryOnce, ClaimsHold, KeptHolds, Answered, Far
<1> QED BY <1>1, <1>2, <1>3, PTL DEF Spec
=============================================================================
