------------------------------- MODULE Ingress -------------------------------
(***************************************************************************)
(* What the server lets in and sends out once per something, and the       *)
(* clock: wake-up webhooks once per debounce window and their log          *)
(* (wakeup/wakeup.go, server/agents.go, the stores), provider deliveries   *)
(* once per id with a CI job each (server/webhooks.go, webhook_dedupe.go,  *)
(* triggers/service.go), calls up to a rate and passwords up to a number   *)
(* of failures (server/ratelimit.go, joinNetwork).  The log and the        *)
(* registration are stored, the rest is memory of the process.  There is   *)
(* one agent, one network whose log is read and one key of each limiter; a *)
(* step is one critical section or one call.                               *)
(***************************************************************************)
EXTENDS Naturals, FiniteSets, Sequences

CONSTANTS
  Procs, Deliveries,
  Debounces,         \* debounce windows that may be registered
  MaxCount, Window,       \* limiter
  MaxFailures, Lockout,
  TTL, Grace,        \* of deliveries; of an agent that was online
  AlwaysFallback,    \* FA_TRIGGER_ALWAYS_DISPATCH_FALLBACK
  PageLimit,         \* of a page of the log
  Gap,               \* bound: numbers other networks' rows take between two of this log's
  MaxTime, MaxCalls  \* bounds: the clock, requests

ASSUME IngressAssumption ==
  /\ Debounces \subseteq Nat \ {0} /\ AlwaysFallback \in BOOLEAN /\ {MaxTime, Gap} \subseteq Nat /\ IsFiniteSet(Procs)
  /\ {MaxCount, Window, MaxFailures, Lockout, TTL, Grace, PageLimit} \subseteq Nat \ {0}

VARIABLES
  now, calls,  \* the clock; bound: requests so far
  online,      \* the agent's presence, as the relay has it
  reg,         \* the registered debounce window, 0 for no registration
  last,        \* Dispatcher.lastDispatch
  rows,        \* entries of the dispatch log, by position or by their BIGSERIAL number
  serial,      \* the last number given out, on Postgres by the rows of every network
  store,       \* which store keeps registration and log
  walk,        \* a reader of the log: cursor, entries met, log at the start, met any twice?
  window,      \* the limiter's window: start and count
  fails,       \* failed passwords: how many and when last
  seen,        \* deliveryCache.seen
  timers,      \* grace windows running
  req,         \* requests under way
  posts,       \* history: wake-up calls made by this process: window, stamp, time of the call
  jobs,        \* history: CI jobs this process started
  acked,       \* history: deliveries this process answered well
  excused      \* history: deliveries whose dispatch failed or was not needed in the end

logVars  == <<rows, serial, store, walk>>
wakeVars == <<reg, last, logVars, posts>>
gateVars == <<window, fails>>
hookVars == <<seen, timers, jobs, acked, excused>>
vars == <<now, calls, online, req, wakeVars, gateVars, hookVars>>

Never   == MaxTime + 1   \* no time stamp
Resting == [step |-> "none"]
Stores  == {"memory", "postgres"}

-----------------------------------------------------------------------------
(* Requests.  One that is refused or done at its first step has no effect. *)

Begin(p, r) ==
  /\ req[p] = Resting /\ calls < MaxCalls
  /\ calls' = calls + 1 /\ req' = [req EXCEPT ![p] = r]

BeginAndEnd(p) ==
  /\ req[p] = Resting /\ calls < MaxCalls
  /\ calls' = calls + 1 /\ UNCHANGED req

At(p, step) == req[p].step = step
Done(p)     == req' = [req EXCEPT ![p] = Resting] /\ UNCHANGED calls
Goto(p, r)  == req' = [req EXCEPT ![p] = r] /\ UNCHANGED calls

-----------------------------------------------------------------------------
(* Wake-ups.                                                               *)

\* Wrong version: a call that may not succeed leaves no stamp.
StampedLate == last

Stamped == now

\* Relay.Mentions and Dispatcher.Dispatch: the presence, then the registration.
Mention(p) ==
  /\ reg # 0
  /\ Begin(p, IF online THEN [step |-> "log"] ELSE [step |-> "debounce", for |-> reg])
  /\ UNCHANGED <<now, online, wakeVars, gateVars, hookVars>>

Debounce(p) ==
  /\ At(p, "debounce")
  /\ IF last # Never /\ now - last < req[p].for
     THEN Goto(p, [step |-> "log"]) /\ UNCHANGED last   \* backoff
     ELSE Goto(p, [step |-> "post", for |-> req[p].for, at |-> now]) /\ last' = Stamped
  /\ UNCHANGED <<now, online, reg, logVars, posts, gateVars, hookVars>>

\* The call, some time after its stamp; delivered or not, the outcome is logged.
Post(p) ==
  /\ At(p, "post")
  /\ posts' = Append(posts, [for |-> req[p].for, at |-> req[p].at, called |-> now])
  /\ Goto(p, [step |-> "log"])
  /\ UNCHANGED <<now, online, reg, last, logVars, gateVars, hookVars>>

\* LogDispatch: MemStore appends; on Postgres a row has its number at the insert.
LogDispatch(p) ==
  /\ At(p, "log")
  /\ \/ /\ store = "memory" /\ Done(p)
        /\ serial' = serial + 1 /\ rows' = rows \cup {serial + 1}
     \/ /\ store = "postgres"
        /\ \E n \in 1 .. Gap + 1 : serial' = serial + n /\ Goto(p, [step |-> "insert", row |-> serial + n])
        /\ UNCHANGED rows
  /\ UNCHANGED <<now, online, reg, last, store, walk, posts, gateVars, hookVars>>

\* It is seen at the commit, unless the store fails.
CommitRow(p) ==
  /\ At(p, "insert") /\ Done(p)
  /\ rows' \in {rows, rows \cup {req[p].row}}
  /\ UNCHANGED <<now, online, reg, last, serial, store, walk, posts, gateVars, hookVars>>

RemoveWakeup(p) ==
  /\ BeginAndEnd(p) /\ reg # 0 /\ reg' = 0
  /\ UNCHANGED <<now, online, last, logVars, posts, gateVars, hookVars>>

-----------------------------------------------------------------------------
(* The log is read in pages, PageLimit entries after the cursor.           *)

\* Wrong version: a page is taken from the log's end.
LastOf(due) == {r \in due : Cardinality({s \in due : s > r}) < PageLimit}

\* A slice of the list, or ORDER BY seq with a LIMIT.
FirstOf(due) == {r \in due : Cardinality({s \in due : s < r}) < PageLimit}

\* Where the next page begins: MemStore names the position of the page's last entry.
\* PGStore fetches one row too many, and that one names the cursor (collectDispatch).
Bookmarks(page, ahead) ==
  IF store = "memory" THEN {c \in page : \A r \in page : r =< c}
                      ELSE {c \in ahead : \A r \in ahead : c =< r}

\* Dispatches: what comes after the cursor; 0 stands for no cursor yet.
ReadPage ==
  LET due   == {r \in rows : r > walk.cursor}
      page  == FirstOf(due)
      ahead == due \ page
  IN
  /\ walk.more /\ rows # {}   \* an empty log has one empty page
  /\ \E c \in IF ahead = {} THEN {0} ELSE Bookmarks(page, ahead) :
       walk' = [cursor |-> c, more |-> ahead # {}, got |-> walk.got \cup page,
                from   |-> IF walk.cursor = 0 THEN rows ELSE walk.from,
                again  |-> walk.again \/ \E r \in page, s \in walk.got : r =< s]
  /\ UNCHANGED <<now, calls, online, reg, last, rows, serial, store, posts, req, gateVars, hookVars>>

-----------------------------------------------------------------------------
(* The limiter and the join throttle.                                      *)

\* RateLimiter.Allow, of a wake-up registration; other calls have other keys.
Allow ==
  \/ /\ window.start = Never \/ now - window.start >= Window
     /\ window' = [start |-> now, count |-> 1]
  \/ /\ window.start # Never /\ now - window.start < Window /\ window.count < MaxCount
     /\ window' = [window EXCEPT !.count = @ + 1]

\* UpsertWakeup, unless the store fails.
Upserted == Debounces \cup {reg}

RegisterWakeup(p) ==
  /\ BeginAndEnd(p)
  /\ Allow /\ reg' \in Upserted
  /\ UNCHANGED <<now, online, last, logVars, posts, fails, hookVars>>

\* Wrong version: blocked from the failure after the last that is allowed.
TooManyLate(n) == n > MaxFailures

TooMany(n) == n >= MaxFailures

\* FailureTracker.Blocked, asked before the password is verified.
AskBlocked(p) ==
  /\ \/ ~TooMany(fails.count) /\ UNCHANGED fails
     \/ TooMany(fails.count) /\ now - fails.last >= Lockout /\ fails' = [fails EXCEPT !.count = 0]
  /\ Begin(p, [step |-> "verify"])
  /\ UNCHANGED <<now, online, wakeVars, window, hookVars>>

\* RecordFailure for a wrong password, Reset for the right one (its limiter allows
\* more joins than there are requests here).
Verify(p) ==
  /\ At(p, "verify") /\ Done(p)
  /\ fails' \in {[count |-> fails.count + 1, last |-> now], [count |-> 0, last |-> 0]}
  /\ UNCHANGED <<now, online, wakeVars, window, hookVars>>

-----------------------------------------------------------------------------
(* Deliveries that parse to a trigger.                                     *)

Duplicate(d) == seen[d] # Never /\ now - seen[d] <= TTL

\* Wrong version: an id is looked up and recorded when its dispatch is done.
RecordedLate(d) == seen

Recorded(d) == [seen EXCEPT ![d] = now]

\* handleWebhook up to deliveryCache.Seen: a duplicate is acknowledged.
Deliver(p, d) ==
  \/ /\ Duplicate(d) /\ BeginAndEnd(p)
     /\ acked' = acked \cup {d}
     /\ UNCHANGED <<now, online, wakeVars, gateVars, seen, timers, jobs, excused>>
  \/ /\ ~Duplicate(d) /\ Begin(p, [step |-> "route", of |-> d, at |-> now])
     /\ seen' = Recorded(d)
     /\ UNCHANGED <<now, online, wakeVars, gateVars, timers, jobs, acked, excused>>

\* AgentOnlineByNameOrID, asked again when the grace window is over.
Live == online

\* processTrigger: a live agent is given the grace window.
Route(p) ==
  /\ At(p, "route")
  /\ IF Live /\ ~AlwaysFallback
     THEN /\ timers' = timers \cup {[of |-> req[p].of, at |-> req[p].at, due |-> now + Grace]}
          /\ acked' = acked \cup {req[p].of} /\ Done(p)
     ELSE /\ Goto(p, [req[p] EXCEPT !.step = "dispatch"]) /\ UNCHANGED <<timers, acked>>
  /\ UNCHANGED <<now, online, wakeVars, gateVars, seen, jobs, excused>>

\* Service.Dispatch: a job or an error, or a job whose answer is lost.
Started(d, at) == jobs' = Append(jobs, [of |-> d, at |-> at])

DispatchWakeup(p) ==
  LET d == req[p].of IN
  /\ At(p, "dispatch") /\ Done(p)
  /\ \/ Started(d, req[p].at) /\ acked' = acked \cup {d} /\ UNCHANGED excused
     \/ Started(d, req[p].at) /\ excused' = excused \cup {d} /\ UNCHANGED acked
     \/ excused' = excused \cup {d} /\ UNCHANGED <<jobs, acked>>
  /\ UNCHANGED <<now, online, wakeVars, gateVars, seen, timers>>

\* watchGrace: the timer may be late, and nobody retries.
GraceOver(t) ==
  /\ t \in timers /\ t.due <= now /\ timers' = timers \ {t}
  /\ \/ Live /\ excused' = excused \cup {t.of} /\ UNCHANGED jobs
     \/ ~Live /\ Started(t.of, t.at) /\ UNCHANGED excused
     \/ ~Live /\ excused' = excused \cup {t.of} /\ UNCHANGED jobs
  /\ UNCHANGED <<now, calls, online, req, wakeVars, gateVars, seen, acked>>

-----------------------------------------------------------------------------
Tick ==
  /\ now < MaxTime /\ now' = now + 1
  /\ UNCHANGED <<calls, online, req, wakeVars, gateVars, hookVars>>

ComeAndGo ==
  /\ online' = ~online
  /\ UNCHANGED <<now, calls, req, wakeVars, gateVars, hookVars>>

NoWindow == [start |-> Never, count |-> 0]
NoFails  == [count |-> 0, last |-> 0]
Unseen   == [d \in Deliveries |-> Never]
AllRest  == [p \in Procs |-> Resting]

NewWalk  == [cursor |-> 0, more |-> TRUE, got |-> {}, from |-> {}, again |-> FALSE]

\* Registration and log are stored, MemStore's for the life of the process; a cursor
\* into a log that is gone means nothing, and its reader begins anew.
Restart ==
  /\ last' = Never /\ window' = NoWindow /\ fails' = NoFails /\ seen' = Unseen /\ timers' = {} /\ req' = AllRest
  /\ posts' = <<>> /\ jobs' = <<>> /\ acked' = {} /\ excused' = {}
  /\ IF store = "memory" THEN reg' = 0 /\ rows' = {} /\ serial' = 0 /\ walk' = NewWalk
                         ELSE UNCHANGED <<reg, rows, serial, walk>>
  /\ UNCHANGED <<now, calls, online, store>>

Init ==
  /\ now = 0 /\ calls = 0 /\ online \in BOOLEAN /\ reg \in Debounces \cup {0}
  /\ rows = {} /\ serial = 0 /\ store \in Stores /\ walk = NewWalk
  /\ last = Never /\ window = NoWindow /\ fails = NoFails /\ seen = Unseen /\ timers = {} /\ req = AllRest
  /\ posts = <<>> /\ jobs = <<>> /\ acked = {} /\ excused = {}

Next ==
  \/ Tick \/ ComeAndGo \/ Restart \/ ReadPage
  \/ \E t \in timers : GraceOver(t)
  \/ \E p \in Procs :
       \/ Mention(p) \/ Debounce(p) \/ Post(p) \/ LogDispatch(p) \/ CommitRow(p)
       \/ RegisterWakeup(p) \/ RemoveWakeup(p) \/ AskBlocked(p) \/ Verify(p)
       \/ \E d \in Deliveries : Deliver(p, d)
       \/ Route(p) \/ DispatchWakeup(p)

Spec == Init /\ [][Next]_vars

-----------------------------------------------------------------------------
\* However many mentions race, a call of the webhook is decided only when the window
\* that was registered has passed since the decision before it ("once per debounce
\* window", wakeup.go:3), and is made that much later than that decision too.  Calls
\* themselves may come late and together.
OncePerWindow ==
  \A i, j \in DOMAIN posts :
    i # j /\ posts[i].at =< posts[j].at =>
      /\ posts[j].at - posts[i].at >= posts[j].for
      /\ posts[j].called - posts[i].at >= posts[j].for

\* A walk through the log meets its entries in order and none twice, whatever other
\* networks log between them, in whatever order rows are committed; on the memory
\* store it misses none of those that were there when it began.
LogWalk ==
  /\ ~walk.again
  /\ store = "memory" /\ ~walk.more => walk.from \subseteq walk.got

\* "cursor = last seq" (postgres_data.go:12), and rows after it are asked for: a walk
\* through the log meets every entry that was there when it began, on either store.
\* The code does not keep this: the cursor is the row that was looked ahead at.
WalkIsComplete == ~walk.more => walk.from \subseteq walk.got

\* The password is tried at most MaxFailures times without success before a
\* lockout, and once more by every other join under way.
TriesBounded == fails.count <= MaxFailures - 1 + Cardinality(Procs)

\* A delivery starts one CI job within the TTL of its id, however often it is sent
\* and whether the agent was live or not; one that was acknowledged has its job, or
\* is still on its way, unless a dispatch of it failed (the provider's retry is
\* answered as a duplicate) or the agent outlived the grace window.
DeliveryOnce ==
  /\ \A i, j \in DOMAIN jobs : i # j /\ jobs[i].of = jobs[j].of =>
       jobs[i].at - jobs[j].at > TTL \/ jobs[j].at - jobs[i].at > TTL
  /\ \A d \in acked \ excused :
       \/ \E i \in DOMAIN jobs : jobs[i].of = d
       \/ \E t \in timers : t.of = d
       \/ \E p \in Procs : req[p].step \in {"route", "dispatch"} /\ req[p].of = d
=============================================================================
