----------------------------- MODULE Membership -----------------------------
(***************************************************************************)
(* One network's row, member rows, sessions and channels under the         *)
(* requests that change them (server/networks.go, admins.go, channels.go,  *)
(* members_kick.go, helpers.go, retention.go and the stores).  A request   *)
(* is a process, a step is one store call: nothing runs in a transaction,  *)
(* and UpdateNetwork writes a whole row back from the copy it was read to. *)
(* Wiping is Postgres' statement by statement; the memory store does it in *)
(* one go, which is one of these orders.                                   *)
(***************************************************************************)
EXTENDS Naturals, FiniteSets

CONSTANTS
  Owner,     \* the account that created the network
  Users,     \* accounts, the owner one of them
  Guests,    \* identities of guest joins, each made by one join
  Chans,     \* channels to be created
  Procs,     \* requests that may run at once, the retention sweeper one of them
  MaxCalls   \* bound: requests

ASSUME MembershipAssumption ==
  /\ Owner \in Users /\ MaxCalls \in Nat /\ IsFiniteSet(Guests)
  /\ Users \cap Guests = {} /\ (Users \cup Guests) \cap Chans = {}

VARIABLES
  net,       \* the network's row: does it exist, Admins, PublicChannels
  rows,      \* member rows
  sessions,  \* who holds a session token
  chans,     \* channels: "none", "private" or "public"
  active,    \* was there activity within the inactivity window?
  req,       \* the requests under way: what, about whom, next step, row read
  calls,     \* bound: requests so far
  spoilt,    \* history: whose listing or class an overlap or a failure may have spoilt
  out,       \* history: kicked, and asked for by no one since
  removed,   \* history: whose row was ever deleted
  twins,     \* history: guests that were between name check and insert together
  late,      \* history: what was asked for during or after the network's deletion
  unseen,    \* history: guests whom appointAdmin listed without having seen their row
  opened     \* history: private channels that a patch made public

noted == <<out, removed, twins, late, unseen, opened>>
vars == <<net, rows, sessions, chans, active, req, calls, spoilt, noted>>

Ids      == Users \cup Guests
Things   == Ids \cup Chans
NoRow    == [class |-> "none", name |-> 0]
Resting  == [op |-> "none"]
Names    == {rows[u].name : u \in Ids}
Managers == {"owner", "admin"}
Busy(x)    == {p \in Procs : req[p] # Resting /\ req[p].on = x}
Class(u)   == rows[u].class
Known      == Users \cup removed \cup {g \in Guests : rows[g] # NoRow}   \* a guest's id is made by its join
Knows(u)   == u \in Users \/ u \in sessions   \* an account's JWT or a session token
Manages(u) == Knows(u) /\ Class(u) \in Managers

-----------------------------------------------------------------------------
(* The decisions the handlers take.                                        *)

\* Wrong version: the admin list is not looked at.
MemberClassNoAdmins(n, u) == IF u = Owner THEN "owner" ELSE "member"

\* Wrong version: a class of no meaning for whoever is not listed.
MemberClassRaw(n, u) == IF u = Owner THEN "owner" ELSE IF u \in n.admins THEN "admin" ELSE ""

\* memberClass, from the copy of the network that was read.
MemberClass(n, u) ==
  IF u = Owner THEN "owner" ELSE IF u \in n.admins THEN "admin" ELSE "member"

\* appointAdmin: a guest's row is not promoted; no row is no guest.
RefusesPromotion(u) == Class(u) = "guest"

\* Wrong version: the name is taken as it is asked for.
FreeNamesAsked(taken) == {1}

\* joinAsGuest tries a name, `name (2)', `name (3)' and so on, until a look-up finds
\* none; one that fails counts as taken.
FreeNames(taken) == (1 .. Cardinality(Guests)) \ taken

\* What a request makes of the copy it read.
Effect(r) ==
  CASE r.op = "appoint" -> [r.net EXCEPT !.admins = @ \cup {r.on}]
    [] r.op = "revoke"  -> [r.net EXCEPT !.admins = @ \ {r.on}]
    [] r.op = "publish" -> [r.net EXCEPT !.pubs = @ \cup {r.on}]
    [] r.op = "patch"   -> r.net   \* name, password and visibility are left out

Listed(n) == n.admins \cup n.pubs

-----------------------------------------------------------------------------
(* A request begins when it has passed its gate.                           *)

First(op) == CASE op \in {"publish", "create"} -> "insert"
               [] op \in {"edit"}    -> "write"
               [] op \in {"kick"}    -> "look"
               [] op \in {"drop"}    -> "delete"
               [] op \in {"delete"}  -> "members"
               [] op \in {"sweep"}   -> "list"
               [] OTHER              -> "read"

Allowed(op, x) ==
  CASE op = "join"                -> x \in Users
    [] op = "guest"               -> x \in Guests /\ Busy(x) = {} /\ rows[x] = NoRow /\ x \notin removed \cup sessions
    [] op \in {"appoint", "revoke"} -> x \in Known /\ \E u \in Ids : Knows(u) /\ Class(u) = "owner"
    [] op = "kick"                -> x \in Ids /\ \E u \in Ids : Manages(u)
    [] op = "patch"               -> x = Owner /\ \E u \in Ids : Manages(u)
    [] op \in {"drop", "edit"}    -> x \in Chans /\ chans[x] # "none" /\ \E u \in Ids : Manages(u)
    [] op = "publish"             -> x \in Chans /\ chans[x] = "none" /\ Busy(x) = {} /\ \E u \in Ids : Manages(u)
    [] op = "create"              -> x \in Chans /\ chans[x] = "none" /\ Busy(x) = {}
                                     /\ \E u \in Ids : Knows(u) /\ Class(u) \in Managers \cup {"member"}
    [] op = "delete"              -> x = Owner /\ \E u \in Ids : Knows(u) /\ Class(u) = "owner"
    [] op = "sweep"               -> x = Owner

\* Requests about a user or a listed channel, as opposed to about the network.
About(op) == op \in {"join", "guest", "appoint", "revoke", "kick", "publish", "drop"}

Begin(p, op, x) ==
  /\ req[p] = Resting /\ calls < MaxCalls /\ Allowed(op, x)
  /\ op = "sweep" => \A q \in Procs : req[q].op # "sweep"
  /\ calls' = calls + 1
  /\ req' = [req EXCEPT ![p] = [op |-> op, on |-> x, step |-> First(op)]]
  /\ spoilt' = IF \E q \in Busy(x) : About(req[q].op) /\ About(op) THEN spoilt \cup {x} ELSE spoilt
  /\ out' = IF About(op) /\ op # "kick" THEN out \ {x} ELSE out
  /\ late' = late \cup (IF ~net.here \/ \E q \in Procs : req[q].op \in {"delete", "sweep"} THEN {x} ELSE {})
                  \cup (IF op \in {"delete", "sweep"} THEN {req[q].on : q \in {r \in Procs : req[r] # Resting}} ELSE {})
  /\ UNCHANGED <<net, rows, sessions, chans, active, removed, twins, unseen, opened>>

Goto(p, step) == req' = [req EXCEPT ![p].step = step]
Done(p)       == req' = [req EXCEPT ![p] = Resting]
At(p, step)   == req[p] # Resting /\ req[p].step = step

\* The network is read: a join goes on to its row, an appointment is refused for
\* one who is listed, a revocation for one who is not.
ReadNetwork(p) ==
  LET r == req[p] IN
  /\ At(p, "read")
  /\ req' = [req EXCEPT ![p] =
       IF \/ ~net.here
          \/ r.op = "appoint" /\ r.on \in net.admins
          \/ r.op = "revoke" /\ r.on \notin net.admins
       THEN Resting
       ELSE [op |-> r.op, on |-> r.on, net |-> net, name |-> 0,
             step |-> CASE r.op = "join"    -> "upsert"
                        [] r.op = "guest"   -> "name"
                        [] r.op = "appoint" -> "check"
                        [] OTHER            -> "update"]]
  /\ UNCHANGED <<net, rows, sessions, chans, active, calls, spoilt, noted>>

\* joinAsGuest, its name found free; while look-ups fail it goes on trying.
FindName(p) ==
  /\ At(p, "name")
  /\ \E n \in FreeNames(Names) : req' = [req EXCEPT ![p].step = "upsert", ![p].name = n]
  /\ twins' = twins \cup {{req[p].on, req[q].on} : q \in {r \in Procs : At(r, "upsert") /\ req[r].op = "guest"}}
  /\ UNCHANGED <<net, rows, sessions, chans, active, calls, spoilt, out, removed, late, unseen, opened>>

\* joinAsAuthed and joinAsGuest: the row, its class from the copy.
UpsertMember(p) ==
  LET r == req[p] IN
  /\ At(p, "upsert")
  /\ rows' = [rows EXCEPT ![r.on] = [class |-> IF r.op = "guest" THEN "guest" ELSE MemberClass(r.net, r.on),
                                      name |-> r.name]]
  /\ Goto(p, "session")
  /\ spoilt' = IF (r.on \in r.net.admins) # (r.on \in net.admins) THEN spoilt \cup {r.on}
               ELSE IF Busy(r.on) = {p} THEN spoilt \ {r.on} ELSE spoilt
  /\ UNCHANGED <<net, sessions, chans, active, calls, noted>>

\* respondJoined: the session, then the activity.
CreateSession(p) ==
  /\ At(p, "session")
  /\ sessions' = sessions \cup {req[p].on} /\ active' = TRUE
  /\ Done(p)
  /\ UNCHANGED <<net, rows, chans, calls, spoilt, noted>>

\* appointAdmin looks at the member's row before it lists him.
CheckGuest(p) ==
  /\ At(p, "check")
  /\ IF RefusesPromotion(req[p].on) THEN Done(p) ELSE Goto(p, "update")
  /\ unseen' = IF rows[req[p].on] = NoRow THEN unseen \cup (Guests \cap {req[p].on}) ELSE unseen
  /\ UNCHANGED <<net, rows, sessions, chans, active, calls, spoilt, out, removed, twins, late, opened>>

\* Whatever error the look ends in, it is taken for a row that is not there.
CheckFails(p) ==
  /\ At(p, "check") /\ Goto(p, "update")
  /\ unseen' = unseen \cup (Guests \cap {req[p].on})
  /\ UNCHANGED <<net, rows, sessions, chans, active, calls, spoilt, out, removed, twins, late, opened>>

\* UpdateNetwork: whoever's listing changed since the read is listed as before.
UpdateNetwork(p) ==
  LET r == req[p] IN
  /\ At(p, "update")
  /\ net' = IF net.here THEN Effect(r) ELSE net
  /\ spoilt' = IF net.here THEN spoilt \cup {x \in Things : (x \in Listed(r.net)) # (x \in Listed(net))} ELSE spoilt
  /\ IF ~net.here \/ r.op \in {"patch", "publish"} THEN Done(p)
     ELSE Goto(p, IF r.op = "appoint" THEN "promote" ELSE "load")
  /\ UNCHANGED <<rows, sessions, chans, active, calls, noted>>

\* promoteMember: an admin's row, whatever there was.
Promote(p) ==
  LET u == req[p].on IN
  /\ At(p, "promote")
  /\ rows' = [rows EXCEPT ![u].class = "admin"]
  /\ Done(p)
  /\ spoilt' = IF u = Owner THEN spoilt \cup {u} ELSE spoilt
  /\ UNCHANGED <<net, sessions, chans, active, calls, noted>>

\* demoteMember: only an admin's row, and the row as it was read.
LoadMember(p) ==
  /\ At(p, "load")
  /\ IF Class(req[p].on) = "admin" THEN Goto(p, "demote") ELSE Done(p)
  /\ UNCHANGED <<net, rows, sessions, chans, active, calls, spoilt, noted>>

Demote(p) ==
  /\ At(p, "demote")
  /\ rows' = [rows EXCEPT ![req[p].on].class = "member"]
  /\ Done(p)
  /\ UNCHANGED <<net, sessions, chans, active, calls, spoilt, noted>>

\* insertChannel; for a public one addPublicChannel then reads the network.
InsertChannel(p) ==
  LET public == req[p].op = "publish" IN
  /\ At(p, "insert")
  /\ chans' = [chans EXCEPT ![req[p].on] = IF public THEN "public" ELSE "private"]
  /\ IF public THEN Goto(p, "read") ELSE Done(p)
  /\ opened' = opened \ {req[p].on}
  /\ UNCHANGED <<net, rows, sessions, active, calls, spoilt, out, removed, twins, late, unseen>>

\* patchChannel: the row is written back, as it was read or as asked for; the
\* network's list is left as it is.
UpdateChannel(p) ==
  LET c == req[p].on IN
  /\ At(p, "write")
  /\ \E kind \in {"private", "public"} :
       /\ chans' = [chans EXCEPT ![c] = IF @ = "none" THEN @ ELSE kind]
       /\ opened' = IF chans[c] = "private" /\ kind = "public" THEN opened \cup {c} ELSE opened
  /\ Done(p)
  /\ UNCHANGED <<net, rows, sessions, active, calls, spoilt, out, removed, twins, late, unseen>>

\* deleteChannel; the network goes on listing a public one.
DeleteChannel(p) ==
  /\ At(p, "delete")
  /\ chans' = [chans EXCEPT ![req[p].on] = "none"]
  /\ Done(p)
  /\ UNCHANGED <<net, rows, sessions, active, calls, spoilt, noted>>

\* kickMember looks at the class, then deletes the row, then the sessions.
LookAtClass(p) ==
  /\ At(p, "look")
  /\ IF Class(req[p].on) \in Managers \cup {"none"} THEN Done(p) ELSE Goto(p, "remove")
  /\ UNCHANGED <<net, rows, sessions, chans, active, calls, spoilt, noted>>

DeleteMember(p) ==
  LET u == req[p].on IN
  /\ At(p, "remove")
  /\ rows' = [rows EXCEPT ![u] = NoRow]
  /\ Goto(p, "cleanup")
  /\ removed' = removed \cup {u}
  /\ out' = IF Busy(u) = {p} THEN out \cup {u} ELSE out
  /\ UNCHANGED <<net, sessions, chans, active, calls, spoilt, twins, late, unseen, opened>>

\* Wrong version: a kick forgets the tokens.
RevokedNone(u) == {}

\* DeleteSessionsOfMember.
Revoked(u) == {u}

DeleteSessions(p) ==
  /\ At(p, "cleanup")
  /\ sessions' = sessions \ Revoked(req[p].on)
  /\ Done(p)
  /\ UNCHANGED <<net, rows, chans, active, calls, spoilt, noted>>

\* sweepInactiveNetworks lists the network if it has been idle.
ListInactive(p) ==
  /\ At(p, "list")
  /\ IF active \/ ~net.here THEN Done(p) ELSE Goto(p, "members")
  /\ UNCHANGED <<net, rows, sessions, chans, active, calls, spoilt, noted>>

\* DeleteNetworkData: members, then channels, then sessions; the sweep keeps the
\* network's row, deleteNetwork deletes it.
WipeMembers(p) ==
  /\ At(p, "members") /\ rows' = [u \in Ids |-> NoRow] /\ Goto(p, "channels")
  /\ removed' = removed \cup {u \in Ids : rows[u] # NoRow}
  /\ UNCHANGED <<net, sessions, chans, active, calls, spoilt, out, twins, late, unseen, opened>>

WipeChannels(p) ==
  /\ At(p, "channels") /\ chans' = [c \in Chans |-> "none"] /\ Goto(p, "sessions")
  /\ UNCHANGED <<net, rows, sessions, active, calls, spoilt, noted>>

\* Wrong version: the tokens of a wiped network stay.
KeptAll == sessions

\* DELETE FROM sessions.
Kept == {}

WipeSessions(p) ==
  /\ At(p, "sessions") /\ sessions' = Kept /\ active' = TRUE
  /\ IF req[p].op = "sweep" THEN Done(p) ELSE Goto(p, "unlink")
  /\ UNCHANGED <<net, rows, chans, calls, spoilt, noted>>

DeleteNetwork(p) ==
  /\ At(p, "unlink") /\ net' = [here |-> FALSE, admins |-> {}, pubs |-> {}] /\ Done(p)
  /\ UNCHANGED <<rows, sessions, chans, active, calls, spoilt, noted>>

\* A store call fails: the request ends where it stands, unless it takes the error
\* for an answer (CheckFails) or tries again (FindName).
Fail(p) ==
  /\ req[p] # Resting /\ ~At(p, "check") /\ ~At(p, "name")
  /\ Done(p) /\ spoilt' = spoilt \cup {req[p].on}
  /\ UNCHANGED <<net, rows, sessions, chans, active, calls, noted>>

Idle ==
  /\ active /\ active' = FALSE
  /\ UNCHANGED <<net, rows, sessions, chans, req, calls, spoilt, noted>>

Ops == {"join", "guest", "appoint", "revoke", "kick", "patch", "publish", "create", "edit",
        "drop", "delete", "sweep"}

Init ==
  /\ net = [here |-> TRUE, admins |-> {}, pubs |-> {}]
  /\ rows = [u \in Ids |-> IF u = Owner THEN [class |-> "owner", name |-> 0] ELSE NoRow]
  /\ sessions = {} /\ chans = [c \in Chans |-> "none"] /\ active = TRUE
  /\ req = [p \in Procs |-> Resting] /\ calls = 0
  /\ spoilt = {} /\ out = {} /\ removed = {} /\ twins = {} /\ late = {}
  /\ unseen = {} /\ opened = {}

Next ==
  \/ Idle
  \/ \E p \in Procs :
       \/ \E op \in Ops, x \in Things : Begin(p, op, x)
       \/ ReadNetwork(p) \/ FindName(p) \/ UpsertMember(p) \/ CreateSession(p)
       \/ CheckGuest(p) \/ CheckFails(p) \/ UpdateNetwork(p) \/ Promote(p) \/ LoadMember(p) \/ Demote(p)
       \/ InsertChannel(p) \/ UpdateChannel(p) \/ DeleteChannel(p)
       \/ LookAtClass(p) \/ DeleteMember(p) \/ DeleteSessions(p)
       \/ ListInactive(p) \/ WipeMembers(p) \/ WipeChannels(p) \/ WipeSessions(p)
       \/ DeleteNetwork(p) \/ Fail(p)

Spec == Init /\ [][Next]_vars

-----------------------------------------------------------------------------
TypeOK ==
  /\ net.admins \subseteq Ids /\ net.pubs \subseteq Chans
  /\ \A u \in Ids : Class(u) \in {"none", "guest", "member", "admin", "owner"}
  /\ sessions \subseteq Ids /\ chans \in [Chans -> {"none", "private", "public"}]
  /\ \A p \in Procs : req[p] # Resting => req[p].op \in Ops /\ req[p].on \in Things

\* An account's row and the network's admin list say the same of it, unless two
\* requests about it overlapped, an older copy of the network was written over a
\* change of its listing, or a request about it failed midway; a join that meets
\* none of this puts it right (memberClass against promote and demote).
ClassesAgree ==
  net.here => \A u \in Users \ spoilt :
    Busy(u) = {} /\ rows[u] # NoRow => Class(u) = MemberClass(net, u)

\* A guest's row never gains a manager's class, unless appointAdmin listed the guest
\* without having seen the row: it was deleted, or the look failed.
GuestsStayGuests == \A g \in Guests \ unseen : Class(g) \in {"none", "guest"}

\* Both: an account's class follows the admin list and a guest's never rises, through
\* overlapping joins, appointments, kicks and failures (admins.go, networks.go).
ClassesRight == ClassesAgree /\ GuestsStayGuests

\* One who was kicked, and for whom nothing was under way or began since, has
\* neither a row nor, once the kick ends without error, a token.
KickedStaysOut ==
  \A u \in out : /\ rows[u] = NoRow
                 /\ Busy(u) = {} /\ u \notin spoilt => u \notin sessions

\* Two guests share a display name only if both had looked it up before either
\* was inserted.
NamesDistinct ==
  \A g, h \in Guests :
    g # h /\ rows[g].name # 0 /\ rows[g].name = rows[h].name => {g, h} \in twins

\* A public channel is on the network's list (the catalogue counts it), unless an older
\* copy of the network was written over it, its creation failed midway or a patch made
\* it public, which lists nothing.
PublicListed ==
  net.here => \A c \in Chans \ (spoilt \cup opened) :
    chans[c] = "public" /\ Busy(c) = {} => c \in net.pubs

\* What remains of a deleted network was asked for while or after it was deleted.
RemainsAreLate ==
  ~net.here => {u \in Ids : rows[u] # NoRow} \cup sessions \cup {c \in Chans : chans[c] # "none"} \subseteq late

\* Both: while the network is there its list knows the public channels, and after
\* its end only what was asked for late is left (channels.go, postgres_networks.go).
BelongingsRight == PublicListed /\ RemainsAreLate
=============================================================================
