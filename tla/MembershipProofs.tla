-------------------------- MODULE MembershipProofs --------------------------
(***************************************************************************)
(* What holds of Membership for any accounts, guests, channels and         *)
(* requests.  Nothing locks the network between two store calls, so each   *)
(* invariant says what a request that stands between two of its calls      *)
(* still owes, and what the requests beside it may have spoilt.            *)
(***************************************************************************)
EXTENDS Membership, FiniteSetTheorems, TLAPS

-----------------------------------------------------------------------------
(* The types, one conjunct for each group of variables.                    *)

Nets    == [here : BOOLEAN, admins : SUBSET Ids, pubs : SUBSET Chans]
Classes == {"none", "guest", "member", "admin", "owner"}
Early   == {"read", "insert", "write", "look", "remove", "cleanup", "delete", "list", "members",
            "channels", "sessions", "unlink"}
\* The steps of a request that has read the network.
Later   == {"name", "upsert", "session", "check", "update", "promote", "load", "demote"}

Started == [op : Ops, on : Things, step : Early]
Loaded  == [op : Ops, on : Things, net : Nets, name : Nat, step : Later]
Begun   == Started \cup Loaded

Wipes == {"delete", "sweep"}

\* Which request takes a step, and whom or what it is about.
Course(op, step) ==
  /\ step = "read" => op \notin {"kick", "create", "edit", "drop"} \cup Wipes
  /\ step = "name" => op = "guest"
  /\ step \in {"upsert", "session"} => op \in {"join", "guest"}
  /\ step \in {"check", "promote"} => op = "appoint"
  /\ step \in {"load", "demote"} => op = "revoke"
  /\ step = "update" => op \in {"appoint", "revoke", "patch", "publish"}
  /\ step = "insert" => op \in {"publish", "create"}
  /\ step = "write" => op = "edit"
  /\ step \in {"look", "remove", "cleanup"} => op = "kick"
  /\ step = "delete" => op = "drop"
  /\ step \in {"members", "channels", "sessions"} => op \in Wipes
  /\ step = "list" => op = "sweep"
  /\ step = "unlink" => op = "delete"

Subject(op, on) ==
  /\ op = "join" => on \in Users
  /\ op = "guest" => on \in Guests
  /\ op \in {"appoint", "revoke", "kick"} => on \in Ids
  /\ op \in {"publish", "create", "edit", "drop"} => on \in Chans
  /\ op \in {"patch"} \cup Wipes => on = Owner

\* What a request goes on with: a network that was there, and a name only for a guest.
Copied(r) == r.step \in Later => r.net.here /\ (r.op = "join" => r.name = 0)

WellFormed(r) == r \in Begun /\ Course(r.op, r.step) /\ Subject(r.op, r.on) /\ Copied(r)

Live(p) == req[p] # Resting

ReqTypes ==
  /\ req \in [Procs -> {Resting} \cup Begun]
  /\ \A p \in Procs : Live(p) => WellFormed(req[p])

RowTypes ==
  /\ rows \in [Ids -> [class : Classes, name : Nat]]
  /\ \A u \in Ids : Class(u) = "none" => rows[u] = NoRow
  /\ \A u \in Users : Class(u) # "guest" /\ (Class(u) = "owner" => u = Owner) /\ rows[u].name = 0

StoreTypes ==
  /\ net \in Nets
  /\ sessions \subseteq Ids /\ removed \subseteq Ids /\ out \subseteq Ids
  /\ chans \in [Chans -> {"none", "private", "public"}]

TypeInv == ReqTypes /\ RowTypes /\ StoreTypes

-----------------------------------------------------------------------------
(* Classes.                                                                *)

\* Two requests about one thing have spoilt it.
Alone ==
  \A p, q \in Procs :
    (p # q /\ Live(p) /\ Live(q) /\ About(req[p].op) /\ About(req[q].op) /\ req[p].on = req[q].on)
      => req[p].on \in spoilt

\* The row of an account does not follow the list yet.
Owing(u) == \E p \in Procs : Live(p) /\ req[p].on = u /\ req[p].step \in {"promote", "load", "demote"}

Settled ==
  net.here => \A u \in Users \ spoilt : (rows[u] # NoRow /\ ~Owing(u)) => Class(u) = MemberClass(net, u)

\* The owner's row is never a debt.
OwnerIsOwner ==
  Owner \notin spoilt =>
    /\ rows[Owner] # NoRow => Class(Owner) = "owner"
    /\ \A p \in Procs : (Live(p) /\ req[p].step = "demote") => req[p].on # Owner

\* Who owes a class is listed as the class will say.
DebtsAreRight ==
  net.here => \A p \in Procs : (Live(p) /\ req[p].on \notin spoilt) =>
    /\ req[p].step = "promote" => req[p].on \in net.admins
    /\ req[p].step \in {"load", "demote"} => req[p].on \notin net.admins

ClassHolds == Alone /\ Settled /\ OwnerIsOwner /\ DebtsAreRight

\* An appointment of a guest ends at the look at the row, if that sees it.
GuestHolds ==
  \A g \in Guests \ unseen :
    /\ Class(g) \in {"none", "guest"}
    /\ \A p \in Procs : (Live(p) /\ req[p].on = g) =>
         /\ req[p].op = "appoint" => req[p].step \in {"read", "check"}
         /\ req[p].step # "demote"

-----------------------------------------------------------------------------
(* Kicks, names, and what belongs to the network.                          *)

\* Only kicks are under way for one who is out, and one who still has a token is
\* about to lose it.
OutHolds ==
  \A u \in out :
    /\ rows[u] = NoRow
    /\ \A p \in Procs : (Live(p) /\ req[p].on = u) => req[p].op \in {"kick", "patch"} \cup Wipes
    /\ u \notin spoilt =>
         \/ u \notin sessions
         \/ \E p \in Procs : Live(p) /\ req[p].on = u /\ req[p].step = "cleanup"

\* p has found its guest's name and not inserted it.
Naming(p) == Live(p) /\ req[p].op = "guest" /\ req[p].step = "upsert"

NameHolds ==
  /\ \A p, q \in Procs : (Naming(p) /\ Naming(q) /\ p # q) => {req[p].on, req[q].on} \in twins
  /\ \A p \in Procs, h \in Guests :
       (Naming(p) /\ h # req[p].on /\ rows[h].name # 0 /\ rows[h].name = req[p].name)
         => {req[p].on, h} \in twins
  /\ NamesDistinct

\* A public channel that is not listed is about to be.
ListHolds ==
  net.here => \A c \in Chans \ (spoilt \cup opened) : chans[c] = "public" =>
    \/ c \in net.pubs
    \/ \E p \in Procs : Live(p) /\ req[p].on = c /\ req[p].op = "publish" /\ req[p].step \in {"read", "update"}

Members  == {u \in Ids : rows[u] # NoRow}
Channels == {c \in Chans : chans[c] # "none"}

\* What is asked for beside a deletion is late, and a deletion has left nothing
\* else of what it wiped.
LateHolds ==
  /\ ~net.here => Members \cup sessions \cup Channels \subseteq late
  /\ ~net.here => \A p \in Procs : Live(p) => req[p].on \in late
  /\ \A p \in Procs : (Live(p) /\ req[p].op = "delete") =>
       /\ \A q \in Procs : (q # p /\ Live(q)) => req[q].on \in late
       /\ req[p].step \in {"channels", "sessions", "unlink"} => Members \subseteq late
       /\ req[p].step \in {"sessions", "unlink"} => Channels \subseteq late
       /\ req[p].step = "unlink" => sessions \subseteq late

-----------------------------------------------------------------------------
(* What a step does to the requests.                                       *)

\* The small facts the proofs below keep needing.
LEMMA Basics ==
  /\ Resting \notin Begun /\ Users \subseteq Ids /\ Guests \subseteq Ids
  /\ Ids \subseteq Things /\ Chans \subseteq Things /\ Owner \in Users
  /\ \A x \in Ids : x \notin Chans
  /\ \A g \in Guests : g \notin Users
<1>1. Resting \notin Begun
  BY DEF Resting, Begun, Started, Loaded, Ops
<1> QED BY <1>1, MembershipAssumption DEF Ids, Things

\* A live request has the fields its step has.
LEMMA LiveRequest ==
  ASSUME TypeInv, NEW p \in Procs, Live(p)
  PROVE  /\ WellFormed(req[p])
         /\ req[p].op \in Ops /\ req[p].on \in Things /\ req[p].step \in Early \cup Later
         /\ req[p].step \in Later => req[p] \in Loaded
         /\ req[p].step \in Early => req[p] \in Started
<1>1. WellFormed(req[p])
  BY DEF TypeInv, ReqTypes
<1>2. Early \cap Later = {}
  BY DEF Early, Later
<1>3. CASE req[p] \in Started
  BY <1>1, <1>2, <1>3 DEF Started
<1>4. CASE req[p] \in Loaded
  BY <1>1, <1>2, <1>4 DEF Loaded
<1> QED BY <1>1, <1>3, <1>4 DEF WellFormed, Begun

\* The requests when p's becomes r.
LEMMA Becomes ==
  ASSUME TypeInv, NEW p \in Procs, NEW r, req' = [req EXCEPT ![p] = r], r = Resting \/ WellFormed(r)
  PROVE  /\ ReqTypes' /\ req'[p] = r
         /\ \A q \in Procs : q # p => req'[q] = req[q]
<1>1. /\ req'[p] = r /\ \A q \in Procs : q # p => req'[q] = req[q]
      /\ req' \in [Procs -> {Resting} \cup Begun]
  BY DEF TypeInv, ReqTypes, WellFormed
<1>2. \A q \in Procs : Live(q)' => WellFormed(req'[q])
  BY <1>1 DEF TypeInv, ReqTypes, Live
<1> QED BY <1>1, <1>2 DEF ReqTypes, WellFormed, Course, Subject, Copied

\* A request that is done, and one that goes on and stays what it is.
LEMMA Ends ==
  ASSUME TypeInv, NEW p \in Procs, Done(p)
  PROVE  /\ ReqTypes' /\ ~Live(p)' /\ req'[p] = Resting
         /\ \A q \in Procs : q # p => req'[q] = req[q]
BY Becomes DEF Done, Live

\* A request that goes on keeps what it is about.
LEMMA Goes ==
  ASSUME TypeInv, NEW p \in Procs, NEW s, Live(p), Goto(p, s)
  PROVE  /\ Live(p)' /\ req'[p].step = s /\ req'[p].op = req[p].op /\ req'[p].on = req[p].on
         /\ req[p].step \in Later => req'[p].net = req[p].net /\ req'[p].name = req[p].name
         /\ \A q \in Procs : q # p => req'[q] = req[q]
         /\ (/\ Course(req[p].op, s)
             /\ \/ req[p].step \in Early /\ s \in Early
                \/ req[p].step \in Later /\ s \in Later) => ReqTypes'
<1> DEFINE r == [req[p] EXCEPT !.step = s]
<1>1. req' = [req EXCEPT ![p] = r]
  BY DEF Goto
<1>2. /\ req'[p] = r /\ \A q \in Procs : q # p => req'[q] = req[q]
  BY <1>1 DEF TypeInv, ReqTypes
<1>3. CASE req[p].step \in Early
  <2>1. req[p] \in Started /\ Early \cap Later = {}
    BY <1>3, LiveRequest DEF Early, Later
  <2>2. /\ r.step = s /\ r.op = req[p].op /\ r.on = req[p].on
        /\ s \in Early => r \in Begun
    BY <2>1 DEF Begun, Started
  <2>3. Course(req[p].op, s) /\ s \in Early => WellFormed(r)
    BY <2>1, <2>2, LiveRequest DEF WellFormed, Copied
  <2> HIDE DEF r
  <2>4. r # Resting
    BY <2>2, LiveRequest DEF Resting, Ops
  <2> QED BY <1>1, <1>2, <1>3, <2>1, <2>2, <2>3, <2>4, Becomes DEF Live
<1>4. CASE req[p].step \in Later
  <2>1. req[p] \in Loaded /\ Early \cap Later = {}
    BY <1>4, LiveRequest DEF Early, Later
  <2>2. /\ r.step = s /\ r.op = req[p].op /\ r.on = req[p].on
        /\ r.net = req[p].net /\ r.name = req[p].name
        /\ s \in Later => r \in Begun
    BY <2>1 DEF Begun, Loaded
  <2>3. Course(req[p].op, s) /\ s \in Later => WellFormed(r)
    BY <1>4, <2>2, LiveRequest DEF WellFormed, Copied
  <2> HIDE DEF r
  <2>4. r # Resting
    BY <2>2, LiveRequest DEF Resting, Ops
  <2> QED BY <1>1, <1>2, <1>4, <2>1, <2>2, <2>3, <2>4, Becomes DEF Live
<1> QED BY <1>3, <1>4, LiveRequest

\* The steps of a request after its first.
Acts(p) ==
  \/ ReadNetwork(p) \/ FindName(p) \/ UpsertMember(p) \/ CreateSession(p)
  \/ CheckGuest(p) \/ CheckFails(p) \/ UpdateNetwork(p) \/ Promote(p) \/ LoadMember(p) \/ Demote(p)
  \/ InsertChannel(p) \/ UpdateChannel(p) \/ DeleteChannel(p)
  \/ LookAtClass(p) \/ DeleteMember(p) \/ DeleteSessions(p)
  \/ ListInactive(p) \/ WipeMembers(p) \/ WipeChannels(p) \/ WipeSessions(p)
  \/ DeleteNetwork(p) \/ Fail(p)

\* What every such step is to the requests: p's goes on, with what it has read, or
\* rests, and the others stay.
Moved(p) ==
  /\ Live(p) /\ ReqTypes'
  /\ Live(p)' => req'[p].op = req[p].op /\ req'[p].on = req[p].on
  /\ \A q \in Procs : q # p => req'[q] = req[q]

\* The first reads.
LEMMA Reads ==
  ASSUME TypeInv, NEW p \in Procs, ReadNetwork(p)
  PROVE  /\ Moved(p)
         /\ Live(p)' =>
              /\ net.here /\ req'[p].net = net /\ req'[p].name = 0
              /\ req'[p].step = CASE req[p].op = "join"    -> "upsert"
                                  [] req[p].op = "guest"   -> "name"
                                  [] req[p].op = "appoint" -> "check"
                                  [] OTHER                 -> "update"
              /\ req[p].op = "appoint" => req[p].on \notin net.admins
         /\ (net.here /\ req[p].op \notin {"appoint", "revoke"}) => Live(p)'
<1> DEFINE s == CASE req[p].op = "join"    -> "upsert"
                  [] req[p].op = "guest"   -> "name"
                  [] req[p].op = "appoint" -> "check"
                  [] OTHER                 -> "update"
           r == [op |-> req[p].op, on |-> req[p].on, net |-> net, name |-> 0, step |-> s]
<1>1. Live(p) /\ req[p].step = "read"
  BY DEF ReadNetwork, At, Live
<1>2. CASE /\ req' = [req EXCEPT ![p] = Resting]
           /\ ~net.here \/ req[p].op \in {"appoint", "revoke"}
  BY <1>1, <1>2, Becomes DEF Moved, Live
<1>3. CASE /\ req' = [req EXCEPT ![p] = r] /\ net.here
           /\ req[p].op = "appoint" => req[p].on \notin net.admins
  <2>1. s \in Later /\ Course(req[p].op, s)
    BY <1>1, LiveRequest DEF WellFormed, Course, Ops, Wipes, Later
  <2>2. WellFormed(r)
    BY <2>1, <1>1, <1>3, LiveRequest DEF WellFormed, Copied, Begun, Loaded, TypeInv, StoreTypes
  <2> HIDE DEF s
  <2>3. /\ ReqTypes' /\ req'[p] = r
        /\ \A q \in Procs : q # p => req'[q] = req[q]
    BY <1>3, <2>2, Becomes
  <2>4. r # Resting
    BY <2>2, Basics DEF WellFormed
  <2> QED BY <1>1, <1>3, <2>3, <2>4 DEF Moved, Live, s
<1> QED BY <1>2, <1>3 DEF ReadNetwork

-----------------------------------------------------------------------------
(* The names guests find.                                                  *)

\* A name that is found is a number other than the accounts' 0, and nobody's.
LEMMA NamesAreFree ==
  ASSUME NEW n \in FreeNames(Names)
  PROVE  n \in Nat \ {0} /\ \A u \in Ids : rows[u].name # n
<1>1. Cardinality(Guests) \in Nat
  BY MembershipAssumption, FS_CardinalityType
<1>2. n \in Nat \ {0} /\ n \notin Names
  BY <1>1 DEF FreeNames
<1> QED BY <1>2 DEF Names

\* joinAsGuest goes on with the name it found.
LEMMA Finds ==
  ASSUME TypeInv, NEW p \in Procs, FindName(p)
  PROVE  /\ Moved(p) /\ Naming(p)' /\ req'[p].name \in FreeNames(Names) /\ req'[p].on \in Guests
<1>0. PICK n \in FreeNames(Names) : req' = [req EXCEPT ![p].step = "upsert", ![p].name = n]
  BY DEF FindName
<1> DEFINE r == [req[p] EXCEPT !.step = "upsert", !.name = n]
<1>1. Live(p) /\ req[p].step = "name"
  BY DEF FindName, At, Live
<1>2. req[p] \in Loaded /\ WellFormed(req[p])
  BY <1>1, LiveRequest DEF Later
<1>3. req[p].op = "guest" /\ req[p].on \in Guests
  BY <1>1, <1>2 DEF WellFormed, Course, Subject
<1>4. req' = [req EXCEPT ![p] = r]
  BY <1>0
<1>5. /\ r \in Loaded /\ r.step = "upsert" /\ r.op = req[p].op /\ r.on = req[p].on
      /\ r.name = n /\ r.net = req[p].net
  BY <1>2, NamesAreFree DEF Loaded, Later
<1>6. WellFormed(r)
  BY <1>1, <1>2, <1>3, <1>5 DEF WellFormed, Copied, Begun, Course, Subject, Later
<1> HIDE DEF r
<1>7. /\ ReqTypes' /\ req'[p] = r
      /\ \A q \in Procs : q # p => req'[q] = req[q]
  BY <1>4, <1>6, Becomes
<1>8. r # Resting
  BY <1>3, <1>5 DEF Resting
<1> QED BY <1>1, <1>3, <1>5, <1>7, <1>8 DEF Moved, Naming, Live

\* Every other step of a request is the next of its course or its last.
LEMMA Acting ==
  ASSUME TypeInv, NEW p \in Procs, Acts(p)
  PROVE  Moved(p)
<1>1. Live(p)
  BY DEF Acts, ReadNetwork, FindName, UpsertMember, CreateSession, CheckGuest, CheckFails, UpdateNetwork, Promote,
     LoadMember, Demote, InsertChannel, UpdateChannel, DeleteChannel, LookAtClass, DeleteMember, DeleteSessions,
     ListInactive, WipeMembers, WipeChannels, WipeSessions, DeleteNetwork, Fail, At, Live
<1>2. CASE Done(p)
  BY <1>1, <1>2, Ends DEF Moved
<1>3. ASSUME NEW s, Goto(p, s), Course(req[p].op, s),
             \/ req[p].step \in Early /\ s \in Early
             \/ req[p].step \in Later /\ s \in Later
      PROVE  Moved(p)
  BY <1>1, <1>3, Goes DEF Moved
<1>4. WellFormed(req[p])
  BY <1>1, LiveRequest
<1>5. CASE ReadNetwork(p) \/ FindName(p)
  BY <1>5, Reads, Finds
<1>6. CASE UpsertMember(p)
  <2>1. Goto(p, "session") /\ req[p].step \in Later /\ "session" \in Later
    BY <1>6 DEF UpsertMember, At, Later
  <2>2. Course(req[p].op, "session")
    BY <1>4, <1>6 DEF UpsertMember, At, WellFormed, Course
  <2> QED BY <1>3, <2>1, <2>2
<1>7. CASE CheckGuest(p) \/ CheckFails(p)
  <2>1. req[p].step \in Later /\ "update" \in Later /\ (Done(p) \/ Goto(p, "update"))
    BY <1>7 DEF CheckGuest, CheckFails, At, Later
  <2>2. Course(req[p].op, "update")
    BY <1>4, <1>7 DEF CheckGuest, CheckFails, At, WellFormed, Course
  <2> QED BY <1>2, <1>3, <2>1, <2>2
<1>8. CASE UpdateNetwork(p)
  <2>1. /\ req[p].step \in Later /\ "promote" \in Later /\ "load" \in Later
        /\ \/ Done(p)
           \/ req[p].op = "appoint" /\ Goto(p, "promote")
           \/ req[p].op \notin {"appoint", "patch", "publish"} /\ Goto(p, "load")
    BY <1>8 DEF UpdateNetwork, At, Later
  <2>2. req[p].op \in {"appoint", "revoke", "patch", "publish"}
    BY <1>4, <1>8 DEF UpdateNetwork, At, WellFormed, Course
  <2>3. /\ req[p].op = "appoint" => Course(req[p].op, "promote")
        /\ req[p].op = "revoke" => Course(req[p].op, "load")
    BY DEF Course
  <2> QED BY <1>2, <1>3, <2>1, <2>2, <2>3
<1>9. CASE LoadMember(p)
  <2>1. req[p].step \in Later /\ "demote" \in Later /\ (Done(p) \/ Goto(p, "demote"))
    BY <1>9 DEF LoadMember, At, Later
  <2>2. Course(req[p].op, "demote")
    BY <1>4, <1>9 DEF LoadMember, At, WellFormed, Course
  <2> QED BY <1>2, <1>3, <2>1, <2>2
<1>10. CASE InsertChannel(p)
  <2>1. /\ req[p].step \in Early /\ "read" \in Early
        /\ Done(p) \/ (req[p].op = "publish" /\ Goto(p, "read"))
    BY <1>10 DEF InsertChannel, At, Early
  <2>2. req[p].op = "publish" => Course(req[p].op, "read")
    BY DEF Course, Wipes
  <2> QED BY <1>2, <1>3, <2>1, <2>2
<1>11. CASE LookAtClass(p) \/ DeleteMember(p)
  <2>1. /\ req[p].step \in Early /\ "remove" \in Early /\ "cleanup" \in Early
        /\ Done(p) \/ Goto(p, "remove") \/ Goto(p, "cleanup")
    BY <1>11 DEF LookAtClass, DeleteMember, At, Early
  <2>2. Course(req[p].op, "remove") /\ Course(req[p].op, "cleanup")
    BY <1>4, <1>11 DEF LookAtClass, DeleteMember, At, WellFormed, Course
  <2> QED BY <1>2, <1>3, <2>1, <2>2
<1>12. CASE ListInactive(p) \/ WipeMembers(p) \/ WipeChannels(p)
  <2>1. /\ req[p].step \in Early /\ "members" \in Early /\ "channels" \in Early /\ "sessions" \in Early
        /\ Done(p) \/ Goto(p, "members") \/ Goto(p, "channels") \/ Goto(p, "sessions")
    BY <1>12 DEF ListInactive, WipeMembers, WipeChannels, At, Early
  <2>2. req[p].op \in Wipes
    BY <1>4, <1>12 DEF ListInactive, WipeMembers, WipeChannels, At, WellFormed, Course, Wipes
  <2>3. Course(req[p].op, "members") /\ Course(req[p].op, "channels") /\ Course(req[p].op, "sessions")
    BY <2>2 DEF Course, Wipes
  <2> QED BY <1>2, <1>3, <2>1, <2>3
<1>13. CASE WipeSessions(p)
  <2>1. /\ req[p].step \in Early /\ "unlink" \in Early
        /\ Done(p) \/ (req[p].op # "sweep" /\ Goto(p, "unlink"))
    BY <1>13 DEF WipeSessions, At, Early
  <2>2. req[p].op # "sweep" => Course(req[p].op, "unlink")
    BY <1>4, <1>13 DEF WipeSessions, At, WellFormed, Course, Wipes
  <2> QED BY <1>2, <1>3, <2>1, <2>2
<1>14. CASE \/ CreateSession(p) \/ Promote(p) \/ Demote(p) \/ UpdateChannel(p) \/ DeleteChannel(p)
            \/ DeleteSessions(p) \/ DeleteNetwork(p) \/ Fail(p)
  BY <1>2, <1>14 DEF CreateSession, Promote, Demote, UpdateChannel, DeleteChannel, DeleteSessions, DeleteNetwork, Fail
<1> QED BY <1>5, <1>6, <1>7, <1>8, <1>9, <1>10, <1>11, <1>12, <1>13, <1>14 DEF Acts

\* A request begins at its first step; one that is not about the network is about
\* someone or something of its kind.
LEMMA Begins ==
  ASSUME TypeInv, NEW p \in Procs, NEW op \in Ops, NEW x \in Things, Begin(p, op, x)
  PROVE  /\ ReqTypes' /\ ~Live(p) /\ Live(p)'
         /\ req'[p].op = op /\ req'[p].on = x /\ req'[p].step = First(op)
         /\ First(op) \in Early \ {"cleanup", "channels", "sessions", "unlink"} /\ Subject(op, x)
         /\ \A q \in Procs : q # p => req'[q] = req[q]
<1> DEFINE r == [op |-> op, on |-> x, step |-> First(op)]
<1>1. req' = [req EXCEPT ![p] = r] /\ req[p] = Resting /\ Allowed(op, x)
  BY DEF Begin
<1>2. First(op) \in Early \ {"cleanup", "channels", "sessions", "unlink"} /\ Course(op, First(op))
  BY DEF First, Early, Course, Ops, Wipes
<1>3. Subject(op, x)
  BY <1>1, Basics DEF Allowed, Subject, Ops, Wipes, Known, Ids, TypeInv, StoreTypes
<1>4. /\ r \in Started /\ r \notin Loaded /\ r.step \notin Later
      /\ r.op = op /\ r.on = x /\ r.step = First(op)
  BY <1>2 DEF Started, Loaded, Early, Later
<1>5. WellFormed(r)
  BY <1>2, <1>3, <1>4 DEF WellFormed, Begun, Copied
<1> HIDE DEF r
<1>6. /\ ReqTypes' /\ req'[p] = r
      /\ \A q \in Procs : q # p => req'[q] = req[q]
  BY <1>1, <1>5, Becomes
<1>7. r # Resting
  BY <1>4 DEF Resting, Ops
<1> QED BY <1>1, <1>2, <1>3, <1>4, <1>6, <1>7 DEF Live

-----------------------------------------------------------------------------
(* Types.                                                                  *)

\* The types hold at the start.
LEMMA InitTyped == Init => TypeInv
<1> SUFFICES ASSUME Init PROVE TypeInv
  OBVIOUS
<1>1. ReqTypes
  BY DEF Init, ReqTypes, Live
<1>2. RowTypes
  <2>1. \A u \in Ids : rows[u] = IF u = Owner THEN [class |-> "owner", name |-> 0] ELSE NoRow
    BY DEF Init
  <2>2. rows \in [Ids -> [class : Classes, name : Nat]]
    BY DEF Init, Classes, NoRow
  <2>3. \A u \in Ids : Class(u) = "none" => rows[u] = NoRow
    BY <2>1 DEF Class
  <2>4. \A u \in Users : Class(u) # "guest" /\ (Class(u) = "owner" => u = Owner) /\ rows[u].name = 0
    BY <2>1, Basics DEF Class, NoRow
  <2> QED BY <2>2, <2>3, <2>4 DEF RowTypes
<1>3. StoreTypes
  <2>1. net \in Nets
    BY DEF Init, Nets
  <2> QED BY <2>1 DEF Init, StoreTypes
<1> QED BY <1>1, <1>2, <1>3 DEF TypeInv

\* What a request writes to the network's row is a row.
LEMMA EffectTypes ==
  ASSUME TypeInv, NEW p \in Procs, Live(p), req[p].step = "update"
  PROVE  /\ Effect(req[p]) \in Nets /\ Effect(req[p]).here = req[p].net.here
         /\ Effect(req[p]).admins =
              IF req[p].op = "appoint" THEN req[p].net.admins \cup {req[p].on}
              ELSE IF req[p].op = "revoke" THEN req[p].net.admins \ {req[p].on} ELSE req[p].net.admins
         /\ Effect(req[p]).pubs =
              IF req[p].op = "publish" THEN req[p].net.pubs \cup {req[p].on} ELSE req[p].net.pubs
         /\ req[p].net \in Nets
<1>1. req[p] \in Loaded /\ WellFormed(req[p])
  BY LiveRequest DEF Later
<1>2. req[p].op \in {"appoint", "revoke", "patch", "publish"} /\ req[p].net \in Nets
  BY <1>1 DEF WellFormed, Course, Loaded
<1>3. CASE req[p].op = "appoint"
  BY <1>1, <1>2, <1>3 DEF Effect, Nets, WellFormed, Subject
<1>4. CASE req[p].op = "revoke"
  BY <1>1, <1>2, <1>4 DEF Effect, Nets, WellFormed, Subject
<1>5. CASE req[p].op = "patch"
  BY <1>1, <1>2, <1>5 DEF Effect, Nets
<1>6. CASE req[p].op = "publish"
  BY <1>1, <1>2, <1>6 DEF Effect, Nets, WellFormed, Subject
<1> QED BY <1>2, <1>3, <1>4, <1>5, <1>6

\* Which steps of a request write which variable.
LEMMA Writes ==
  ASSUME NEW p \in Procs, Acts(p)
  PROVE  /\ rows' = rows \/ UpsertMember(p) \/ Promote(p) \/ Demote(p) \/ DeleteMember(p) \/ WipeMembers(p)
         /\ net' = net \/ UpdateNetwork(p) \/ DeleteNetwork(p)
         /\ sessions' = sessions \/ CreateSession(p) \/ DeleteSessions(p) \/ WipeSessions(p)
         /\ chans' = chans \/ InsertChannel(p) \/ UpdateChannel(p) \/ DeleteChannel(p) \/ WipeChannels(p)
         /\ spoilt' = spoilt \/ UpsertMember(p) \/ UpdateNetwork(p) \/ Promote(p) \/ Fail(p)
         /\ out' = out \/ DeleteMember(p)
         /\ removed' = removed \/ DeleteMember(p) \/ WipeMembers(p)
         /\ twins' = twins \/ FindName(p)
         /\ late' = late
         /\ unseen' = unseen \/ CheckGuest(p) \/ CheckFails(p)
         /\ opened' = opened \/ InsertChannel(p) \/ UpdateChannel(p)
<1> USE DEF noted
<1>1. CASE ReadNetwork(p) \/ FindName(p) \/ UpsertMember(p) \/ CreateSession(p) \/ CheckGuest(p) \/ CheckFails(p)
  BY <1>1 DEF ReadNetwork, FindName, UpsertMember, CreateSession, CheckGuest, CheckFails
<1>2. CASE UpdateNetwork(p) \/ Promote(p) \/ LoadMember(p) \/ Demote(p) \/ InsertChannel(p) \/ UpdateChannel(p)
  BY <1>2 DEF UpdateNetwork, Promote, LoadMember, Demote, InsertChannel, UpdateChannel
<1>3. CASE DeleteChannel(p) \/ LookAtClass(p) \/ DeleteMember(p) \/ DeleteSessions(p) \/ ListInactive(p)
  BY <1>3 DEF DeleteChannel, LookAtClass, DeleteMember, DeleteSessions, ListInactive
<1>4. CASE WipeMembers(p) \/ WipeChannels(p) \/ WipeSessions(p) \/ DeleteNetwork(p) \/ Fail(p)
  BY <1>4 DEF WipeMembers, WipeChannels, WipeSessions, DeleteNetwork, Fail
<1> QED BY <1>1, <1>2, <1>3, <1>4 DEF Acts

\* Every step keeps the types.
LEMMA StepTyped == TypeInv /\ [Next]_vars => TypeInv'
<1> SUFFICES ASSUME TypeInv, [Next]_vars PROVE TypeInv'
  OBVIOUS
<1>1. CASE UNCHANGED vars
  BY <1>1 DEF vars, noted, TypeInv, ReqTypes, RowTypes, StoreTypes, Live, WellFormed, Course, Subject, Copied, Class
<1>2. CASE Idle
  BY <1>2 DEF Idle, noted, TypeInv, ReqTypes, RowTypes, StoreTypes, Live, WellFormed, Course, Subject, Copied, Class
<1>3. ASSUME NEW p \in Procs, NEW op \in Ops, NEW x \in Things, Begin(p, op, x) PROVE TypeInv'
  <2>1. ReqTypes'
    BY <1>3, Begins
  <2> QED BY <1>3, <2>1 DEF Begin, TypeInv, RowTypes, StoreTypes, Class
<1>4. ASSUME NEW p \in Procs, Acts(p) PROVE TypeInv'
  <2>1. Live(p) /\ ReqTypes' /\ WellFormed(req[p])
    BY <1>4, Acting, LiveRequest DEF Moved
  <2>2. RowTypes'
    <3>1. CASE rows' = rows
      BY <3>1 DEF TypeInv, RowTypes, Class
    <3>2. CASE UpsertMember(p)
      <4>1. req[p].step = "upsert" /\ req[p] \in Loaded /\ req[p].op \in {"join", "guest"} /\ req[p].on \in Ids
        BY <2>1, <3>2, LiveRequest, Basics DEF UpsertMember, At, Later, WellFormed, Course, Subject, Ids
      <4> DEFINE r == [class |-> IF req[p].op = "guest" THEN "guest" ELSE MemberClass(req[p].net, req[p].on),
                       name |-> req[p].name]
      <4>2. rows' = [rows EXCEPT ![req[p].on] = r]
        BY <3>2 DEF UpsertMember
      <4>3. /\ r.class \in {"guest", "owner", "admin", "member"} /\ r.name = req[p].name
            /\ r \in [class : Classes, name : Nat]
            /\ req[p].op = "join" => r.class # "guest" /\ (r.class = "owner" => req[p].on = Owner)
        BY <4>1 DEF MemberClass, Classes, Loaded
      <4>4. /\ req[p].op = "guest" => req[p].on \notin Users
            /\ req[p].op = "join" => req[p].name = 0
        BY <2>1, <4>1, Basics DEF WellFormed, Subject, Copied, Later
      <4> HIDE DEF r
      <4> QED BY <4>1, <4>2, <4>3, <4>4, Basics DEF TypeInv, RowTypes, Class
    <3>3. CASE Promote(p) \/ Demote(p)
      <4>1. req[p].on \in Ids
        BY <2>1, <3>3, Basics DEF Promote, Demote, At, WellFormed, Course, Subject
      <4>2. PICK c \in {"admin", "member"} : rows' = [rows EXCEPT ![req[p].on].class = c]
        BY <3>3 DEF Promote, Demote
      <4> QED BY <4>1, <4>2, Basics DEF TypeInv, RowTypes, Class, Classes
    <3>4. CASE DeleteMember(p)
      BY <3>4, Basics DEF DeleteMember, TypeInv, RowTypes, Class, NoRow, Classes
    <3>5. CASE WipeMembers(p)
      BY <3>5, Basics DEF WipeMembers, TypeInv, RowTypes, Class, NoRow, Classes
    <3> QED BY <1>4, <3>1, <3>2, <3>3, <3>4, <3>5, Writes
  <2>3. net' \in Nets
    <3>1. CASE UpdateNetwork(p)
      BY <2>1, <3>1, EffectTypes DEF UpdateNetwork, At, TypeInv, StoreTypes
    <3>2. CASE DeleteNetwork(p)
      BY <3>2 DEF DeleteNetwork, Nets
    <3> QED BY <1>4, <3>1, <3>2, Writes DEF TypeInv, StoreTypes
  <2>4. sessions' \subseteq Ids
    <3>1. CASE CreateSession(p)
      BY <2>1, <3>1, Basics DEF CreateSession, At, WellFormed, Course, Subject, TypeInv, StoreTypes
    <3> QED BY <1>4, <3>1, Writes DEF DeleteSessions, WipeSessions, Kept, TypeInv, StoreTypes
  <2>5. chans' \in [Chans -> {"none", "private", "public"}]
    BY <1>4, Writes DEF InsertChannel, UpdateChannel, DeleteChannel, WipeChannels, TypeInv, StoreTypes
  <2>6. removed' \subseteq Ids /\ out' \subseteq Ids
    <3>1. CASE DeleteMember(p)
      BY <2>1, <3>1 DEF DeleteMember, At, WellFormed, Course, Subject, TypeInv, StoreTypes
    <3> QED BY <1>4, <3>1, Writes DEF WipeMembers, TypeInv, StoreTypes
  <2> QED BY <2>1, <2>2, <2>3, <2>4, <2>5, <2>6 DEF TypeInv, StoreTypes
<1> QED BY <1>1, <1>2, <1>3, <1>4 DEF Next, Acts

\* The types are an invariant.
THEOREM Typed == Spec => []TypeInv
BY InitTyped, StepTyped, PTL DEF Spec

\* The type invariant of the module follows.
LEMMA TypesSuffice == TypeInv => TypeOK
<1> SUFFICES ASSUME TypeInv PROVE TypeOK
  OBVIOUS
<1>1. net.admins \subseteq Ids /\ net.pubs \subseteq Chans
  BY DEF TypeInv, StoreTypes, Nets
<1>2. \A u \in Ids : Class(u) \in {"none", "guest", "member", "admin", "owner"}
  BY DEF TypeInv, RowTypes, Class, Classes
<1>3. sessions \subseteq Ids /\ chans \in [Chans -> {"none", "private", "public"}]
  BY DEF TypeInv, StoreTypes
<1>4. \A p \in Procs : req[p] # Resting => req[p].op \in Ops /\ req[p].on \in Things
  BY LiveRequest DEF Live
<1> QED BY <1>1, <1>2, <1>3, <1>4 DEF TypeOK

\* Every variable stays in its type for any accounts, guests, channels and requests:
\* a request has at each step the fields that step reads, and the admin list names
\* members, the public list channels.
THEOREM TypeCorrect == Spec => []TypeOK
BY Typed, TypesSuffice, PTL

-----------------------------------------------------------------------------
(* How a request comes to a step, told once for the invariants below.      *)

\* How a request got where it stands now.
LEMMA Arrivals ==
  ASSUME TypeInv, NEW p \in Procs, Acts(p), Live(p)'
  PROVE  /\ req'[p].step = "promote" => UpdateNetwork(p) /\ net.here /\ req[p].op = "appoint"
         /\ req'[p].step = "load" => UpdateNetwork(p) /\ net.here /\ req[p].op = "revoke"
         /\ req'[p].step = "demote" => LoadMember(p) /\ Class(req[p].on) = "admin"
         /\ req'[p].step = "check" => ReadNetwork(p)
         /\ req'[p].step = "update" => ReadNetwork(p) \/ CheckFails(p) \/ CheckGuest(p)
         /\ req'[p].step = "read" => InsertChannel(p)
         /\ req'[p].step = "cleanup" => DeleteMember(p)
         /\ req'[p].step = "channels" => WipeMembers(p)
         /\ req'[p].step = "sessions" => WipeChannels(p)
         /\ req'[p].step = "unlink" => WipeSessions(p)
         /\ req'[p].step = "upsert" => FindName(p) \/ (ReadNetwork(p) /\ req[p].op = "join")
<1>1. Live(p) /\ ~Done(p) /\ WellFormed(req[p])
  BY Acting, Ends, LiveRequest DEF Moved
<1>2. \A s : Goto(p, s) => req'[p].step = s
  BY <1>1, Goes
<1>3. CASE ReadNetwork(p)
  <2>1. req'[p].step \in {"upsert", "name", "check", "update"} /\ (req'[p].step = "upsert" => req[p].op = "join")
    BY <1>3, Reads
  <2> QED BY <1>3, <2>1
<1>4. CASE FindName(p)
  BY <1>4, Finds DEF Naming
<1>5. CASE UpsertMember(p)
  BY <1>2, <1>5 DEF UpsertMember
<1>6. CASE CheckGuest(p) \/ CheckFails(p)
  BY <1>1, <1>2, <1>6 DEF CheckGuest, CheckFails
<1>7. CASE UpdateNetwork(p)
  <2>1. net.here /\ req[p].op \in {"appoint", "revoke"}
    BY <1>1, <1>7 DEF UpdateNetwork, At, WellFormed, Course
  <2>2. /\ req[p].op = "appoint" => Goto(p, "promote")
        /\ req[p].op = "revoke" => Goto(p, "load")
    BY <1>7, <2>1 DEF UpdateNetwork
  <2>3. /\ req[p].op = "appoint" => req'[p].step = "promote"
        /\ req[p].op = "revoke" => req'[p].step = "load"
    BY <1>2, <2>2
  <2> QED BY <1>7, <2>1, <2>3
<1>8. CASE LoadMember(p)
  BY <1>1, <1>2, <1>8 DEF LoadMember
<1>9. CASE InsertChannel(p)
  <2>1. Goto(p, "read")
    BY <1>1, <1>9 DEF InsertChannel
  <2> QED BY <1>2, <1>9, <2>1
<1>10. CASE LookAtClass(p) \/ DeleteMember(p)
  BY <1>1, <1>2, <1>10 DEF LookAtClass, DeleteMember
<1>11. CASE ListInactive(p) \/ WipeMembers(p) \/ WipeChannels(p) \/ WipeSessions(p)
  BY <1>1, <1>2, <1>11 DEF ListInactive, WipeMembers, WipeChannels, WipeSessions
<1>12. CASE \/ CreateSession(p) \/ Promote(p) \/ Demote(p) \/ UpdateChannel(p) \/ DeleteChannel(p)
            \/ DeleteSessions(p) \/ DeleteNetwork(p) \/ Fail(p)
  BY <1>1, <1>12 DEF CreateSession, Promote, Demote, UpdateChannel, DeleteChannel, DeleteSessions, DeleteNetwork, Fail
<1> QED BY <1>3, <1>4, <1>5, <1>6, <1>7, <1>8, <1>9, <1>10, <1>11, <1>12 DEF Acts

-----------------------------------------------------------------------------
(* Classes follow the list.                                                *)

\* Only a join that is alone with its account makes good what was spoilt.
LEMMA Spoils ==
  ASSUME NEW p \in Procs, Acts(p)
  PROVE  \/ spoilt \subseteq spoilt' /\ (UpsertMember(p) => (req[p].on \in req[p].net.admins <=> req[p].on \in net.admins) \/ req[p].on \in spoilt')
         \/ /\ UpsertMember(p) /\ spoilt' = spoilt \ {req[p].on} /\ Busy(req[p].on) = {p}
            /\ req[p].on \in req[p].net.admins <=> req[p].on \in net.admins
BY Writes DEF UpsertMember, UpdateNetwork, Promote, Fail

\* The owner is the only member at the start.
LEMMA InitClasses == Init => ClassHolds
<1> SUFFICES ASSUME Init PROVE ClassHolds
  OBVIOUS
<1>1. \A p \in Procs : ~Live(p)
  BY DEF Init, Live
<1>2. net = [here |-> TRUE, admins |-> {}, pubs |-> {}]
  BY DEF Init
<1>3. \A u \in Users : /\ rows[u] # NoRow => u = Owner
                       /\ u = Owner => Class(u) = "owner"
  BY Basics DEF Init, Class, NoRow
<1>4. Settled
  BY <1>3 DEF Settled, MemberClass
<1>5. Alone /\ DebtsAreRight
  BY <1>1 DEF Alone, DebtsAreRight
<1>6. OwnerIsOwner
  BY <1>1, <1>3, Basics DEF OwnerIsOwner
<1> QED BY <1>4, <1>5, <1>6 DEF ClassHolds

\* Every step keeps classes and list in accord, or says who spoilt it.
LEMMA StepClasses == TypeInv /\ ClassHolds /\ [Next]_vars => ClassHolds'
<1> SUFFICES ASSUME TypeInv, ClassHolds, [Next]_vars PROVE ClassHolds'
  OBVIOUS
<1>1. CASE UNCHANGED vars \/ Idle
  BY <1>1 DEF vars, Idle, noted, ClassHolds, Alone, Settled, Owing, OwnerIsOwner, DebtsAreRight, Live, Class, MemberClass
<1>2. ASSUME NEW p \in Procs, NEW op \in Ops, NEW x \in Things, Begin(p, op, x) PROVE ClassHolds'
  <2>1. /\ ~Live(p) /\ Live(p)' /\ req'[p].op = op /\ req'[p].on = x
        /\ req'[p].step \notin {"promote", "load", "demote"}
        /\ \A q \in Procs : q # p => req'[q] = req[q]
    BY <1>2, Begins DEF Early
  <2>2. /\ UNCHANGED <<net, rows>> /\ spoilt \subseteq spoilt'
        /\ \A q \in Procs : (Live(q) /\ req[q].on = x /\ About(req[q].op) /\ About(op)) => x \in spoilt'
    BY <1>2 DEF Begin, Busy, Live
  <2>3. Alone'
    BY <2>1, <2>2 DEF ClassHolds, Alone, Live
  <2>4. Settled'
    BY <2>1, <2>2 DEF ClassHolds, Settled, Owing, Live, Class, MemberClass
  <2>5. OwnerIsOwner' /\ DebtsAreRight'
    BY <2>1, <2>2 DEF ClassHolds, OwnerIsOwner, DebtsAreRight, Live, Class
  <2> QED BY <2>3, <2>4, <2>5 DEF ClassHolds
<1>3. ASSUME NEW p \in Procs, Acts(p) PROVE ClassHolds'
  <2> DEFINE v == req[p].on
  <2>1. /\ Live(p) /\ WellFormed(req[p])
        /\ Live(p)' => req'[p].op = req[p].op /\ req'[p].on = v
        /\ \A q \in Procs : q # p => req'[q] = req[q]
    BY <1>3, Acting, LiveRequest DEF Moved
  <2>2. Alone'
    BY <1>3, <2>1, Spoils DEF ClassHolds, Alone, Live, Busy
  <2>3. net'.here => net.here /\ ~DeleteNetwork(p)
    BY <1>3, Writes DEF UpdateNetwork, DeleteNetwork
  \* An update that spoils nobody's listing writes the list it read.
  <2>4. ASSUME UpdateNetwork(p), net.here, NEW u \in Ids, u \notin spoilt'
        PROVE  /\ u \in req[p].net.admins <=> u \in net.admins
               /\ u \in net'.admins <=> \/ req[p].op = "appoint" /\ u = v
                                        \/ u \in net.admins /\ ~(req[p].op = "revoke" /\ u = v)
    <3>1. /\ net' = Effect(req[p]) /\ req[p].step = "update" /\ net \in Nets
          /\ u \in Listed(req[p].net) <=> u \in Listed(net)
      BY <2>4, Basics DEF UpdateNetwork, At, TypeInv, StoreTypes
    <3>2. req[p].net \in Nets
      BY <2>1, <3>1, EffectTypes
    <3>3. u \in req[p].net.admins <=> u \in net.admins
      BY <3>1, <3>2, Basics DEF Listed, Nets
    <3> QED BY <2>1, <3>1, <3>3, EffectTypes
  <2>5. Settled'
    <3> SUFFICES ASSUME net'.here, NEW u \in Users \ spoilt', rows'[u] # NoRow, ~Owing(u)'
                 PROVE  Class(u)' = MemberClass(net', u)
      BY DEF Settled, MemberClass
    <3>1. CASE UpsertMember(p) /\ u = v
      <4>1. req[p].op # "guest" /\ u \in Ids
        BY <2>1, <3>1, Basics DEF WellFormed, Subject
      <4>2. Class(u)' = MemberClass(req[p].net, u) /\ net' = net
        BY <3>1, <4>1 DEF UpsertMember, Class, TypeInv, RowTypes
      <4>3. u \in req[p].net.admins <=> u \in net.admins
        BY <1>3, <3>1, Spoils
      <4> QED BY <4>2, <4>3 DEF MemberClass
    <3>2. CASE ~(UpsertMember(p) /\ u = v)
      <4>1. u \notin spoilt
        BY <1>3, <3>2, Spoils
      <4>2. \A q \in Procs : (Live(q) /\ req[q].on = u /\ req[q].step \in {"promote", "load", "demote"}) => q = p
        BY <2>1 DEF Owing, Live
      <4>3. CASE Promote(p) /\ u = v
        <5>1. Class(u)' = "admin" /\ net' = net /\ u # Owner
          BY <3>2, <4>3, Basics DEF Promote, Class, TypeInv, RowTypes
        <5>2. u \in net.admins
          BY <2>1, <2>3, <4>1, <4>3 DEF Promote, At, ClassHolds, DebtsAreRight
        <5> QED BY <5>1, <5>2 DEF MemberClass
      <4>4. CASE Demote(p) /\ u = v
        <5>1. Class(u)' = "member" /\ net' = net
          BY <4>4, Basics DEF Demote, Class, TypeInv, RowTypes
        <5>2. u \notin net.admins /\ u # Owner
          BY <2>1, <2>3, <4>1, <4>4 DEF Demote, At, ClassHolds, DebtsAreRight, OwnerIsOwner
        <5> QED BY <5>1, <5>2 DEF MemberClass
      <4>5. CASE LoadMember(p) /\ u = v
        <5>1. /\ rows' = rows /\ net' = net /\ Class(u) \in Classes /\ Class(u) # "none" /\ Class(u) # "guest"
              /\ Class(u) = "owner" => u = Owner
          BY <4>5, Basics DEF LoadMember, TypeInv, RowTypes, Class
        <5>2. Class(u) # "admin"
          <6> SUFFICES ASSUME Class(u) = "admin" PROVE FALSE
            OBVIOUS
          <6>1. Goto(p, "demote")
            BY <4>5 DEF LoadMember
          <6>2. Live(p)' /\ req'[p].step = "demote" /\ req'[p].on = u
            BY <2>1, <4>5, <6>1, Goes
          <6> QED BY <6>2 DEF Owing
        <5>3. u \notin net.admins
          BY <2>1, <2>3, <4>1, <4>5 DEF LoadMember, At, ClassHolds, DebtsAreRight
        <5>4. u = Owner => Class(u) = "owner"
          BY <4>1, <5>1 DEF ClassHolds, OwnerIsOwner, NoRow
        <5> QED BY <5>1, <5>2, <5>3, <5>4 DEF MemberClass, Classes, Class
      <4>6. CASE ~((Promote(p) \/ Demote(p) \/ LoadMember(p)) /\ u = v)
        <5>1. ~Owing(u)
          <6> SUFFICES ASSUME v = u, req[p].step \in {"promote", "load", "demote"} PROVE FALSE
            BY <4>2 DEF Owing
          <6>1. CASE Fail(p)
            BY <6>1 DEF Fail
          <6>2. CASE ~Fail(p)
            BY <1>3, <4>6, <6>2 DEF Acts, ReadNetwork, FindName, UpsertMember, CreateSession, CheckGuest, CheckFails,
               UpdateNetwork, InsertChannel, UpdateChannel, DeleteChannel, LookAtClass, DeleteMember, DeleteSessions,
               ListInactive, WipeMembers, WipeChannels, WipeSessions, DeleteNetwork, At
          <6> QED BY <6>1, <6>2
        <5>2. rows'[u] = rows[u]
          <6>1. u \in Ids
            BY Basics
          <6> QED BY <1>3, <3>2, <4>6, <6>1, Writes
                  DEF UpsertMember, Promote, Demote, DeleteMember, WipeMembers, TypeInv, RowTypes
        <5>3. Class(u) = MemberClass(net, u)
          BY <2>3, <4>1, <5>1, <5>2 DEF ClassHolds, Settled
        <5>4. CASE UpdateNetwork(p)
          <6>1. u \in net'.admins <=> \/ req[p].op = "appoint" /\ u = v
                                      \/ u \in net.admins /\ ~(req[p].op = "revoke" /\ u = v)
            BY <2>3, <2>4, <5>4, Basics
          <6>2. ~(req[p].op \in {"appoint", "revoke"} /\ u = v)
            <7> SUFFICES ASSUME req[p].op \in {"appoint", "revoke"}, u = v PROVE FALSE
              OBVIOUS
            <7>1. Goto(p, "promote") \/ Goto(p, "load")
              BY <2>3, <5>4 DEF UpdateNetwork
            <7>2. Live(p)' /\ req'[p].step \in {"promote", "load"}
              BY <2>1, <7>1, Goes
            <7> QED BY <2>1, <7>2 DEF Owing
          <6> QED BY <5>2, <5>3, <6>1, <6>2 DEF MemberClass, Class
        <5>5. CASE ~UpdateNetwork(p)
          BY <1>3, <2>3, <5>2, <5>3, <5>5, Writes DEF MemberClass, Class
        <5> QED BY <5>4, <5>5
      <4> QED BY <4>3, <4>4, <4>5, <4>6
    <3> QED BY <3>1, <3>2
  <2>6. OwnerIsOwner'
    <3> SUFFICES ASSUME Owner \notin spoilt'
                 PROVE  /\ rows'[Owner] # NoRow => Class(Owner)' = "owner"
                        /\ \A q \in Procs : (Live(q)' /\ req'[q].step = "demote") => req'[q].on # Owner
      BY DEF OwnerIsOwner
    <3>1. CASE UpsertMember(p) /\ v = Owner
      <4>1. req[p].op # "guest" /\ Owner \in Ids
        BY <2>1, <3>1, Basics DEF WellFormed, Subject
      <4>2. Class(Owner)' = "owner"
        BY <3>1, <4>1 DEF UpsertMember, Class, MemberClass, TypeInv, RowTypes
      <4>3. ASSUME NEW q \in Procs, Live(q)', req'[q].step = "demote", req'[q].on = Owner PROVE FALSE
        <5>1. q # p
          BY <1>3, <3>1, <4>3, Arrivals DEF UpsertMember, LoadMember, At
        <5>2. Live(q) /\ req[q].on = Owner /\ req[q].step = "demote"
          BY <2>1, <4>3, <5>1 DEF Live
        <5>3. Owner \in spoilt
          BY <5>2 DEF ClassHolds, OwnerIsOwner
        <5>4. Busy(Owner) = {p}
          BY <1>3, <3>1, <5>3, Spoils
        <5> QED BY <5>1, <5>2, <5>4 DEF Busy, Live
      <4> QED BY <4>2, <4>3
    <3>2. CASE ~(UpsertMember(p) /\ v = Owner)
      <4>1. Owner \notin spoilt
        BY <1>3, <3>2, Spoils
      <4>2. ~(Demote(p) /\ v = Owner) /\ ~(Promote(p) /\ v = Owner)
        BY <2>1, <4>1 DEF Demote, Promote, At, ClassHolds, OwnerIsOwner
      <4>3. rows'[Owner] = rows[Owner] \/ rows'[Owner] = NoRow
        BY <1>3, <3>2, <4>2, Writes, Basics
           DEF UpsertMember, Promote, Demote, DeleteMember, WipeMembers, TypeInv, RowTypes
      <4>4. (Live(p)' /\ req'[p].step = "demote") => v # Owner
        <5> SUFFICES ASSUME Live(p)', req'[p].step = "demote", v = Owner PROVE FALSE
          OBVIOUS
        <5>1. Class(Owner) = "admin"
          BY <1>3, Arrivals
        <5> QED BY <4>1, <5>1 DEF ClassHolds, OwnerIsOwner, Class, NoRow
      <4> QED BY <2>1, <4>1, <4>3, <4>4 DEF ClassHolds, OwnerIsOwner, Class, Live
    <3> QED BY <3>1, <3>2
  <2>7. DebtsAreRight'
    <3> SUFFICES ASSUME net'.here, NEW q \in Procs, Live(q)', req'[q].on \notin spoilt',
                        req'[q].step \in {"promote", "load", "demote"}
                 PROVE  /\ req'[q].step = "promote" => req'[q].on \in net'.admins
                        /\ req'[q].step \in {"load", "demote"} => req'[q].on \notin net'.admins
      BY DEF DebtsAreRight
    <3> DEFINE u == req'[q].on
    <3>1. CASE q = p
      <4>1. u = v
        BY <2>1, <3>1
      <4>2. CASE req'[p].step = "demote"
        <5>1. LoadMember(p)
          BY <1>3, <3>1, <4>2, Arrivals
        <5>2. net' = net /\ req[p].step = "load" /\ spoilt' = spoilt
          BY <5>1 DEF LoadMember, At
        <5> QED BY <2>1, <2>3, <3>1, <4>1, <4>2, <5>2 DEF ClassHolds, DebtsAreRight
      <4>3. CASE req'[p].step \in {"promote", "load"}
        <5>1. /\ UpdateNetwork(p)
              /\ req'[p].step = "promote" => req[p].op = "appoint"
              /\ req'[p].step = "load" => req[p].op = "revoke"
          BY <1>3, <3>1, <4>3, Arrivals
        <5>2. v \in Ids
          BY <2>1, <4>3, <5>1 DEF WellFormed, Subject
        <5> QED BY <2>3, <2>4, <3>1, <4>1, <4>3, <5>1, <5>2
      <4> QED BY <3>1, <4>2, <4>3
    <3>2. CASE q # p
      <4>1. req'[q] = req[q] /\ Live(q) /\ WellFormed(req[q])
        BY <2>1, <3>2, LiveRequest DEF Live
      <4>2. u \in Ids /\ About(req[q].op)
        BY <4>1 DEF WellFormed, Course, Subject, About
      <4>3. u \notin spoilt
        BY <1>3, <3>2, <4>1, Spoils DEF Busy, Live
      <4>4. /\ req[q].step = "promote" => u \in net.admins
            /\ req[q].step \in {"load", "demote"} => u \notin net.admins
        BY <2>3, <4>1, <4>3 DEF ClassHolds, DebtsAreRight
      <4>5. CASE UpdateNetwork(p)
        <5>1. ~(req[p].op \in {"appoint", "revoke"} /\ u = v)
          BY <2>1, <3>2, <4>1, <4>2, <4>3 DEF ClassHolds, Alone, About
        <5>2. u \in net'.admins <=> u \in net.admins
          BY <2>3, <2>4, <4>2, <4>5, <5>1
        <5> QED BY <4>1, <4>4, <5>2
      <4>6. CASE ~UpdateNetwork(p)
        BY <1>3, <2>3, <4>1, <4>4, <4>6, Writes
      <4> QED BY <4>5, <4>6
    <3> QED BY <3>1, <3>2
  <2> QED BY <2>2, <2>5, <2>6, <2>7 DEF ClassHolds
<1> QED BY <1>1, <1>2, <1>3 DEF Next, Acts

\* A guest's row that is not lost stays a guest's.
LEMMA InitGuests == Init => GuestHolds
<1> SUFFICES ASSUME Init PROVE GuestHolds
  OBVIOUS
<1>1. \A p \in Procs : ~Live(p)
  BY DEF Init, Live
<1>2. \A g \in Guests : rows[g] = NoRow
  BY Basics DEF Init
<1> QED BY <1>1, <1>2 DEF GuestHolds, Class, NoRow

\* Every step keeps guests guests.
LEMMA StepGuests == TypeInv /\ GuestHolds /\ [Next]_vars => GuestHolds'
<1> SUFFICES ASSUME TypeInv, GuestHolds, [Next]_vars PROVE GuestHolds'
  OBVIOUS
<1>1. CASE UNCHANGED vars \/ Idle
  BY <1>1 DEF vars, Idle, noted, GuestHolds, Live, Class
<1>2. ASSUME NEW p \in Procs, NEW op \in Ops, NEW x \in Things, Begin(p, op, x) PROVE GuestHolds'
  <2>1. /\ ~Live(p) /\ Live(p)' /\ req'[p].op = op /\ req'[p].on = x /\ req'[p].step = First(op)
        /\ First(op) \in Early
        /\ \A q \in Procs : q # p => req'[q] = req[q]
    BY <1>2, Begins
  <2>2. UNCHANGED <<rows, unseen>>
    BY <1>2 DEF Begin
  <2>3. op = "appoint" => First(op) = "read"
    BY DEF First
  <2>4. req'[p].step # "demote"
    BY <2>1 DEF Early
  <2> QED BY <2>1, <2>2, <2>3, <2>4 DEF GuestHolds, Live, Class
<1>3. ASSUME NEW p \in Procs, Acts(p) PROVE GuestHolds'
  <2> DEFINE v == req[p].on
  <2>1. /\ Live(p) /\ WellFormed(req[p])
        /\ Live(p)' => req'[p].op = req[p].op /\ req'[p].on = v
        /\ \A q \in Procs : q # p => req'[q] = req[q]
    BY <1>3, Acting, LiveRequest DEF Moved
  <2>2. unseen \subseteq unseen'
    BY <1>3, Writes DEF CheckGuest, CheckFails
  <2> SUFFICES ASSUME NEW g \in Guests \ unseen'
               PROVE  /\ Class(g)' \in {"none", "guest"}
                      /\ \A q \in Procs : (Live(q)' /\ req'[q].on = g) =>
                           /\ req'[q].op = "appoint" => req'[q].step \in {"read", "check"}
                           /\ req'[q].step # "demote"
    BY DEF GuestHolds
  <2>3. /\ g \in Guests \ unseen /\ g \in Ids /\ Class(g) \in {"none", "guest"}
        /\ \A q \in Procs : (Live(q) /\ req[q].on = g) =>
             /\ req[q].op = "appoint" => req[q].step \in {"read", "check"}
             /\ req[q].step # "demote"
    BY <2>2, Basics DEF GuestHolds
  <2>4. CASE UpsertMember(p) /\ v = g
    <3>1. req[p].op = "guest"
      BY <2>1, <2>4, Basics DEF UpsertMember, At, WellFormed, Course, Subject
    <3>2. Class(g)' = "guest"
      BY <2>3, <2>4, <3>1 DEF UpsertMember, Class, TypeInv, RowTypes
    <3>3. req'[p].step # "demote" \/ ~Live(p)'
      BY <1>3, <2>4, Arrivals DEF UpsertMember, LoadMember, At
    <3> QED BY <2>1, <2>3, <3>1, <3>2, <3>3 DEF Live
  <2>5. CASE ~(UpsertMember(p) /\ v = g)
    <3>1. ~(Promote(p) /\ v = g) /\ ~(Demote(p) /\ v = g)
      BY <2>1, <2>3 DEF Promote, Demote, At, WellFormed, Course
    <3>2. rows'[g] = rows[g] \/ rows'[g] = NoRow
      BY <1>3, <2>3, <2>5, <3>1, Writes
         DEF UpsertMember, Promote, Demote, DeleteMember, WipeMembers, TypeInv, RowTypes
    <3>3. (Live(p)' /\ v = g) => /\ req'[p].step # "demote"
                                 /\ req'[p].op = "appoint" => req'[p].step \in {"read", "check"}
      <4> SUFFICES ASSUME Live(p)', v = g
                   PROVE  /\ req'[p].step # "demote"
                          /\ req'[p].op = "appoint" => req'[p].step \in {"read", "check"}
        OBVIOUS
      <4>1. req'[p].step # "demote"
        BY <1>3, <2>3, Arrivals
      <4>2. ASSUME req[p].op = "appoint" PROVE req'[p].step = "check"
        <5>1. req[p].step \in {"read", "check"}
          BY <2>1, <2>3, <4>2
        <5>2. ReadNetwork(p) \/ CheckGuest(p) \/ CheckFails(p) \/ Fail(p)
          BY <1>3, <5>1 DEF Acts, FindName, UpsertMember, CreateSession, UpdateNetwork, Promote,
             LoadMember, Demote, InsertChannel, UpdateChannel, DeleteChannel, LookAtClass, DeleteMember,
             DeleteSessions, ListInactive, WipeMembers, WipeChannels, WipeSessions, DeleteNetwork, At
        <5>3. ~Done(p)
          BY Ends
        <5>4. ~Fail(p) /\ ~CheckFails(p)
          BY <2>3, <5>3 DEF Fail, CheckFails
        <5>5. ~CheckGuest(p)
          <6> SUFFICES ASSUME CheckGuest(p) PROVE FALSE
            OBVIOUS
          <6>1. Class(g) # "guest"
            BY <5>3 DEF CheckGuest, RefusesPromotion
          <6>2. rows[g] = NoRow
            BY <2>3, <6>1 DEF TypeInv, RowTypes
          <6> QED BY <2>3, <6>2 DEF CheckGuest
        <5>6. ReadNetwork(p)
          BY <5>2, <5>4, <5>5
        <5> QED BY <4>2, <5>6, Reads
      <4> QED BY <2>1, <4>1, <4>2
    <3> QED BY <2>1, <2>3, <3>2, <3>3 DEF Class, Live, NoRow
  <2> QED BY <2>4, <2>5
<1> QED BY <1>1, <1>2, <1>3 DEF Next, Acts

\* An account's row and the admin list say the same, and a guest's row never rises,
\* for any accounts and any number of requests at once: what an overlap, an older
\* copy or a failure can spoil is all that can differ, and a join makes it good.
THEOREM ClassesFollowTheList == Spec => []ClassesRight
<1>1. Init => TypeInv /\ ClassHolds /\ GuestHolds
  BY InitTyped, InitClasses, InitGuests
<1>2. TypeInv /\ ClassHolds /\ GuestHolds /\ [Next]_vars => (TypeInv /\ ClassHolds /\ GuestHolds)'
  BY StepTyped, StepClasses, StepGuests
<1>3. ClassHolds => ClassesAgree
  <2> SUFFICES ASSUME ClassHolds, net.here, NEW u \in Users \ spoilt, Busy(u) = {}, rows[u] # NoRow
               PROVE  Class(u) = MemberClass(net, u)
    BY DEF ClassesAgree
  <2>1. ~Owing(u)
    BY DEF Owing, Busy, Live
  <2> QED BY <2>1 DEF ClassHolds, Settled
<1>4. GuestHolds => GuestsStayGuests
  BY DEF GuestHolds, GuestsStayGuests
<1> QED BY <1>1, <1>2, <1>3, <1>4, PTL DEF Spec, ClassesRight

-----------------------------------------------------------------------------
(* One who was kicked stays out.                                           *)

\* Every step keeps those out who were kicked.
LEMMA StepOut == TypeInv /\ OutHolds /\ [Next]_vars => OutHolds'
<1> SUFFICES ASSUME TypeInv, OutHolds, [Next]_vars PROVE OutHolds'
  OBVIOUS
<1>1. CASE UNCHANGED vars \/ Idle
  BY <1>1 DEF vars, Idle, noted, OutHolds, Live
<1>2. ASSUME NEW p \in Procs, NEW op \in Ops, NEW x \in Things, Begin(p, op, x) PROVE OutHolds'
  <2>1. /\ ~Live(p) /\ Live(p)' /\ req'[p].op = op /\ req'[p].on = x
        /\ \A q \in Procs : q # p => req'[q] = req[q]
    BY <1>2, Begins
  <2>2. /\ UNCHANGED <<rows, sessions>> /\ spoilt \subseteq spoilt'
        /\ out' \subseteq out /\ (x \in out' => ~About(op) \/ op = "kick")
    BY <1>2 DEF Begin
  <2>3. op \in {"kick", "patch"} \cup Wipes \/ x \notin out'
    <3>1. op \in {"create", "edit"} => x \notin out
      BY <1>2, Begins, Basics DEF Subject, TypeInv, StoreTypes
    <3> QED BY <2>2, <3>1 DEF About, Ops, Wipes
  <2> QED BY <2>1, <2>2, <2>3 DEF OutHolds, Live
<1>3. ASSUME NEW p \in Procs, Acts(p) PROVE OutHolds'
  <2> DEFINE v == req[p].on
  <2>1. /\ Live(p) /\ WellFormed(req[p])
        /\ Live(p)' => req'[p].op = req[p].op /\ req'[p].on = v
        /\ \A q \in Procs : q # p => req'[q] = req[q]
    BY <1>3, Acting, LiveRequest DEF Moved
  <2> SUFFICES ASSUME NEW u \in out'
               PROVE  /\ rows'[u] = NoRow
                      /\ \A q \in Procs : (Live(q)' /\ req'[q].on = u) => req'[q].op \in {"kick", "patch"} \cup Wipes
                      /\ u \notin spoilt' =>
                           \/ u \notin sessions'
                           \/ \E q \in Procs : Live(q)' /\ req'[q].on = u /\ req'[q].step = "cleanup"
    BY DEF OutHolds
  <2>2. CASE u \notin out
    <3>1. DeleteMember(p) /\ u = v /\ Busy(u) = {p}
      BY <1>3, <2>2, Writes DEF DeleteMember
    <3>2. Goto(p, "cleanup") /\ req[p].op = "kick" /\ u \in Ids
      BY <2>1, <3>1 DEF DeleteMember, At, WellFormed, Course, Subject
    <3>3. Live(p)' /\ req'[p].step = "cleanup"
      BY <2>1, <3>2, Goes
    <3>4. rows'[u] = NoRow
      BY <3>1, <3>2 DEF DeleteMember, TypeInv, RowTypes
    <3>5. \A q \in Procs : (Live(q)' /\ req'[q].on = u) => q = p
      BY <2>1, <3>1 DEF Busy, Live
    <3> QED BY <2>1, <3>1, <3>2, <3>3, <3>4, <3>5
  <2>3. CASE u \in out
    <3>1. /\ rows[u] = NoRow
          /\ \A q \in Procs : (Live(q) /\ req[q].on = u) => req[q].op \in {"kick", "patch"} \cup Wipes
          /\ u \notin spoilt =>
               \/ u \notin sessions
               \/ \E q \in Procs : Live(q) /\ req[q].on = u /\ req[q].step = "cleanup"
      BY <2>3 DEF OutHolds
    <3>2. ~((UpsertMember(p) \/ Promote(p) \/ Demote(p) \/ CreateSession(p)) /\ v = u)
      BY <2>1, <3>1 DEF UpsertMember, Promote, Demote, CreateSession, At, WellFormed, Course, Wipes
    <3>3. rows'[u] = NoRow
      <4>1. u \in Ids
        BY <2>3 DEF TypeInv, StoreTypes
      <4> QED BY <1>3, <3>1, <3>2, <4>1, Writes
              DEF UpsertMember, Promote, Demote, DeleteMember, WipeMembers, TypeInv, RowTypes
    <3>4. \A q \in Procs : (Live(q)' /\ req'[q].on = u) => req'[q].op \in {"kick", "patch"} \cup Wipes
      BY <2>1, <3>1 DEF Live
    <3>5. ASSUME u \notin spoilt', u \in sessions'
          PROVE  \E q \in Procs : Live(q)' /\ req'[q].on = u /\ req'[q].step = "cleanup"
      <4>1. u \notin spoilt
        BY <1>3, <3>2, <3>5, Spoils
      <4>2. u \in sessions /\ ~(DeleteSessions(p) /\ u = v)
        <5>1. CASE CreateSession(p)
          <6>1. ~DeleteSessions(p)
            BY <5>1 DEF CreateSession, DeleteSessions, At
          <6> QED BY <3>2, <3>5, <5>1, <6>1 DEF CreateSession
        <5>2. CASE DeleteSessions(p)
          BY <3>5, <5>2 DEF DeleteSessions, Revoked
        <5>3. CASE WipeSessions(p)
          BY <3>5, <5>3 DEF WipeSessions, Kept
        <5>4. CASE sessions' = sessions /\ ~DeleteSessions(p)
          BY <3>5, <5>4
        <5> QED BY <1>3, <5>1, <5>2, <5>3, <5>4, Writes
      <4>3. PICK q \in Procs : Live(q) /\ req[q].on = u /\ req[q].step = "cleanup"
        BY <3>1, <4>1, <4>2
      <4>4. q # p
        <5> SUFFICES ASSUME q = p PROVE FALSE
          OBVIOUS
        <5>1. DeleteSessions(p) \/ Fail(p)
          BY <1>3, <4>3 DEF Acts, ReadNetwork, FindName, UpsertMember, CreateSession, CheckGuest, CheckFails, UpdateNetwork,
             Promote, LoadMember, Demote, InsertChannel, UpdateChannel, DeleteChannel, LookAtClass, DeleteMember,
             ListInactive, WipeMembers, WipeChannels, WipeSessions, DeleteNetwork, At
        <5> QED BY <3>5, <4>2, <4>3, <5>1 DEF Fail
      <4> QED BY <2>1, <4>3, <4>4 DEF Live
    <3> QED BY <3>3, <3>4, <3>5
  <2> QED BY <2>2, <2>3
<1> QED BY <1>1, <1>2, <1>3 DEF Next, Acts

\* Nobody was kicked at the start.
LEMMA InitOut == Init => OutHolds
BY DEF Init, OutHolds

\* One who was kicked has no row and, once the kick has ended without error, no
\* token, however many joins, kicks and wipes of others run beside it: only what is
\* asked for him afterwards brings him back.
THEOREM KicksAreFinal == Spec => []KickedStaysOut
<1>1. Init => TypeInv /\ OutHolds
  BY InitTyped, InitOut
<1>2. TypeInv /\ OutHolds /\ [Next]_vars => (TypeInv /\ OutHolds)'
  BY StepTyped, StepOut
<1>3. OutHolds => KickedStaysOut
  BY DEF OutHolds, KickedStaysOut, Busy, Live
<1> QED BY <1>1, <1>2, <1>3, PTL DEF Spec

-----------------------------------------------------------------------------
(* Guests' names.                                                          *)

\* Besides an insertion, a step keeps a row's name or takes the row away.
LEMMA NamesOnlyGo ==
  ASSUME TypeInv, NEW p \in Procs, Acts(p), NEW h \in Ids, ~(UpsertMember(p) /\ req[p].on = h)
  PROVE  rows'[h].name = rows[h].name \/ rows'[h].name = 0
<1>1. CASE UpsertMember(p) \/ rows' = rows
  BY <1>1 DEF UpsertMember, TypeInv, RowTypes
<1>2. CASE Promote(p) \/ Demote(p)
  BY <1>2 DEF Promote, Demote, TypeInv, RowTypes
<1>3. CASE DeleteMember(p) \/ WipeMembers(p)
  BY <1>3 DEF DeleteMember, WipeMembers, NoRow, TypeInv, RowTypes
<1> QED BY <1>1, <1>2, <1>3, Writes

\* Nobody has a guest name at the start.
LEMMA InitNames == Init => NameHolds
<1> SUFFICES ASSUME Init PROVE NameHolds
  OBVIOUS
<1>1. \A p \in Procs : ~Naming(p)
  BY DEF Init, Naming, Live
<1>2. \A g \in Guests : rows[g].name = 0
  BY Basics DEF Init, NoRow
<1> QED BY <1>1, <1>2 DEF NameHolds, NamesDistinct

\* Every step keeps names apart.
LEMMA StepNames == TypeInv /\ NameHolds /\ [Next]_vars => NameHolds'
<1> SUFFICES ASSUME TypeInv, NameHolds, [Next]_vars PROVE NameHolds'
  OBVIOUS
<1>1. CASE UNCHANGED vars \/ Idle
  BY <1>1 DEF vars, Idle, noted, NameHolds, NamesDistinct, Naming, Live
<1>2. ASSUME NEW p \in Procs, NEW op \in Ops, NEW x \in Things, Begin(p, op, x) PROVE NameHolds'
  <2>1. /\ ~Naming(p)'
        /\ \A q \in Procs : q # p => req'[q] = req[q]
    BY <1>2, Begins DEF Naming, Early
  <2>2. UNCHANGED <<rows, twins>>
    BY <1>2 DEF Begin
  <2> QED BY <2>1, <2>2 DEF NameHolds, NamesDistinct, Naming, Live
<1>3. ASSUME NEW p \in Procs, Acts(p) PROVE NameHolds'
  <2> DEFINE v == req[p].on
  <2>1. /\ Live(p) /\ WellFormed(req[p])
        /\ Live(p)' => req'[p].op = req[p].op /\ req'[p].on = v
        /\ \A q \in Procs : q # p => req'[q] = req[q]
    BY <1>3, Acting, LiveRequest DEF Moved
  <2>2. CASE FindName(p)
    <3>1. Naming(p)' /\ req'[p].name \in FreeNames(Names) /\ req'[p].on = v /\ rows' = rows
      BY <2>1, <2>2, Finds DEF Naming, FindName
    <3>2. \A h \in Guests : rows[h].name # req'[p].name
      BY <3>1, NamesAreFree, Basics
    <3>3. \A q \in Procs : (q # p /\ Naming(q)') => {v, req[q].on} \in twins'
      BY <2>1, <2>2 DEF FindName, Naming, At, Live
    <3>4. /\ twins \subseteq twins'
          /\ \A q \in Procs : (q # p /\ Naming(q)') => Naming(q)
      BY <2>1, <2>2 DEF FindName, Naming, Live
    <3>5. \A q, w \in Procs : (Naming(q)' /\ Naming(w)' /\ q # w) => {req'[q].on, req'[w].on} \in twins'
      BY <2>1, <3>1, <3>3, <3>4 DEF NameHolds
    <3>6. \A q \in Procs, h \in Guests :
            (Naming(q)' /\ h # req'[q].on /\ rows'[h].name # 0 /\ rows'[h].name = req'[q].name)
              => {req'[q].on, h} \in twins'
      BY <2>1, <3>1, <3>2, <3>4 DEF NameHolds
    <3>7. NamesDistinct'
      BY <3>1, <3>4 DEF NameHolds, NamesDistinct
    <3> QED BY <3>5, <3>6, <3>7 DEF NameHolds
  <2>3. CASE ~FindName(p)
    <3>1. twins' = twins
      BY <1>3, <2>3, Writes
    <3>2. ~Naming(p)'
      BY <1>3, <2>1, <2>3, Arrivals DEF Naming
    <3>3. \A q \in Procs : Naming(q)' => q # p /\ Naming(q) /\ req'[q] = req[q]
      BY <2>1, <3>2 DEF Naming, Live
    <3>4. ASSUME NEW h \in Guests, NEW q \in Procs, Naming(q)', h # req'[q].on,
                 rows'[h].name # 0, rows'[h].name = req'[q].name
          PROVE  {req'[q].on, h} \in twins'
      <4>1. CASE UpsertMember(p) /\ v = h
        <5>1. Naming(p)
          BY <2>1, <4>1, Basics DEF UpsertMember, At, Naming, WellFormed, Course, Subject
        <5>2. {req[q].on, h} \in twins
          BY <3>3, <3>4, <4>1, <5>1 DEF NameHolds
        <5> QED BY <3>1, <3>3, <3>4, <5>2
      <4>2. CASE ~(UpsertMember(p) /\ v = h)
        <5>1. rows[h].name = rows'[h].name
          BY <1>3, <3>4, <4>2, NamesOnlyGo, Basics
        <5> QED BY <3>1, <3>3, <3>4, <5>1 DEF NameHolds
      <4> QED BY <4>1, <4>2
    <3>5. ASSUME UpsertMember(p), NEW h \in Guests, h # v, v \in Guests,
                 rows'[h].name # 0, rows'[h].name = rows'[v].name
          PROVE  {v, h} \in twins'
      <4>1. Naming(p)
        BY <2>1, <3>5, Basics DEF UpsertMember, At, Naming, WellFormed, Course, Subject
      <4>2. rows'[v].name = req[p].name /\ rows'[h] = rows[h]
        BY <3>5, Basics DEF UpsertMember, TypeInv, RowTypes
      <4> QED BY <3>1, <3>5, <4>1, <4>2 DEF NameHolds
    <3>6. ASSUME NEW g \in Guests, NEW h \in Guests, g # h, rows'[g].name # 0, rows'[g].name = rows'[h].name
          PROVE  {g, h} \in twins'
      <4>1. CASE UpsertMember(p) /\ v = g
        BY <3>5, <3>6, <4>1
      <4>2. CASE UpsertMember(p) /\ v = h
        <5>1. {h, g} \in twins'
          BY <3>5, <3>6, <4>2
        <5> QED BY <5>1
      <4>3. CASE ~(UpsertMember(p) /\ v \in {g, h})
        <5>1. rows[g].name = rows'[g].name /\ rows[h].name = rows'[h].name
          BY <1>3, <3>6, <4>3, NamesOnlyGo, Basics
        <5> QED BY <3>1, <3>6, <5>1 DEF NameHolds, NamesDistinct
      <4> QED BY <4>1, <4>2, <4>3
    <3> QED BY <3>1, <3>3, <3>4, <3>6 DEF NameHolds, NamesDistinct
  <2> QED BY <2>2, <2>3
<1> QED BY <1>1, <1>2, <1>3 DEF Next, Acts

\* Of two guests with one display name each had looked it up before the other was
\* inserted, for any number of guest joins at once: the name check is no lock, and
\* that is all it lets through.
THEOREM OnlyTwinsShareNames == Spec => []NamesDistinct
<1>1. Init => TypeInv /\ NameHolds
  BY InitTyped, InitNames
<1>2. TypeInv /\ NameHolds /\ [Next]_vars => (TypeInv /\ NameHolds)'
  BY StepTyped, StepNames
<1> QED BY <1>1, <1>2, PTL DEF Spec, NameHolds

-----------------------------------------------------------------------------
(* What belongs to the network.                                            *)

\* The lists are right at the start.
LEMMA InitLists == Init => ListHolds /\ LateHolds
<1> SUFFICES ASSUME Init PROVE ListHolds /\ LateHolds
  OBVIOUS
<1>1. \A p \in Procs : ~Live(p)
  BY DEF Init, Live
<1>2. net.here /\ \A c \in Chans : chans[c] = "none"
  BY DEF Init
<1> QED BY <1>1, <1>2 DEF ListHolds, LateHolds

\* Every step keeps the list of public channels.
LEMMA StepLists == TypeInv /\ ListHolds /\ [Next]_vars => ListHolds'
<1> SUFFICES ASSUME TypeInv, ListHolds, [Next]_vars PROVE ListHolds'
  OBVIOUS
<1>1. CASE UNCHANGED vars \/ Idle
  BY <1>1 DEF vars, Idle, noted, ListHolds, Live
<1>2. ASSUME NEW p \in Procs, NEW op \in Ops, NEW x \in Things, Begin(p, op, x) PROVE ListHolds'
  <2>1. ~Live(p) /\ \A q \in Procs : q # p => req'[q] = req[q]
    BY <1>2, Begins
  <2>2. UNCHANGED <<net, chans, opened>> /\ spoilt \subseteq spoilt'
    BY <1>2 DEF Begin
  <2> QED BY <2>1, <2>2 DEF ListHolds, Live
<1>3. ASSUME NEW p \in Procs, Acts(p) PROVE ListHolds'
  <2> DEFINE v == req[p].on
             Pending(c, q) == Live(q) /\ req[q].on = c /\ req[q].op = "publish" /\ req[q].step \in {"read", "update"}
  <2>1. /\ Live(p) /\ WellFormed(req[p])
        /\ Live(p)' => req'[p].op = req[p].op /\ req'[p].on = v
        /\ \A q \in Procs : q # p => req'[q] = req[q]
    BY <1>3, Acting, LiveRequest DEF Moved
  <2> SUFFICES ASSUME net'.here, NEW c \in Chans \ (spoilt' \cup opened'), chans'[c] = "public"
               PROVE  c \in net'.pubs \/ \E q \in Procs : Pending(c, q)'
    BY DEF ListHolds
  <2>2. net.here /\ ~DeleteNetwork(p)
    BY <1>3, Writes DEF UpdateNetwork, DeleteNetwork
  <2>3. c \notin spoilt
    <3>1. ~(UpsertMember(p) /\ c = v)
      BY <2>1, Basics DEF UpsertMember, At, WellFormed, Course, Subject
    <3> QED BY <1>3, <3>1, Spoils
  <2>4. CASE InsertChannel(p) /\ c = v
    <3>1. req[p].op = "publish"
      BY <2>1, <2>4, Basics DEF InsertChannel, TypeInv, StoreTypes
    <3>2. Goto(p, "read")
      BY <2>4, <3>1 DEF InsertChannel
    <3>3. Live(p)' /\ req'[p].step = "read"
      BY <2>1, <3>2, Goes
    <3> QED BY <2>1, <2>4, <3>1, <3>3
  <2>9. ASSUME ~(InsertChannel(p) /\ c = v) PROVE chans[c] = "public" /\ c \notin opened
    <3>1. chans[c] = "public" \/ (UpdateChannel(p) /\ c = v /\ chans[c] = "private")
      BY <1>3, <2>9, Writes DEF InsertChannel, UpdateChannel, DeleteChannel, WipeChannels, TypeInv, StoreTypes
    <3>2. ~(UpdateChannel(p) /\ c = v /\ chans[c] = "private")
      BY DEF UpdateChannel, TypeInv, StoreTypes
    <3>3. c \notin opened
      BY <1>3, <2>9, Writes DEF InsertChannel, UpdateChannel
    <3> QED BY <3>1, <3>2, <3>3
  \* An update that spoils no channel's listing lists what it read.
  <2>5. ASSUME UpdateNetwork(p)
        PROVE  c \in net.pubs \/ (req[p].op = "publish" /\ c = v) => c \in net'.pubs
    <3>1. /\ net' = Effect(req[p]) /\ req[p].step = "update" /\ net \in Nets
          /\ c \in Listed(req[p].net) <=> c \in Listed(net)
      BY <2>2, <2>5, Basics DEF UpdateNetwork, At, TypeInv, StoreTypes
    <3>2. req[p].net \in Nets
      BY <2>1, <3>1, EffectTypes
    <3>3. c \in req[p].net.pubs <=> c \in net.pubs
      BY <3>1, <3>2, Basics DEF Listed, Nets
    <3> QED BY <2>1, <3>1, <3>3, EffectTypes
  <2>6. CASE c \in net.pubs
    BY <1>3, <2>2, <2>5, <2>6, Writes
  <2>7. ASSUME NEW q \in Procs, Pending(c, q) PROVE c \in net'.pubs \/ Pending(c, q)'
    <3>1. CASE q # p
      BY <2>1, <2>7, <3>1 DEF Live
    <3>2. CASE q = p
      <4>1. ReadNetwork(p) \/ UpdateNetwork(p) \/ Fail(p)
        BY <1>3, <2>7, <3>2 DEF Acts, FindName, UpsertMember, CreateSession, CheckGuest, CheckFails,
           Promote, LoadMember, Demote, InsertChannel, UpdateChannel, DeleteChannel, LookAtClass, DeleteMember,
           DeleteSessions, ListInactive, WipeMembers, WipeChannels, WipeSessions, DeleteNetwork, At
      <4>2. CASE ReadNetwork(p)
        <5>1. Live(p)' /\ req'[p].step = "update"
          BY <2>2, <2>7, <3>2, <4>2, Reads
        <5> QED BY <2>1, <2>7, <3>2, <5>1
      <4>3. CASE UpdateNetwork(p)
        BY <2>5, <2>7, <3>2, <4>3
      <4>4. CASE Fail(p)
        BY <2>7, <3>2, <4>4 DEF Fail
      <4> QED BY <4>1, <4>2, <4>3, <4>4
    <3> QED BY <3>1, <3>2
  <2>8. CASE ~(InsertChannel(p) /\ c = v) /\ c \notin net.pubs
    BY <2>2, <2>3, <2>7, <2>8, <2>9 DEF ListHolds
  <2> QED BY <2>4, <2>6, <2>8
<1> QED BY <1>1, <1>2, <1>3 DEF Next, Acts

\* A step adds nothing to the network but whom or what its request is about.
LEMMA Additions ==
  ASSUME TypeInv, NEW p \in Procs, Acts(p)
  PROVE  /\ Members' \subseteq Members \cup {req[p].on}
         /\ sessions' \subseteq sessions \cup {req[p].on}
         /\ Channels' \subseteq Channels \cup {req[p].on}
<1>1. Members' \subseteq Members \cup {req[p].on}
  <2>1. CASE UpsertMember(p) \/ Promote(p) \/ Demote(p) \/ DeleteMember(p) \/ rows' = rows
    BY <2>1 DEF UpsertMember, Promote, Demote, DeleteMember, Members, TypeInv, RowTypes
  <2>2. CASE WipeMembers(p)
    BY <2>2 DEF WipeMembers, Members
  <2> QED BY <2>1, <2>2, Writes
<1>2. sessions' \subseteq sessions \cup {req[p].on}
  BY Writes DEF CreateSession, DeleteSessions, WipeSessions, Kept
<1>3. Channels' \subseteq Channels \cup {req[p].on}
  <2>1. CASE InsertChannel(p) \/ UpdateChannel(p) \/ DeleteChannel(p) \/ chans' = chans
    BY <2>1 DEF InsertChannel, UpdateChannel, DeleteChannel, Channels, TypeInv, StoreTypes
  <2>2. CASE WipeChannels(p)
    BY <2>2 DEF WipeChannels, Channels
  <2> QED BY <2>1, <2>2, Writes
<1> QED BY <1>1, <1>2, <1>3

\* Every step keeps what outlives the network within what was late.
LEMMA StepLate == TypeInv /\ LateHolds /\ [Next]_vars => LateHolds'
<1> SUFFICES ASSUME TypeInv, LateHolds, [Next]_vars PROVE LateHolds'
  OBVIOUS
<1>1. CASE UNCHANGED vars \/ Idle
  BY <1>1 DEF vars, Idle, noted, LateHolds, Members, Channels, Live
<1>2. ASSUME NEW p \in Procs, NEW op \in Ops, NEW x \in Things, Begin(p, op, x) PROVE LateHolds'
  <2>1. /\ ~Live(p) /\ req'[p].op = op /\ req'[p].on = x
        /\ req'[p].step \notin {"channels", "sessions", "unlink"}
        /\ \A q \in Procs : q # p => req'[q] = req[q]
    BY <1>2, Begins
  <2>2. /\ UNCHANGED <<net, rows, sessions, chans>> /\ late \subseteq late'
        /\ ~net.here => x \in late'
        /\ \A q \in Procs : req[q].op = "delete" => x \in late'
        /\ op = "delete" => \A q \in Procs : Live(q) => req[q].on \in late'
    BY <1>2 DEF Begin, Live
  <2>3. ~net'.here => /\ Members' \cup sessions' \cup Channels' \subseteq late'
                      /\ \A q \in Procs : Live(q)' => req'[q].on \in late'
    BY <2>1, <2>2 DEF LateHolds, Members, Channels, Live
  <2>4. ASSUME NEW q \in Procs, Live(q)', req'[q].op = "delete"
        PROVE  /\ \A w \in Procs : (w # q /\ Live(w)') => req'[w].on \in late'
               /\ req'[q].step \in {"channels", "sessions", "unlink"} => Members' \subseteq late'
               /\ req'[q].step \in {"sessions", "unlink"} => Channels' \subseteq late'
               /\ req'[q].step = "unlink" => sessions' \subseteq late'
    <3>1. CASE q = p
      BY <2>1, <2>2, <2>4, <3>1 DEF Live
    <3>2. CASE q # p
      BY <2>1, <2>2, <2>4, <3>2 DEF LateHolds, Members, Channels, Live
    <3> QED BY <3>1, <3>2
  <2> QED BY <2>3, <2>4 DEF LateHolds
<1>3. ASSUME NEW p \in Procs, Acts(p) PROVE LateHolds'
  <2> DEFINE v == req[p].on
  <2>1. /\ Live(p) /\ WellFormed(req[p])
        /\ Live(p)' => req'[p].op = req[p].op /\ req'[p].on = v
        /\ \A q \in Procs : q # p => req'[q] = req[q]
    BY <1>3, Acting, LiveRequest DEF Moved
  <2>2. late' = late
    BY <1>3, Writes
  <2>3. CASE DeleteNetwork(p)
    <3>1. /\ req[p].op = "delete" /\ req[p].step = "unlink" /\ ~Live(p)'
          /\ UNCHANGED <<rows, sessions, chans>>
      BY <2>1, <2>3, Ends DEF DeleteNetwork, At, WellFormed, Course
    <3>2. /\ Members \cup sessions \cup Channels \subseteq late
          /\ \A q \in Procs : (q # p /\ Live(q)) => req[q].on \in late
      BY <2>1, <3>1 DEF LateHolds
    <3>3. ASSUME NEW q \in Procs, Live(q)'
          PROVE  q # p /\ Live(q) /\ req'[q] = req[q] /\ req'[q].on \in late'
      BY <2>1, <2>2, <3>1, <3>2, <3>3 DEF Live
    <3>4. Members' = Members /\ Channels' = Channels
      BY <3>1 DEF Members, Channels
    <3> QED BY <2>2, <3>1, <3>2, <3>3, <3>4 DEF LateHolds
  <2>4. CASE ~DeleteNetwork(p)
    <3>1. net'.here = net.here
      <4>1. CASE UpdateNetwork(p)
        <5>1. req[p].step = "update" /\ (net' = net \/ (net.here /\ net' = Effect(req[p])))
          BY <4>1 DEF UpdateNetwork, At
        <5>2. Effect(req[p]).here = req[p].net.here /\ req[p].net.here /\ req[p].net \in Nets
          BY <2>1, <5>1, EffectTypes DEF WellFormed, Copied, Later
        <5> QED BY <5>1, <5>2 DEF Nets, TypeInv, StoreTypes
      <4> QED BY <1>3, <2>4, <4>1, Writes
    <3>2. v \in late => /\ Members' \subseteq Members \cup late
                        /\ sessions' \subseteq sessions \cup late /\ Channels' \subseteq Channels \cup late
      BY <1>3, Additions
    <3>3. ~net'.here => /\ Members' \cup sessions' \cup Channels' \subseteq late'
                        /\ \A q \in Procs : Live(q)' => req'[q].on \in late'
      <4>1. SUFFICES ASSUME ~net.here
                     PROVE  /\ Members' \cup sessions' \cup Channels' \subseteq late
                            /\ \A q \in Procs : Live(q)' => req'[q].on \in late
        BY <2>2, <3>1
      <4>2. /\ v \in late /\ Members \cup sessions \cup Channels \subseteq late
            /\ \A q \in Procs : Live(q) => req[q].on \in late
        BY <2>1, <4>1 DEF LateHolds
      <4> QED BY <2>1, <3>2, <4>2 DEF Live
    <3>4. ASSUME NEW q \in Procs, Live(q)', req'[q].op = "delete"
          PROVE  /\ \A w \in Procs : (w # q /\ Live(w)') => req'[w].on \in late'
                 /\ req'[q].step \in {"channels", "sessions", "unlink"} => Members' \subseteq late'
                 /\ req'[q].step \in {"sessions", "unlink"} => Channels' \subseteq late'
                 /\ req'[q].step = "unlink" => sessions' \subseteq late'
      <4>1. Live(q) /\ req[q].op = "delete"
        BY <2>1, <3>4 DEF Live
      <4>2. \A w \in Procs : (w # q /\ Live(w)) => req[w].on \in late
        BY <4>1 DEF LateHolds
      <4>3. \A w \in Procs : (w # q /\ Live(w)') => req'[w].on \in late'
        BY <2>1, <2>2, <4>2 DEF Live
      <4>4. CASE q # p
        BY <2>1, <2>2, <3>2, <3>4, <4>1, <4>2, <4>3, <4>4 DEF LateHolds
      <4>5. CASE q = p
        <5>1. CASE WipeMembers(p)
          <6>1. Members' = {} /\ Goto(p, "channels")
            BY <5>1 DEF WipeMembers, Members
          <6> QED BY <2>1, <4>3, <4>5, <6>1, Goes
        <5>2. CASE WipeChannels(p)
          <6>1. Channels' = {} /\ Members' = Members /\ Goto(p, "sessions") /\ req[p].step = "channels"
            BY <5>2 DEF WipeChannels, Channels, Members, At
          <6> QED BY <2>1, <2>2, <4>1, <4>3, <4>5, <6>1, Goes DEF LateHolds
        <5>3. CASE WipeSessions(p)
          <6>1. /\ sessions' = {} /\ Members' = Members /\ Channels' = Channels
                /\ req[p].step = "sessions"
            BY <5>3 DEF WipeSessions, Channels, Members, At, Kept
          <6> QED BY <2>2, <4>1, <4>3, <4>5, <6>1 DEF LateHolds
        <5>4. CASE ~(WipeMembers(p) \/ WipeChannels(p) \/ WipeSessions(p))
          <6>1. req'[p].step \notin {"channels", "sessions", "unlink"}
            BY <1>3, <3>4, <4>5, <5>4, Arrivals
          <6> QED BY <4>3, <4>5, <6>1
        <5> QED BY <5>1, <5>2, <5>3, <5>4
      <4> QED BY <4>4, <4>5
    <3> QED BY <3>3, <3>4 DEF LateHolds
  <2> QED BY <2>3, <2>4
<1> QED BY <1>1, <1>2, <1>3 DEF Next, Acts

\* The network's list knows every public channel whose listing no older copy and no
\* failure has spoilt, and what is left of a deleted network was asked for beside its
\* deletion or after, for any requests between the deletion's four statements.
THEOREM NothingBelongsToNoOne == Spec => []BelongingsRight
<1>1. Init => TypeInv /\ ListHolds /\ LateHolds
  BY InitTyped, InitLists
<1>2. TypeInv /\ ListHolds /\ LateHolds /\ [Next]_vars => (TypeInv /\ ListHolds /\ LateHolds)'
  BY StepTyped, StepLists, StepLate
<1>3. ListHolds => PublicListed
  BY DEF ListHolds, PublicListed, Busy, Live
<1>4. LateHolds => RemainsAreLate
  BY DEF LateHolds, RemainsAreLate, Members, Channels
<1> QED BY <1>1, <1>2, <1>3, <1>4, PTL DEF Spec, BelongingsRight
=============================================================================
