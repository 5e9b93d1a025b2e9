------------------------------- MODULE History -------------------------------
(***************************************************************************)
(* Envelopes, history pages, retention, read cursors and the inbox, over   *)
(* either store (internal/store; server/messages.go, inbox.go,             *)
(* retention.go, relay.go inbound).  `kind` says which store the process   *)
(* was started with and never changes.  A step is one store call; in       *)
(* Postgres an insert takes its sequence number before others see its row. *)
(* A client lists a channel's history or its inbox page by page while all  *)
(* the others go on.                                                       *)
(***************************************************************************)
EXTENDS Integers, Sequences, FiniteSets, SequencesExt, FiniteSetsExt

CONSTANTS
  Chans,    \* channels of the account's network; numbers, ordered like ids
  Ids,      \* envelope ids that senders choose and the hub delivers
  ChanOf,   \* the channel an id is used in (the dedup key is the pair)
  Kept,     \* channels created without a retention, the others with a day's
  Senders,  \* goroutines in sendMessage
  Limit,    \* page size of every listing
  InboxCaps,  \* what inboxMaxEntries may be (500 in the code)
  Cap,      \* ChannelBytesCap, each envelope counting 1
  Marks,    \* bound: the numbers that devices report as read
  MaxDay,   \* bound: days that pass
  MaxCalls  \* bound: requests and deliveries

ASSUME HistoryAssumption ==
  /\ Chans \subseteq Nat \ {0} /\ IsFiniteSet(Chans) /\ Kept \subseteq Chans /\ ChanOf \in [Ids -> Chans]
  /\ IsFiniteSet(Senders) /\ "hub" \notin Senders
  /\ {Limit, MaxDay} \cup InboxCaps \subseteq Nat \ {0} /\ {Cap, MaxCalls} \subseteq Nat
  /\ Marks \subseteq Int

VARIABLES
  kind,       \* which Store main.go opened
  most,       \* inboxMaxEntries, the most an inbox scan returns; it never changes
  rows,       \* envelopes of a channel that readers see, by sequence number
  ids,        \* ids the deduplication knows (envIDs, UNIQUE(channel_id, id))
  counter,    \* last sequence number (chanSeq per channel, one BIGSERIAL)
  read,       \* the account's read cursors, None where it has no row
  retention,  \* retentionDays of a channel, Keep for nil, Gone once deleted
  today,      \* the clock, in days and a little
  sending,    \* where each sendMessage or the relay's inbound stands
  sweep,      \* retention sweep: the channels to do, as it read them and the clock
  reader,     \* the client's listing
  calls,      \* bound: calls made so far
  moved       \* history: what changed since the listing began

store == <<rows, ids, counter>>
vars == <<kind, most, store, read, retention, today, sending, sweep, reader, calls, moved>>

None   == MaxCalls + 1
Hub    == "hub"
Procs  == Senders \cup {Hub}
Idle   == [step |-> "idle"]
Stored(c) == {rows[c][i] : i \in DOMAIN rows[c]}
IdsOf(c)  == {r.id : r \in Stored(c)}
Keep == MaxDay + 1
Gone == MaxDay + 2
Exists(c) == retention[c] # Gone

\* The elements of s that are in T, in their order.
Only(s, T) ==
  LET F[i \in 0 .. Len(s)] ==
        IF i = 0 THEN <<>> ELSE IF s[i] \in T THEN Append(F[i - 1], s[i]) ELSE F[i - 1]
  IN F[Len(s)]

-----------------------------------------------------------------------------
(* Appending.                                                              *)

\* One sequence per channel in memory, one for all channels in Postgres.
Bump(c) == IF kind = "mem" THEN [counter EXCEPT ![c] = @ + 1]
                           ELSE [d \in Chans |-> counter[d] + 1]

\* Wrong version: the channel may grow one envelope further before it is full.
OverByteCapLate(c) == Len(rows[c]) > Cap + 1

\* overByteCap: the bytes stored now, without the envelope to come.
OverByteCap(c) == Len(rows[c]) > Cap

\* sendMessage up to sendAllowed: the channel exists and is not over its cap.
AcceptSend(p, e) ==
  LET c == ChanOf[e] IN
  /\ p # Hub /\ sending[p].step = "idle"
  /\ Exists(c) /\ ~OverByteCap(c)
  /\ sending' = [sending EXCEPT ![p] = [step |-> "append", ch |-> c, id |-> e]]
  /\ UNCHANGED <<kind, store, read, retention, today, sweep, reader>>

\* inbound: a known channel, and no cap.
Inbound(e) ==
  LET c == ChanOf[e] IN
  /\ sending[Hub].step = "idle" /\ Exists(c)
  /\ sending' = [sending EXCEPT ![Hub] = [step |-> "append", ch |-> c, id |-> e]]
  /\ UNCHANGED <<kind, store, read, retention, today, sweep, reader>>

\* A known id stores nothing.
KnownId(p) ==
  /\ sending[p].step = "append" /\ sending[p].id \in ids[sending[p].ch]
  /\ counter' = IF kind = "pg" THEN Bump(sending[p].ch) ELSE counter
  /\ sending' = [sending EXCEPT ![p] = Idle]
  /\ UNCHANGED <<kind, rows, ids, read, retention, today, sweep, reader>>

\* Wrong version: the id is not noted.
MemAppendUnnoted(p, c, e) ==
  /\ rows' = [rows EXCEPT ![c] = Append(@, [id |-> e, by |-> p, day |-> today, seq |-> counter[c] + 1])]
  /\ UNCHANGED ids

\* MemStore.AppendEnvelope, all of it under the store's mutex.
MemAppend(p, c, e) ==
  /\ rows' = [rows EXCEPT ![c] = Append(@, [id |-> e, by |-> p, day |-> today, seq |-> counter[c] + 1])]
  /\ ids' = [ids EXCEPT ![c] = @ \cup {e}]

StoreInMemory(p) ==
  LET c == sending[p].ch  e == sending[p].id IN
  /\ kind = "mem" /\ sending[p].step = "append" /\ e \notin ids[c]
  /\ MemAppend(p, c, e)
  /\ counter' = Bump(c)
  /\ sending' = [sending EXCEPT ![p] = Idle]
  /\ UNCHANGED <<kind, read, retention, today, sweep, reader>>

\* PGStore.AppendEnvelope: the insert has its number, its row is not visible yet.
PgInsert(p) ==
  LET c == sending[p].ch  e == sending[p].id IN
  /\ kind = "pg" /\ sending[p].step = "append" /\ e \notin ids[c]
  /\ ids' = [ids EXCEPT ![c] = @ \cup {e}]
  /\ counter' = Bump(c)
  /\ sending' = [sending EXCEPT ![p] = [step |-> "commit", ch |-> c,
                   row |-> [id |-> e, by |-> p, day |-> today, seq |-> counter[c] + 1]]]
  /\ UNCHANGED <<kind, rows, read, retention, today, sweep, reader>>

\* The row is visible, in its place by sequence number.
PgCommit(p) ==
  LET c == sending[p].ch
      before == Only(rows[c], {r \in Stored(c) : r.seq < sending[p].row.seq})
      after  == Only(rows[c], {r \in Stored(c) : r.seq > sending[p].row.seq}) IN
  /\ sending[p].step = "commit"
  /\ rows' = [rows EXCEPT ![c] = before \o <<sending[p].row>> \o after]
  /\ sending' = [sending EXCEPT ![p] = Idle]
  /\ UNCHANGED <<kind, ids, counter, read, retention, today, sweep, reader>>

-----------------------------------------------------------------------------
(* Retention.                                                              *)

\* patchChannel, as far as retention goes.
PatchRetention(c, days) ==
  /\ Exists(c) /\ retention' = [retention EXCEPT ![c] = days]
  /\ UNCHANGED <<kind, store, read, today, sending, sweep, reader>>

\* deleteChannel: the memory store drops the envelopes, Postgres only the row.
DeleteChannel(c) ==
  /\ Exists(c) /\ retention' = [retention EXCEPT ![c] = Gone]
  /\ rows' = IF kind = "mem" THEN [rows EXCEPT ![c] = <<>>] ELSE rows
  /\ ids' = IF kind = "mem" THEN [ids EXCEPT ![c] = {}] ELSE ids
  /\ UNCHANGED <<kind, counter, read, today, sending, sweep, reader>>

\* sweepEnvelopeRetention: list the channels that have a retention, read the clock.
ListRetention ==
  /\ sweep = {}
  /\ sweep' = {[ch |-> c, days |-> retention[c], now |-> today] : c \in {d \in Chans : retention[d] <= MaxDay}}
  /\ UNCHANGED <<kind, store, read, retention, today, sending, reader>>

\* DeleteEnvelopes for retention 0, DeleteEnvelopesBefore otherwise.
Expired(job, r) == job.days = 0 \/ r.day + job.days <= job.now

SweepChannel(job) ==
  LET c == job.ch
      out == {r \in Stored(c) : Expired(job, r)} IN
  /\ job \in sweep
  /\ rows' = [rows EXCEPT ![c] = Only(@, Stored(c) \ out)]
  /\ ids' = [ids EXCEPT ![c] = @ \ {r.id : r \in out}]
  /\ sweep' = sweep \ {job}
  /\ UNCHANGED <<kind, counter, read, retention, today, sending, reader>>

NextDay ==
  /\ today < MaxDay /\ today' = today + 1
  /\ UNCHANGED <<kind, store, read, retention, sending, sweep, reader>>

-----------------------------------------------------------------------------
(* Read cursors.                                                           *)

\* ChannelMaxSeq: of all there ever were in memory, of those left in Postgres.
ChannelMaxSeq(c) == IF kind = "mem" THEN counter[c]
                    ELSE Max({r.seq : r \in Stored(c)} \cup {0})

\* Wrong version: the client's number is believed.
ClampNothing(c, n) == n

\* The clamp of both MarkRead versions.
Clamp(c, n) == Min({n, ChannelMaxSeq(c)})

\* MarkRead: forward only; in memory a mark at 0 or below leaves no row.
MemMark(c, n) == IF read[c] = None /\ Clamp(c, n) <= 0 THEN None
                 ELSE Max({Clamp(c, n), IF read[c] = None THEN 0 ELSE read[c]})
\* Wrong version: the last device to report wins.
PgMarkLast(c, n) == Clamp(c, n)

\* LEAST within, GREATEST against the row that is there; a first row takes even a
\* number below 0.
PgMark(c, n)  == IF read[c] = None THEN Clamp(c, n) ELSE Max({Clamp(c, n), read[c]})

\* markChannelRead: all of it, a number, or an envelope of the channel.  The
\* number may be any, so that one read before the write needs no step of its own.
MarkChannelRead(c, n) ==
  /\ Exists(c)
  /\ read' = [read EXCEPT ![c] = IF kind = "mem" THEN MemMark(c, n) ELSE PgMark(c, n)]
  /\ UNCHANGED <<kind, store, retention, today, sending, sweep, reader>>

\* InboxEntries and baselineAllReads: a first cursor at the channel's maximum.
Baseline(C) == [c \in Chans |-> IF c \in C /\ read[c] = None THEN ChannelMaxSeq(c) ELSE read[c]]

-----------------------------------------------------------------------------
(* Listings.  A page is its items and whether there are more, with the     *)
(* cursor for them.                                                        *)

Upto(n, m) == IF n < m THEN n ELSE m

\* MemStore.Envelopes: the cursor is a position in the slice.
MemPage(c, cursor) ==
  LET end == IF cursor = 0 THEN Len(rows[c]) ELSE cursor - 1
      start == IF end > Limit THEN end - Limit ELSE 0 IN
  [items |-> SubSeq(rows[c], start + 1, end), more |-> start > 0, next |-> start + 1]

\* Wrong version: the cursor is the number of the look-ahead row.
PgPageLookahead(c, cursor) ==
  LET older == Only(rows[c], {r \in Stored(c) : cursor = 0 \/ r.seq < cursor})
      n == Len(older) IN
  [items |-> SubSeq(older, IF n > Limit THEN n - Limit + 1 ELSE 1, n),
   more |-> n > Limit, next |-> IF n > Limit THEN older[n - Limit].seq ELSE 0]

\* envelopesDescQuery and buildChatPage: the cursor is the oldest row's number.
PgPage(c, cursor) ==
  LET older == Only(rows[c], {r \in Stored(c) : cursor = 0 \/ r.seq < cursor})
      n == Len(older) IN
  [items |-> SubSeq(older, IF n > Limit THEN n - Limit + 1 ELSE 1, n),
   more |-> n > Limit, next |-> IF n > Limit THEN older[n - Limit + 1].seq ELSE 0]

UnknownCursor == kind = "mem" /\ reader.what = "history" /\ reader.cursor > Len(rows[reader.ch])

\* Newest activity first, then the larger id (inboxCursorKey.before).
Before(a, b) == a.at > b.at \/ (a.at = b.at /\ a.ch > b.ch)

Top == [ch |-> 0, at |-> MaxDay + 1]   \* no cursor yet

Activity(r, c) == IF r[c] = <<>> THEN 0 ELSE Last(r[c]).day
Views == {[ch |-> c, at |-> Activity(rows, c)] : c \in {d \in Chans : Exists(d)}}

\* The store stops at inboxMaxEntries, and has them in no order: the memory store
\* ranges over a map, the query has a LIMIT and no ORDER BY.
Scans == {S \in SUBSET Views : Cardinality(S) = Upto(most, Cardinality(Views))}

\* Wrong version: the page begins at the cursor's own entry.
SliceInboxAt(scan, cursor) == {v \in scan : ~Before(v, cursor)}

\* sliceInbox: the views strictly below the cursor's key.
SliceInbox(scan, cursor) == {v \in scan : Before(cursor, v)}

\* How many of the views in S come before v.
Rank(S, v) == Cardinality({w \in S : Before(w, v)})

InboxPage(scan, cursor) ==
  LET below == SliceInbox(scan, cursor)
      items == [i \in 1 .. Upto(Limit, Cardinality(below)) |-> CHOOSE v \in below : Rank(below, v) = i - 1] IN
  [items |-> items, more |-> Cardinality(below) > Limit,
   next |-> IF items = <<>> THEN cursor ELSE Last(items)]

HistoryPage == IF kind = "mem" THEN MemPage(reader.ch, reader.cursor)
                               ELSE PgPage(reader.ch, reader.cursor)

\* A client's listing, with what scans have left out of it as history.
Resting == [what |-> "none", ch |-> 0, step |-> "done", cursor |-> 0, got |-> <<>>, cut |-> {}]

\* A client begins to list; the inbox first makes sure of the read cursors.
StartListing(what, c) ==
  /\ reader.step \in {"done", "failed"}
  /\ what = "history" => Exists(c)
  /\ reader' = [what |-> what, ch |-> c, got |-> <<>>, cut |-> {}, cursor |-> IF what = "inbox" THEN Top ELSE 0,
                step |-> IF what = "inbox" THEN "baseline" ELSE "page"]
  /\ UNCHANGED <<kind, store, read, retention, today, sending, sweep>>

\* Postgres sets the cursors in a statement of its own.
BaselineReads ==
  /\ reader.step = "baseline" /\ kind = "pg"
  /\ read' = Baseline({c \in Chans : Exists(c)})
  /\ reader' = [reader EXCEPT !.step = "page"]
  /\ UNCHANGED <<kind, store, retention, today, sending, sweep>>

\* getMessages answers one page.
AnswerHistory ==
  /\ reader.step = "page" /\ reader.what = "history" /\ Exists(reader.ch) /\ ~UnknownCursor
  /\ reader' = [reader EXCEPT !.got = HistoryPage.items \o @, !.cursor = HistoryPage.next,
                              !.step = IF HistoryPage.more THEN "page" ELSE "done"]
  /\ UNCHANGED <<kind, store, read, retention, today, sending, sweep>>

\* getInbox answers one page; the memory store sets the first cursors of what it
\* scans on the way.
AnswerInbox(scan) ==
  LET page == InboxPage(scan, reader.cursor) IN
  /\ reader.what = "inbox" /\ reader.step = IF kind = "mem" THEN "baseline" ELSE "page"
  /\ reader' = [reader EXCEPT !.got = @ \o page.items, !.cursor = page.next,
                              !.step = IF page.more THEN "baseline" ELSE "done",
                              !.cut = @ \cup {v.ch : v \in Views \ scan}]
  /\ read' = IF kind = "mem" THEN Baseline({v.ch : v \in scan}) ELSE read
  /\ UNCHANGED <<kind, store, retention, today, sending, sweep>>

AnswerPage == AnswerHistory \/ \E scan \in Scans : AnswerInbox(scan)

\* The channel is gone, or the memory store does not know the position any more.
AnswerNotFound ==
  /\ reader.step = "page" /\ reader.what = "history"
  /\ ~Exists(reader.ch) \/ UnknownCursor
  /\ reader' = [reader EXCEPT !.step = "failed"]
  /\ UNCHANGED <<kind, store, read, retention, today, sending, sweep>>

-----------------------------------------------------------------------------
\* What the history variables note of every step.
Begins == reader.step \in {"done", "failed"} /\ reader'.step \in {"page", "baseline"}

Observe ==
  /\ moved' = IF Begins
       THEN [rose |-> {}, fell |-> {}, lost |-> {},
             had |-> IF reader'.what = "history" THEN Stored(reader'.ch) ELSE {}]
       ELSE IF reader'.step \in {"done", "failed"} THEN moved
       ELSE [moved EXCEPT
              !.rose = @ \cup {c \in Chans : Activity(rows', c) > Activity(rows, c)},
              !.fell = @ \cup {c \in Chans : Activity(rows', c) < Activity(rows, c)},
              !.lost = @ \cup UNION {Stored(c) \ Stored(c)' : c \in Chans}]

Init ==
  /\ kind \in {"mem", "pg"} /\ most \in InboxCaps
  /\ rows = [c \in Chans |-> <<>>] /\ ids = [c \in Chans |-> {}]
  /\ counter = [c \in Chans |-> 0] /\ read = [c \in Chans |-> None]
  /\ retention = [c \in Chans |-> IF c \in Kept THEN Keep ELSE 1]
  /\ today = 1
  /\ sending = [p \in Procs |-> Idle]
  /\ sweep = {}
  /\ reader = Resting /\ calls = 0
  /\ moved = [rose |-> {}, fell |-> {}, lost |-> {}, had |-> {}]

Send     == \E p \in Senders, e \in Ids : AcceptSend(p, e)
Receive  == \E e \in Ids : Inbound(e)
Store    == \E p \in Procs : KnownId(p) \/ StoreInMemory(p) \/ PgInsert(p) \/ PgCommit(p)
Patch    == \E c \in Chans : DeleteChannel(c) \/ \E d \in {Keep, 0} \ {retention[c]} : PatchRetention(c, d)
Sweep    == \E job \in sweep : SweepChannel(job)
Mark     == \E c \in Chans, n \in Marks : MarkChannelRead(c, n)
List     == StartListing("inbox", 0) \/ \E c \in Chans : StartListing("history", c)

Next ==
  /\ \/ /\ Store \/ ListRetention \/ Sweep \/ NextDay
           \/ BaselineReads \/ AnswerPage \/ AnswerNotFound
        /\ UNCHANGED calls
     \/ /\ Send \/ Receive \/ Patch \/ Mark \/ List
        /\ calls < MaxCalls /\ calls' = calls + 1
  /\ Observe /\ UNCHANGED most

Spec == Init /\ [][Next]_vars

-----------------------------------------------------------------------------
TypeOK ==
  /\ kind \in {"mem", "pg"}
  /\ \A c \in Chans : /\ IdsOf(c) \subseteq ids[c] /\ ids[c] \subseteq Ids
                      /\ \A r \in Stored(c) : r.seq \in 1 .. counter[c]
                      /\ counter[c] \in 0 .. MaxCalls /\ read[c] \in Int /\ read[c] <= None
                      /\ retention[c] \in {Keep, Gone, 0, 1}
  /\ \A p \in Procs : sending[p].step \in {"idle", "append", "commit"}
  /\ reader.step \in {"baseline", "page", "done", "failed"}

\* An envelope is stored, and so relayed, once however often its sender or the
\* hub repeats it and whoever comes first, as long as retention keeps it
\* (AppendEnvelope's deduplication, messages.go:125).
EachIdOnce == \A c \in Chans : Cardinality(IdsOf(c)) = Len(rows[c])

\* A history listed to its end misses no envelope that was there throughout; it
\* repeats none unless, in memory, retention shortened the channel meanwhile.
HistoryWalk ==
  reader.what = "history" /\ reader.step = "done" =>
    /\ moved.had \ moved.lost \subseteq ToSet(reader.got)
    /\ kind = "pg" \/ moved.lost = {} =>
         \A i, j \in DOMAIN reader.got : i < j => reader.got[i].seq < reader.got[j].seq

\* An inbox listed to its end misses only conversations that rose over the
\* cursor meanwhile, or that a scan left out because there are more than
\* inboxMaxEntries, and repeats only those that fell under the cursor.
InboxWalk ==
  reader.what = "inbox" =>
    LET listed(c) == {i \in DOMAIN reader.got : reader.got[i].ch = c} IN
    \A c \in Chans :
      /\ Cardinality(listed(c)) > 1 => c \in moved.fell
      /\ reader.step = "done" /\ listed(c) = {} /\ Exists(c) => c \in moved.rose \cup reader.cut

\* A read cursor never lies above the last number given, so an envelope numbered
\* after the cursor was set is never counted as read (the clamp of MarkRead).
ReadWithinGiven == \A c \in Chans : read[c] # None => read[c] <= counter[c]

\* Senders who race past the byte cap exceed it by one envelope each at most;
\* what the hub delivers is not capped.
CapOvershoot ==
  \A c \in Chans :
    Cardinality({r \in Stored(c) : r.by # Hub}) <= Cap + Cardinality(Senders)

\* A read cursor never moves back, whatever a device reports and however much
\* retention has removed.
CursorsNeverBack == [][\A c \in Chans : read[c] # None => read'[c] # None /\ read'[c] >= read[c]]_vars
=============================================================================
