--------------------------- MODULE HistoryProofs ---------------------------
(***************************************************************************)
(* What holds of History for any channels, senders, page size and caps.    *)
(***************************************************************************)
EXTENDS History, FiniteSetTheorems, SequenceTheorems, TLAPS

-----------------------------------------------------------------------------
(* Numbers and sequences.                                                  *)

\* A set of numbers that is not empty has a smallest.
LEMMA HasSmallest ==
  ASSUME NEW T \in SUBSET Nat, T # {}
  PROVE  \E x \in T : \A y \in T : x =< y
<1> DEFINE R == StrictSubsetOrdering(Nat)
           D == FiniteSubsetsOf(Nat)
           F == {1 .. x : x \in T}
<1>1. IsWellFoundedOn(R, D)
  BY FS_StrictSubsetOrderingWellFounded
<1>2. \A x \in Nat : IsFiniteSet(1 .. x) /\ 1 .. x \in SUBSET Nat
  BY FS_Interval
<1>3. F \subseteq D /\ F # {}
  BY <1>2 DEF FiniteSubsetsOf
<1>4. PICK m \in F : \A f \in F : ~ (<<f, m>> \in R)
  <2> HIDE DEF R, D, F
  <2> QED BY <1>1, <1>3, WFMin
<1>5. PICK x \in T : m = 1 .. x
  BY <1>4
<1>6. ASSUME NEW y \in T, y < x PROVE FALSE
  <2>1. 1 .. y \subseteq 1 .. x /\ x \in 1 .. x /\ x \notin 1 .. y
    BY <1>6
  <2>2. <<1 .. y, m>> \in R
    BY <1>2, <1>5, <2>1 DEF StrictSubsetOrdering
  <2> QED BY <1>4, <2>2
<1> QED BY <1>6

\* Induction up to n, for a set.
LEMMA Upwards ==
  ASSUME NEW n \in Nat, NEW T, 0 \in T, \A i \in 0 .. n : (i < n /\ i \in T) => i + 1 \in T
  PROVE  0 .. n \subseteq T
<1> SUFFICES ASSUME (0 .. n) \ T # {} PROVE FALSE
  OBVIOUS
<1>1. PICK x \in (0 .. n) \ T : \A y \in (0 .. n) \ T : x =< y
  <2> DEFINE U == (0 .. n) \ T
  <2>1. U \in SUBSET Nat /\ U # {}
    OBVIOUS
  <2> HIDE DEF U
  <2>2. \E x \in U : \A y \in U : x =< y
    BY <2>1, HasSmallest
  <2> QED BY <2>2 DEF U
<1>2. x # 0 /\ x - 1 \in 0 .. n /\ x - 1 < x /\ x - 1 < n
  BY <1>1
<1>3. x - 1 \in T
  BY <1>1, <1>2
<1>4. (x - 1) + 1 = x
  BY <1>1
<1>5. x \in T
  BY <1>2, <1>3, <1>4
<1> QED BY <1>1, <1>5

\* Only(s, T) is the last of the values for the beginnings of s.
Grown(s, T, f, i)   == IF s[i] \in T THEN Append(f[i - 1], s[i]) ELSE f[i - 1]
Grows(s, T, f, n)   == f = [i \in 0 .. n |-> IF i = 0 THEN <<>> ELSE Grown(s, T, f, i)]

\* Only is the last of the sequences it grows.
LEMMA OnlyGrows ==
  ASSUME NEW S, NEW s \in Seq(S), NEW T
  PROVE  \E F : F[0] = <<>> /\ Only(s, T) = F[Len(s)] /\ \A i \in 1 .. Len(s) : F[i] = Grown(s, T, F, i)
<1> DEFINE Has == {n \in 0 .. Len(s) : \E f : Grows(s, T, f, n)}
<1>0. Len(s) \in Nat
  OBVIOUS
<1>1. 0 \in Has
  <2> DEFINE g == [i \in 0 .. 0 |-> <<>>]
  <2>1. g = [i \in 0 .. 0 |-> IF i = 0 THEN <<>> ELSE Grown(s, T, g, i)]
    OBVIOUS
  <2>2. Grows(s, T, g, 0)
    BY <2>1 DEF Grows
  <2> HIDE DEF g
  <2>3. 0 \in 0 .. Len(s)
    BY <1>0
  <2> QED BY <2>2, <2>3
<1>2. ASSUME NEW n \in 0 .. Len(s), n < Len(s), n \in Has PROVE n + 1 \in Has
  <2>0. n \in Nat
    BY <1>0
  <2>1. PICK f : Grows(s, T, f, n)
    BY <1>2
  <2> DEFINE g == [i \in 0 .. n + 1 |-> IF i = 0 THEN <<>> ELSE Grown(s, T, f, i)]
  <2>2. f = [i \in 0 .. n |-> IF i = 0 THEN <<>> ELSE Grown(s, T, f, i)]
    BY <2>1 DEF Grows
  <2>3. ASSUME NEW i \in 0 .. n PROVE g[i] = f[i]
    <3>1. i \in 0 .. n + 1
      BY <2>0
    <3>2. g[i] = IF i = 0 THEN <<>> ELSE Grown(s, T, f, i)
      BY <3>1
    <3>3. f[i] = IF i = 0 THEN <<>> ELSE Grown(s, T, f, i)
      BY <2>2
    <3> QED BY <3>2, <3>3
  <2>4. ASSUME NEW i \in 0 .. n + 1, i # 0 PROVE Grown(s, T, g, i) = Grown(s, T, f, i)
    <3>1. i - 1 \in 0 .. n
      BY <2>0, <2>4
    <3> HIDE DEF g
    <3> QED BY <2>3, <3>1 DEF Grown
  <2>5. g = [i \in 0 .. n + 1 |-> IF i = 0 THEN <<>> ELSE Grown(s, T, g, i)]
    <3> DEFINE h == [i \in 0 .. n + 1 |-> IF i = 0 THEN <<>> ELSE Grown(s, T, g, i)]
    <3>1. \A i \in 0 .. n + 1 : g[i] = h[i]
      BY <2>4
    <3> QED BY <3>1
  <2>6. Grows(s, T, g, n + 1)
    BY <2>5 DEF Grows
  <2> HIDE DEF g
  <2>7. n + 1 \in 0 .. Len(s)
    BY <1>0, <1>2, <2>0
  <2> QED BY <2>6, <2>7
<1>3. PICK f : Grows(s, T, f, Len(s))
  <2>1. Len(s) \in Has
    <3> HIDE DEF Has
    <3>1. 0 .. Len(s) \subseteq Has
      BY <1>0, <1>1, <1>2, Upwards
    <3> QED BY <1>0, <3>1
  <2> QED BY <2>1
<1> DEFINE F == CHOOSE g : Grows(s, T, g, Len(s))
<1>4. Grows(s, T, F, Len(s))
  BY <1>3
<1>5. Only(s, T) = F[Len(s)]
  BY DEF Only, Grows, Grown
<1> HIDE DEF F
<1>6. F = [i \in 0 .. Len(s) |-> IF i = 0 THEN <<>> ELSE Grown(s, T, F, i)]
  BY <1>4 DEF Grows
<1>7. \A i \in 0 .. Len(s) : F[i] = IF i = 0 THEN <<>> ELSE Grown(s, T, F, i)
  BY <1>6
<1>8. 0 \in 0 .. Len(s) /\ \A i \in 1 .. Len(s) : i \in 0 .. Len(s) /\ i # 0
  BY <1>0
<1> QED BY <1>5, <1>7, <1>8

\* t has those of the first n elements of s that are in T, in their order, none of
\* them behind its place in s, and all of them if all are in T.
From(s, T, n, t) ==
  /\ Len(t) =< n
  /\ \A k \in 1 .. n : s[k] \in T => \E j \in DOMAIN t : j =< k /\ t[j] = s[k]
  /\ \A j \in DOMAIN t : t[j] \in T /\ \E k \in 1 .. n : t[j] = s[k]
  /\ \A i, j \in DOMAIN t : i < j => \E k, l \in 1 .. n : k < l /\ t[i] = s[k] /\ t[j] = s[l]

Whole(s, T, n, t) == (\A k \in 1 .. n : s[k] \in T) => Len(t) = n /\ \A k \in 1 .. n : t[k] = s[k]

\* One more element keeps both facts.
LEMMA FromLonger ==
  ASSUME NEW S, NEW s \in Seq(S), NEW T, NEW n \in Nat, n < Len(s), NEW t \in Seq(S), NEW u,
         From(s, T, n, t), Whole(s, T, n, t),
         s[n + 1] \in T => u = Append(t, s[n + 1]), s[n + 1] \notin T => u = t
  PROVE  u \in Seq(S) /\ From(s, T, n + 1, u) /\ Whole(s, T, n + 1, u)
<1> DEFINE m == n + 1
           a == s[m]
<1>1. m \in 1 .. Len(s) /\ a \in S /\ m \in Nat /\ n < m /\ 1 .. m = (1 .. n) \cup {m}
  OBVIOUS
<1>2. CASE a \in T
  <2> HIDE DEF a
  <2>1. u = Append(t, a)
    BY <1>2 DEF a
  <2>2. /\ u \in Seq(S) /\ Len(u) = Len(t) + 1 /\ DOMAIN u = (DOMAIN t) \cup {Len(u)} /\ u[Len(u)] = a
        /\ Len(t) \in Nat /\ \A j \in DOMAIN t : u[j] = t[j] /\ j \in Nat /\ j =< Len(t)
    BY <1>1, <2>1
  <2>3. Len(t) =< n
    BY DEF From
  <2>4. Len(u) =< m
    BY <2>2, <2>3
  <2>5. \A k \in 1 .. m : s[k] \in T => \E j \in DOMAIN u : j =< k /\ u[j] = s[k]
    <3>1. \A k \in 1 .. n : s[k] \in T => \E j \in DOMAIN u : j =< k /\ u[j] = s[k]
      BY <2>2 DEF From
    <3>2. Len(u) \in DOMAIN u /\ Len(u) =< m /\ u[Len(u)] = s[m]
      BY <2>2, <2>4 DEF a
    <3> QED BY <1>1, <3>1, <3>2
  <2>6. \A j \in DOMAIN u : u[j] \in T /\ \E k \in 1 .. m : u[j] = s[k]
    <3>1. \A j \in DOMAIN t : t[j] \in T /\ \E k \in 1 .. m : t[j] = s[k]
      BY <1>1 DEF From
    <3>2. a \in T /\ a = s[m] /\ m \in 1 .. m
      BY <1>1, <1>2 DEF a
    <3> QED BY <2>2, <3>1, <3>2
  <2>7. ASSUME NEW i \in DOMAIN u, NEW j \in DOMAIN u, i < j
        PROVE  \E k, l \in 1 .. m : k < l /\ u[i] = s[k] /\ u[j] = s[l]
    <3>1. i \in DOMAIN t
      BY <2>2, <2>7
    <3>2. CASE j \in DOMAIN t
      <4>1. PICK k, l \in 1 .. n : k < l /\ t[i] = s[k] /\ t[j] = s[l]
        BY <2>7, <3>1, <3>2 DEF From
      <4>2. k \in 1 .. m /\ l \in 1 .. m /\ u[i] = s[k] /\ u[j] = s[l]
        BY <1>1, <2>2, <3>1, <3>2, <4>1
      <4> QED BY <4>1, <4>2
    <3>3. CASE j = Len(u)
      <4>1. PICK k \in 1 .. n : t[i] = s[k]
        BY <3>1 DEF From
      <4>2. k < m /\ k \in 1 .. m /\ m \in 1 .. m /\ u[i] = s[k] /\ u[j] = s[m]
        BY <1>1, <2>2, <3>1, <3>3, <4>1 DEF a
      <4> QED BY <4>2
    <3> QED BY <2>2, <3>2, <3>3
  <2>8. Whole(s, T, m, u)
    <3>1. SUFFICES ASSUME \A k \in 1 .. m : s[k] \in T
                   PROVE  Len(u) = m /\ \A k \in 1 .. m : u[k] = s[k]
      BY DEF Whole
    <3>2. Len(t) = n /\ \A k \in 1 .. n : t[k] = s[k]
      BY <1>1, <3>1 DEF Whole
    <3>3. Len(u) = m /\ DOMAIN t = 1 .. n
      BY <2>2, <3>2
    <3> QED BY <1>1, <2>2, <3>2, <3>3 DEF a
  <2> QED BY <2>2, <2>4, <2>5, <2>6, <2>7, <2>8 DEF From
<1>3. CASE a \notin T
  <2>1. u = t
    BY <1>3
  <2> HIDE DEF a
  <2>2. From(s, T, m, t)
    <3>1. Len(t) =< m
      BY <1>1 DEF From
    <3>2. \A k \in 1 .. m : s[k] \in T => k \in 1 .. n
      BY <1>1, <1>3 DEF a
    <3>3. \A j \in DOMAIN t : t[j] \in T /\ \E k \in 1 .. m : t[j] = s[k]
      BY <1>1 DEF From
    <3>4. \A i, j \in DOMAIN t : i < j => \E k, l \in 1 .. m : k < l /\ t[i] = s[k] /\ t[j] = s[l]
      BY <1>1 DEF From
    <3> QED BY <3>1, <3>2, <3>3, <3>4 DEF From
  <2>3. Whole(s, T, m, t)
    <3>1. m \in 1 .. m /\ s[m] \notin T
      BY <1>1, <1>3 DEF a
    <3> QED BY <3>1 DEF Whole
  <2> QED BY <2>1, <2>2, <2>3
<1> QED BY <1>2, <1>3

\* So they hold of Only itself.
LEMMA OnlyKeeps ==
  ASSUME NEW S, NEW s \in Seq(S), NEW T
  PROVE  Only(s, T) \in Seq(S) /\ From(s, T, Len(s), Only(s, T)) /\ Whole(s, T, Len(s), Only(s, T))
<1>1. PICK F : F[0] = <<>> /\ Only(s, T) = F[Len(s)] /\ \A i \in 1 .. Len(s) : F[i] = Grown(s, T, F, i)
  BY OnlyGrows
<1> DEFINE Has == {n \in 0 .. Len(s) : F[n] \in Seq(S) /\ From(s, T, n, F[n]) /\ Whole(s, T, n, F[n])}
<1>2. Len(s) \in Nat
  OBVIOUS
<1>3. 0 \in Has
  <2>1. <<>> \in Seq(S) /\ From(s, T, 0, <<>>) /\ Whole(s, T, 0, <<>>)
    BY DEF From, Whole
  <2>2. 0 \in 0 .. Len(s)
    BY <1>2
  <2> QED BY <1>1, <2>1, <2>2
<1>4. ASSUME NEW n \in 0 .. Len(s), n < Len(s), n \in Has PROVE n + 1 \in Has
  <2>1. n \in Nat /\ n + 1 \in 1 .. Len(s) /\ n + 1 \in 0 .. Len(s) /\ (n + 1) - 1 = n
    BY <1>2, <1>4
  <2>2. F[n + 1] = IF s[n + 1] \in T THEN Append(F[n], s[n + 1]) ELSE F[n]
    BY <1>1, <2>1 DEF Grown
  <2>3. F[n] \in Seq(S) /\ From(s, T, n, F[n]) /\ Whole(s, T, n, F[n])
    BY <1>4
  <2>4. F[n + 1] \in Seq(S) /\ From(s, T, n + 1, F[n + 1]) /\ Whole(s, T, n + 1, F[n + 1])
    <3> DEFINE t == F[n]
               u == F[n + 1]
    <3> HIDE DEF t, u
    <3>1. /\ t \in Seq(S) /\ From(s, T, n, t) /\ Whole(s, T, n, t)
          /\ (s[n + 1] \in T => u = Append(t, s[n + 1])) /\ (s[n + 1] \notin T => u = t)
      BY <2>2, <2>3 DEF t, u
    <3>2. u \in Seq(S) /\ From(s, T, n + 1, u) /\ Whole(s, T, n + 1, u)
      <4>1. n \in Nat /\ n < Len(s)
        BY <1>4, <2>1
      <4> HIDE DEF Has
      <4> QED BY <3>1, <4>1, FromLonger
    <3> QED BY <3>2 DEF u
  <2> QED BY <2>1, <2>4
<1>5. Len(s) \in Has
  <2> HIDE DEF Has
  <2>1. 0 .. Len(s) \subseteq Has
    BY <1>2, <1>3, <1>4, Upwards
  <2> QED BY <1>2, <2>1
<1> QED BY <1>1, <1>5

\* Rows by their numbers.
Sorted(s) == \A i, j \in DOMAIN s : i < j => s[i].seq < s[j].seq
Els(s)    == {s[i] : i \in DOMAIN s}

\* Only keeps what it should, and the order.
LEMMA OnlySorted ==
  ASSUME NEW S, NEW s \in Seq(S), NEW T
  PROVE  /\ Only(s, T) \in Seq(S) /\ Els(Only(s, T)) = Els(s) \cap T
         /\ Sorted(s) => Sorted(Only(s, T))
<1> DEFINE t == Only(s, T)
<1>1. DOMAIN s = 1 .. Len(s) /\ Len(s) \in Nat /\ t \in Seq(S) /\ From(s, T, Len(s), t)
  BY OnlyKeeps
<1> HIDE DEF t
<1>2. Els(t) = Els(s) \cap T
  <2>1. ASSUME NEW j \in DOMAIN t PROVE t[j] \in Els(s) \cap T
    <3>1. t[j] \in T /\ \E k \in 1 .. Len(s) : t[j] = s[k]
      BY <1>1, <2>1 DEF From
    <3> QED BY <1>1, <3>1 DEF Els
  <2>2. ASSUME NEW k \in DOMAIN s, s[k] \in T PROVE s[k] \in Els(t)
    <3>1. \E j \in DOMAIN t : j =< k /\ t[j] = s[k]
      BY <1>1, <2>2 DEF From
    <3> QED BY <3>1 DEF Els
  <2> QED BY <2>1, <2>2 DEF Els
<1>3. ASSUME Sorted(s), NEW i \in DOMAIN t, NEW j \in DOMAIN t, i < j PROVE t[i].seq < t[j].seq
  <2>1. \E k, l \in 1 .. Len(s) : k < l /\ t[i] = s[k] /\ t[j] = s[l]
    BY <1>1, <1>3 DEF From
  <2>2. PICK k, l \in DOMAIN s : k < l /\ t[i] = s[k] /\ t[j] = s[l]
    BY <1>1, <2>1
  <2> QED BY <1>3, <2>2 DEF Sorted
<1>4. Sorted(s) => Sorted(t)
  BY <1>3 DEF Sorted
<1> QED BY <1>1, <1>2, <1>4 DEF t

\* An element keeps or improves its place, and if none goes nothing changes.
LEMMA OnlyPlaces ==
  ASSUME NEW S, NEW s \in Seq(S), NEW T
  PROVE  /\ \A k \in DOMAIN s : s[k] \in T => \E j \in DOMAIN Only(s, T) : j =< k /\ Only(s, T)[j] = s[k]
         /\ Els(s) \subseteq T => Only(s, T) = s
<1> DEFINE t == Only(s, T)
<1>1. DOMAIN s = 1 .. Len(s) /\ Len(s) \in Nat /\ t \in Seq(S) /\ From(s, T, Len(s), t) /\ Whole(s, T, Len(s), t)
  BY OnlyKeeps
<1> HIDE DEF t
<1>2. \A k \in DOMAIN s : s[k] \in T => \E j \in DOMAIN t : j =< k /\ t[j] = s[k]
  BY <1>1 DEF From
<1>3. ASSUME Els(s) \subseteq T PROVE t = s
  <2>1. Len(t) = Len(s) /\ \A k \in 1 .. Len(s) : t[k] = s[k]
    BY <1>1, <1>3 DEF Whole, Els
  <2> QED BY <1>1, <2>1
<1> QED BY <1>2, <1>3 DEF t

-----------------------------------------------------------------------------
(* Types.                                                                  *)

Row   == [id : Ids, by : Procs, day : 0 .. MaxDay, seq : Nat]
Sends == {Idle} \cup [step : {"append"}, ch : Chans, id : Ids] \cup [step : {"commit"}, ch : Chans, row : Row]
Steps == {"baseline", "page", "done", "failed"}

StoreTypes ==
  /\ kind \in {"mem", "pg"} /\ rows \in [Chans -> Seq(Row)] /\ ids \in [Chans -> SUBSET Ids]
  /\ counter \in [Chans -> Nat] /\ read \in [Chans -> Int] /\ today \in 0 .. MaxDay /\ calls \in 0 .. MaxCalls

RetentionTypes ==
  /\ retention \in [Chans -> {Keep, Gone, 0, 1}]
  /\ sweep \subseteq [ch : Chans, days : Nat, now : Nat]

SendTypes == sending \in [Procs -> Sends]

ReaderTypes ==
  /\ DOMAIN reader = {"what", "ch", "step", "cursor", "got", "cut"} /\ reader.step \in Steps
  /\ reader.what = "history" => reader.ch \in Chans /\ reader.cursor \in Nat /\ reader.got \in Seq(Row)

TypeInv == StoreTypes /\ RetentionTypes /\ SendTypes /\ ReaderTypes

\* The constants, as numbers.
LEMMA Numbers ==
  /\ MaxDay \in Nat /\ MaxDay > 0 /\ Keep = MaxDay + 1 /\ Gone = MaxDay + 2 /\ MaxCalls \in Nat /\ None = MaxCalls + 1
  /\ \A c \in Chans : c \in Nat /\ c # 0
  /\ Limit \in Nat /\ Limit > 0 /\ Cap \in Nat /\ Kept \subseteq Chans /\ Marks \subseteq Int
  /\ \A e \in Ids : ChanOf[e] \in Chans
  /\ Hub \in Procs /\ Hub \notin Senders /\ IsFiniteSet(Senders) /\ IsFiniteSet(Chans)
BY HistoryAssumption DEF Keep, Gone, None, Hub, Procs

\* Where a sender stands, with the fields of its step.
Appending(p) == sending[p].step = "append"
Pending(p)   == sending[p].step = "commit"

\* Where a call stands says what it carries.
LEMMA Stands ==
  ASSUME TypeInv, NEW p \in Procs
  PROVE  /\ sending[p].step \in {"idle", "append", "commit"}
         /\ Appending(p) => sending[p].ch \in Chans /\ sending[p].id \in Ids
         /\ Pending(p) => sending[p].ch \in Chans /\ sending[p].row \in Row
BY DEF TypeInv, SendTypes, Sends, Idle, Appending, Pending

\* Which steps touch what.
Writes == Send \/ Receive \/ Store \/ Sweep \/ \E c \in Chans : DeleteChannel(c)

\* A step leaves alone what is not its own.
LEMMA Untouched ==
  ASSUME [Next]_vars
  PROVE  /\ kind' = kind
         /\ Writes \/ UNCHANGED <<rows, ids, counter, sending>>
         /\ Patch \/ ListRetention \/ Sweep \/ UNCHANGED <<retention, sweep>>
         /\ Mark \/ BaselineReads \/ AnswerPage \/ UNCHANGED read
         /\ List \/ BaselineReads \/ AnswerPage \/ AnswerNotFound \/ UNCHANGED reader
         /\ NextDay \/ UNCHANGED today
<1> USE DEF store
<1> DEFINE Rest == Mark \/ List \/ ListRetention \/ NextDay \/ BaselineReads \/ AnswerPage \/ AnswerNotFound
                   \/ \E c \in Chans, d \in {Keep, 0} : d # retention[c] /\ PatchRetention(c, d)
<1>1. CASE UNCHANGED vars
  BY <1>1 DEF vars
<1>2. CASE Writes
  <2>1. /\ kind' = kind /\ UNCHANGED <<read, reader, today>>
        /\ Sweep \/ (\E c \in Chans : DeleteChannel(c)) \/ UNCHANGED <<retention, sweep>>
    BY <1>2 DEF Writes, Send, Receive, Store, Sweep, AcceptSend, Inbound, KnownId, StoreInMemory, PgInsert, PgCommit,
       SweepChannel, DeleteChannel
  <2> QED BY <1>2, <2>1 DEF Patch
<1>3. CASE Rest
  <2>1. kind' = kind /\ UNCHANGED <<rows, ids, counter, sending>>
    BY <1>3 DEF Mark, List, ListRetention, NextDay, BaselineReads, AnswerPage, AnswerHistory, AnswerInbox, AnswerNotFound, PatchRetention,
       MarkChannelRead, StartListing
  <2>2. /\ (\E c \in Chans, d \in {Keep, 0} : d # retention[c] /\ PatchRetention(c, d)) \/ ListRetention \/ UNCHANGED <<retention, sweep>>
        /\ NextDay \/ UNCHANGED today
    BY <1>3 DEF Mark, List, ListRetention, NextDay, BaselineReads, AnswerPage, AnswerHistory, AnswerInbox, AnswerNotFound, PatchRetention,
       MarkChannelRead, StartListing
  <2>3. /\ Mark \/ BaselineReads \/ AnswerPage \/ UNCHANGED read
        /\ List \/ BaselineReads \/ AnswerPage \/ AnswerNotFound \/ UNCHANGED reader
    BY <1>3 DEF Mark, List, ListRetention, NextDay, BaselineReads, AnswerPage, AnswerHistory, AnswerInbox, AnswerNotFound, PatchRetention,
       MarkChannelRead, StartListing
  <2>4. (\E c \in Chans, d \in {Keep, 0} : d # retention[c] /\ PatchRetention(c, d)) => Patch
    BY DEF Patch
  <2> QED BY <2>1, <2>2, <2>3, <2>4
<1>4. Next => Writes \/ Rest
  BY DEF Next, Writes, Patch
<1> QED BY <1>1, <1>2, <1>3, <1>4

\* A row joins those of its channel.
LEMMA RowTypes ==
  ASSUME TypeInv, NEW c \in Chans, NEW r \in Row
  PROVE  Append(rows[c], r) \in Seq(Row)
BY DEF TypeInv, StoreTypes

\* The types hold at the start.
LEMMA InitTyped == Init => TypeInv
<1> SUFFICES ASSUME Init PROVE TypeInv
  OBVIOUS
<1>1. StoreTypes /\ RetentionTypes
  BY Numbers DEF Init, StoreTypes, RetentionTypes
<1>2. SendTypes /\ ReaderTypes
  BY DEF Init, SendTypes, Sends, ReaderTypes, Resting, Steps
<1> QED BY <1>1, <1>2 DEF TypeInv

\* What a store call leaves behind.
LEMMA StoreCall ==
  ASSUME TypeInv, NEW p \in Procs, KnownId(p) \/ StoreInMemory(p) \/ PgInsert(p) \/ PgCommit(p)
  PROVE  /\ rows' \in [Chans -> Seq(Row)] /\ ids' \in [Chans -> SUBSET Ids] /\ counter' \in [Chans -> Nat]
         /\ SendTypes'
<1> DEFINE c == sending[p].ch
<1>0. /\ counter \in [Chans -> Nat] /\ rows \in [Chans -> Seq(Row)] /\ ids \in [Chans -> SUBSET Ids] /\ today \in 0 .. MaxDay
      /\ sending \in [Procs -> Sends]
  BY DEF TypeInv, StoreTypes, SendTypes
<1>1. \A d \in Chans : Bump(d) \in [Chans -> Nat]
  BY <1>0 DEF Bump
<1>2. sending' = [sending EXCEPT ![p] = Idle] => SendTypes'
  BY <1>0 DEF SendTypes, Sends
<1>3. CASE KnownId(p)
  BY <1>0, <1>1, <1>2, <1>3, Stands DEF KnownId, Appending
<1>4. CASE StoreInMemory(p)
  <2> DEFINE r == [id |-> sending[p].id, by |-> p, day |-> today, seq |-> counter[c] + 1]
  <2>1. c \in Chans /\ sending[p].id \in Ids
    BY <1>4, Stands DEF StoreInMemory, Appending
  <2>2. r \in Row
    BY <1>0, <2>1 DEF Row
  <2>3. rows' = [rows EXCEPT ![c] = Append(@, r)]
    BY <1>4 DEF StoreInMemory, MemAppend
  <2> HIDE DEF r
  <2>4. Append(rows[c], r) \in Seq(Row)
    BY <2>1, <2>2, RowTypes
  <2>5. rows' \in [Chans -> Seq(Row)]
    BY <1>0, <2>3, <2>4
  <2>6. ids' \in [Chans -> SUBSET Ids] /\ counter' \in [Chans -> Nat] /\ SendTypes'
    BY <1>0, <1>1, <1>2, <1>4, <2>1 DEF StoreInMemory, MemAppend
  <2> QED BY <2>5, <2>6
<1>5. CASE PgInsert(p)
  <2> DEFINE r == [id |-> sending[p].id, by |-> p, day |-> today, seq |-> counter[c] + 1]
             z == [step |-> "commit", ch |-> c, row |-> r]
  <2>1. c \in Chans /\ sending[p].id \in Ids
    BY <1>5, Stands DEF PgInsert, Appending
  <2>2. r \in Row
    BY <1>0, <2>1 DEF Row
  <2>3. z \in Sends
    <3> HIDE DEF r
    <3> QED BY <2>1, <2>2 DEF Sends
  <2>4. sending' = [sending EXCEPT ![p] = z] /\ UNCHANGED rows
    BY <1>5 DEF PgInsert
  <2>5. SendTypes'
    <3> HIDE DEF z
    <3> QED BY <1>0, <2>3, <2>4 DEF SendTypes
  <2>6. ids' \in [Chans -> SUBSET Ids] /\ counter' \in [Chans -> Nat]
    BY <1>0, <1>1, <1>5, <2>1 DEF PgInsert
  <2> QED BY <1>0, <2>4, <2>5, <2>6
<1>6. CASE PgCommit(p)
  <2> DEFINE r == sending[p].row
             b == Only(rows[c], {q \in Stored(c) : q.seq < r.seq})
             a == Only(rows[c], {q \in Stored(c) : q.seq > r.seq})
  <2>1. c \in Chans /\ r \in Row
    BY <1>6, Stands DEF PgCommit, Pending
  <2>2. b \in Seq(Row) /\ a \in Seq(Row)
    BY <1>0, <2>1, OnlySorted
  <2>3. rows' = [rows EXCEPT ![c] = b \o <<r>> \o a]
    BY <1>6 DEF PgCommit
  <2> HIDE DEF b, a, r
  <2>4. b \o <<r>> \o a \in Seq(Row)
    BY <2>1, <2>2
  <2>5. rows' \in [Chans -> Seq(Row)]
    BY <1>0, <2>1, <2>3, <2>4
  <2> QED BY <1>0, <1>2, <1>6, <2>5 DEF PgCommit
<1> QED BY <1>3, <1>4, <1>5, <1>6

\* A sweep or a deletion leaves only rows that were there.
LEMMA Removal ==
  ASSUME TypeInv, Sweep \/ \E c \in Chans : DeleteChannel(c)
  PROVE  /\ rows' \in [Chans -> Seq(Row)] /\ ids' \in [Chans -> SUBSET Ids] /\ UNCHANGED <<counter, sending>>
         /\ \E c \in Chans : \A d \in Chans \ {c} : rows'[d] = rows[d] /\ ids'[d] = ids[d]
<1>0. rows \in [Chans -> Seq(Row)] /\ ids \in [Chans -> SUBSET Ids] /\ sweep \subseteq [ch : Chans, days : Nat, now : Nat]
  BY DEF TypeInv, StoreTypes, RetentionTypes
<1>1. ASSUME NEW job \in sweep, SweepChannel(job)
      PROVE  /\ rows' \in [Chans -> Seq(Row)] /\ ids' \in [Chans -> SUBSET Ids] /\ UNCHANGED <<counter, sending>>
             /\ \A d \in Chans \ {job.ch} : rows'[d] = rows[d] /\ ids'[d] = ids[d]
  <2> DEFINE c == job.ch
             out == {r \in Stored(c) : Expired(job, r)}
             s == Only(rows[c], Stored(c) \ out)
  <2>1. c \in Chans
    BY <1>0, <1>1
  <2>2. s \in Seq(Row)
    BY <1>0, <2>1, OnlySorted
  <2>3. rows' = [rows EXCEPT ![c] = s]
    BY <1>1 DEF SweepChannel
  <2>4. ids' = [ids EXCEPT ![c] = @ \ {r.id : r \in out}] /\ UNCHANGED <<counter, sending>>
    BY <1>1 DEF SweepChannel
  <2> HIDE DEF s, out
  <2>5. rows' \in [Chans -> Seq(Row)] /\ \A d \in Chans \ {c} : rows'[d] = rows[d]
    BY <1>0, <2>1, <2>2, <2>3
  <2>6. ids' \in [Chans -> SUBSET Ids] /\ \A d \in Chans \ {c} : ids'[d] = ids[d]
    BY <1>0, <2>1, <2>4
  <2> QED BY <2>4, <2>5, <2>6
<1>2. ASSUME NEW c \in Chans, DeleteChannel(c)
      PROVE  /\ rows' \in [Chans -> Seq(Row)] /\ ids' \in [Chans -> SUBSET Ids] /\ UNCHANGED <<counter, sending>>
             /\ \A d \in Chans \ {c} : rows'[d] = rows[d] /\ ids'[d] = ids[d]
  BY <1>0, <1>2 DEF DeleteChannel
<1>3. CASE Sweep
  <2>1. PICK job \in sweep : SweepChannel(job)
    BY <1>3 DEF Sweep
  <2>2. job.ch \in Chans
    BY <1>0
  <2> QED BY <1>1, <2>1, <2>2
<1> QED BY <1>2, <1>3

\* What MarkRead and the baseline are given is a number.
LEMMA Smaller ==
  ASSUME NEW a \in Int, NEW b \in Int
  PROVE  /\ Min({a, b}) \in Int /\ Min({a, b}) =< a /\ Min({a, b}) =< b /\ Min({a, b}) \in {a, b}
         /\ Max({a, b}) \in Int /\ Max({a, b}) >= a /\ Max({a, b}) >= b /\ Max({a, b}) \in {a, b}
<1>1. \E x \in {a, b} : \A y \in {a, b} : x =< y
  OBVIOUS
<1>2. \E x \in {a, b} : \A y \in {a, b} : x >= y
  OBVIOUS
<1> QED BY <1>1, <1>2 DEF Min, Max

\* The rows of every channel are sorted, with numbers that were given.
NumbersHold == \A c \in Chans : Sorted(rows[c]) /\ \A r \in Stored(c) : r.seq \in 1 .. counter[c]

\* ChannelMaxSeq is a number that was given.
LEMMA MaxGiven ==
  ASSUME TypeInv, NumbersHold, NEW c \in Chans
  PROVE  ChannelMaxSeq(c) \in 0 .. counter[c]
<1> DEFINE S == {r.seq : r \in Stored(c)} \cup {0}
<1>0. counter[c] \in Nat /\ rows[c] \in Seq(Row)
  BY DEF TypeInv, StoreTypes
<1>1. \E x \in S : \A y \in S : x >= y
  <2>1. CASE rows[c] = <<>>
    BY <2>1 DEF Stored
  <2>2. CASE rows[c] # <<>>
    <3> DEFINE n == Len(rows[c])
    <3>1. n \in DOMAIN rows[c] /\ DOMAIN rows[c] = 1 .. n /\ n \in Nat
      BY <1>0, <2>2
    <3> HIDE DEF n
    <3>2. rows[c][n] \in Stored(c) /\ rows[c][n].seq \in S
      BY <3>1 DEF Stored
    <3>3. \A i \in DOMAIN rows[c] : rows[c][i].seq \in Nat /\ (i = n \/ i < n)
      BY <3>1 DEF NumbersHold, Stored
    <3>4. \A i \in DOMAIN rows[c] : rows[c][i].seq =< rows[c][n].seq
      BY <3>1, <3>3 DEF NumbersHold, Sorted
    <3>5. \A y \in S : rows[c][n].seq >= y
      BY <3>1, <3>3, <3>4 DEF Stored
    <3> QED BY <3>2, <3>5
  <2> QED BY <2>1, <2>2
<1>2. Max(S) \in S
  <2> HIDE DEF S
  <2> QED BY <1>1 DEF Max
<1>3. S \subseteq 0 .. counter[c]
  BY <1>0 DEF NumbersHold
<1> QED BY <1>0, <1>2, <1>3 DEF ChannelMaxSeq

\* A part of a sequence.
LEMMA Part ==
  ASSUME NEW S, NEW s \in Seq(S), NEW m \in 1 .. Len(s) + 1, NEW n \in m - 1 .. Len(s)
  PROVE  /\ SubSeq(s, m, n) \in Seq(S) /\ DOMAIN SubSeq(s, m, n) = 1 .. n - m + 1 /\ Len(SubSeq(s, m, n)) = n - m + 1
         /\ \A i \in 1 .. n - m + 1 : SubSeq(s, m, n)[i] = s[m + i - 1] /\ m + i - 1 \in m .. n
         /\ \A k \in m .. n : k - m + 1 \in 1 .. n - m + 1 /\ SubSeq(s, m, n)[k - m + 1] = s[k]
<1>0. m \in Nat /\ n \in Int /\ m > 0 /\ n - m + 1 \in Nat
  OBVIOUS
<1>1. /\ SubSeq(s, m, n) \in Seq(S) /\ Len(SubSeq(s, m, n)) = n - m + 1
      /\ \A i \in 1 .. n - m + 1 : SubSeq(s, m, n)[i] = s[m + i - 1]
  BY SubSeqProperties
<1>2. \A i \in 1 .. n - m + 1 : m + i - 1 \in m .. n
  BY <1>0
<1>3. ASSUME NEW k \in m .. n PROVE k - m + 1 \in 1 .. n - m + 1 /\ SubSeq(s, m, n)[k - m + 1] = s[k]
  <2>1. k - m + 1 \in 1 .. n - m + 1 /\ m + (k - m + 1) - 1 = k
    BY <1>0
  <2> QED BY <1>1, <2>1
<1> QED BY <1>1, <1>2, <1>3

\* A page of MemStore.Envelopes: the rows from next up to the cursor.
LEMMA MemPageIs ==
  ASSUME TypeInv, NEW c \in Chans, NEW cursor \in Nat, cursor =< Len(rows[c])
  PROVE  \E m \in 1 .. Len(rows[c]) + 1, n \in 0 .. Len(rows[c]) :
           /\ (cursor = 0 => n = Len(rows[c])) /\ (cursor # 0 => n = cursor - 1)
           /\ m - 1 =< n
           /\ MemPage(c, cursor).items = SubSeq(rows[c], m, n) /\ MemPage(c, cursor).next = m
           /\ MemPage(c, cursor).more \in BOOLEAN
           /\ MemPage(c, cursor).more => m =< n
           /\ ~MemPage(c, cursor).more => m = 1
<1> DEFINE L == Len(rows[c])
           n == IF cursor = 0 THEN L ELSE cursor - 1
           start == IF n > Limit THEN n - Limit ELSE 0
<1>1. L \in Nat
  BY DEF TypeInv, StoreTypes
<1>2. n \in 0 .. L
  BY <1>1
<1>3. MemPage(c, cursor) = [items |-> SubSeq(rows[c], start + 1, n), more |-> start > 0, next |-> start + 1]
  BY DEF MemPage
<1> HIDE DEF n
<1>4. start \in Nat /\ start =< n /\ (start > 0 => start + 1 =< n)
  BY <1>1, <1>2, Numbers
<1> HIDE DEF start, L
<1>5. start + 1 \in 1 .. L + 1 /\ (start + 1) - 1 =< n /\ (~(start > 0) => start + 1 = 1)
  BY <1>1, <1>2, <1>4
<1> DEFINE more == start > 0
<1>6. /\ MemPage(c, cursor).items = SubSeq(rows[c], start + 1, n) /\ MemPage(c, cursor).more = more
      /\ MemPage(c, cursor).next = start + 1 /\ more \in BOOLEAN
  <2>1. more \in BOOLEAN
    OBVIOUS
  <2> DEFINE items == SubSeq(rows[c], start + 1, n)
             next == start + 1
  <2>2. MemPage(c, cursor) = [items |-> items, more |-> more, next |-> next]
    BY <1>3
  <2> HIDE DEF more, items, next
  <2>3. MemPage(c, cursor).items = items /\ MemPage(c, cursor).more = more /\ MemPage(c, cursor).next = next
    BY <2>2
  <2> QED BY <2>1, <2>3 DEF items, next
<1>7. (cursor = 0 => n = L) /\ (cursor # 0 => n = cursor - 1)
  BY DEF n
<1>8. MemPage(c, cursor).more \in BOOLEAN /\ (MemPage(c, cursor).more <=> start > 0)
  BY <1>6
<1> QED BY <1>2, <1>4, <1>5, <1>6, <1>7, <1>8 DEF L

\* A page of PGStore: the last rows below the cursor, and the number of the first.
Below(c, cursor) == {r \in Stored(c) : cursor = 0 \/ r.seq < cursor}

\* The page is the upper end of what lies below the cursor; the rest lies below next.
LEMMA PgPageIs ==
  ASSUME TypeInv, NumbersHold, NEW c \in Chans, NEW cursor \in Nat
  PROVE  LET page == PgPage(c, cursor) IN
         /\ page.items \in Seq(Row) /\ Sorted(page.items) /\ Els(page.items) \subseteq Below(c, cursor)
         /\ page.next \in Nat /\ page.more \in BOOLEAN
         /\ page.more => page.items # <<>> /\ page.items[1].seq = page.next /\ page.next # 0
         /\ \A r \in Below(c, cursor) : r \in Els(page.items) \/ (page.more /\ r.seq < page.next)
<1> DEFINE s == rows[c]
           older == Only(s, Below(c, cursor))
           n == Len(older)
           lo == IF n > Limit THEN n - Limit + 1 ELSE 1
           items == SubSeq(older, lo, n)
           next == IF n > Limit THEN older[n - Limit + 1].seq ELSE 0
<1>1. s \in Seq(Row) /\ Sorted(s) /\ Els(s) = Stored(c)
  BY DEF TypeInv, StoreTypes, NumbersHold, Els, Stored
<1>2. older \in Seq(Row) /\ Sorted(older) /\ Els(older) = Below(c, cursor)
  <2> HIDE DEF s
  <2>1. Below(c, cursor) \subseteq Els(s)
    BY <1>1 DEF Below
  <2>2. s \in Seq(Row) /\ Sorted(s)
    BY <1>1
  <2> DEFINE T == Below(c, cursor)
  <2> HIDE DEF T
  <2>3. Only(s, T) \in Seq(Row) /\ Els(Only(s, T)) = Els(s) \cap T /\ Sorted(Only(s, T))
    BY <2>2, OnlySorted
  <2> QED BY <2>1, <2>3 DEF T
<1>3. PgPage(c, cursor) = [items |-> items, more |-> n > Limit, next |-> next]
  BY DEF PgPage, Below
<1> HIDE DEF older
<1>4. n \in Nat /\ DOMAIN older = 1 .. n
  BY <1>2
<1> HIDE DEF n
<1>5. lo \in 1 .. n + 1 /\ n \in lo - 1 .. n /\ (n > Limit => lo \in 1 .. n /\ lo = n - Limit + 1) /\ (~(n > Limit) => lo = 1)
  BY <1>4, Numbers
<1> HIDE DEF lo
<1>6. /\ items \in Seq(Row) /\ DOMAIN items = 1 .. n - lo + 1
      /\ \A i \in 1 .. n - lo + 1 : items[i] = older[lo + i - 1] /\ lo + i - 1 \in lo .. n
      /\ \A k \in lo .. n : k - lo + 1 \in 1 .. n - lo + 1 /\ items[k - lo + 1] = older[k]
  BY <1>2, <1>5, Part DEF n
<1> HIDE DEF items
<1>7. Sorted(items)
  <2> SUFFICES ASSUME NEW i \in DOMAIN items, NEW j \in DOMAIN items, i < j PROVE items[i].seq < items[j].seq
    BY DEF Sorted
  <2>1. lo + i - 1 \in DOMAIN older /\ lo + j - 1 \in DOMAIN older /\ lo + i - 1 < lo + j - 1
    BY <1>4, <1>5, <1>6
  <2>2. older[lo + i - 1].seq < older[lo + j - 1].seq
    BY <1>2, <2>1 DEF Sorted
  <2>3. items[i] = older[lo + i - 1] /\ items[j] = older[lo + j - 1]
    BY <1>6
  <2> QED BY <2>2, <2>3
<1>8. Els(items) \subseteq Below(c, cursor)
  <2>1. ASSUME NEW i \in DOMAIN items PROVE items[i] \in Els(older)
    <3>1. lo + i - 1 \in DOMAIN older
      BY <1>4, <1>5, <1>6
    <3> QED BY <1>6, <3>1 DEF Els
  <2> QED BY <1>2, <2>1 DEF Els
<1>9. ASSUME n > Limit PROVE items # <<>> /\ items[1].seq = next /\ next # 0 /\ next \in Nat /\ next = older[lo].seq
  <2>1. lo \in lo .. n /\ lo - lo + 1 = 1 /\ lo \in DOMAIN older
    BY <1>4, <1>5, <1>9
  <2>2. items[1] = older[lo] /\ 1 \in DOMAIN items
    BY <1>6, <2>1
  <2>3. next = older[lo].seq
    BY <1>5, <1>9
  <2>4. older[lo] \in Stored(c)
    BY <1>2, <2>1 DEF Els, Below
  <2>5. older[lo].seq \in 1 .. counter[c] /\ counter[c] \in Nat
    BY <2>4 DEF NumbersHold, TypeInv, StoreTypes
  <2>6. items # <<>>
    BY <2>2
  <2>7. items[1].seq = next
    BY <2>2, <2>3
  <2>8. next # 0 /\ next \in Nat
    <3> HIDE DEF next
    <3> QED BY <2>3, <2>5
  <2> QED BY <2>3, <2>6, <2>7, <2>8
<1>10. ASSUME NEW r \in Below(c, cursor) PROVE r \in Els(items) \/ (n > Limit /\ r.seq < next)
  <2>1. PICK k \in DOMAIN older : r = older[k]
    BY <1>2 DEF Els
  <2>2. CASE k \in lo .. n
    BY <1>6, <2>1, <2>2 DEF Els
  <2>3. CASE k \notin lo .. n
    <3>1. k < lo /\ n > Limit /\ lo \in DOMAIN older
      BY <1>4, <1>5, <2>1, <2>3
    <3>2. older[k].seq < older[lo].seq
      BY <1>2, <2>1, <3>1 DEF Sorted
    <3> QED BY <1>9, <2>1, <3>1, <3>2
  <2> QED BY <2>2, <2>3
<1>11. next \in Nat
  BY <1>9
<1> HIDE DEF next
<1> DEFINE more == n > Limit
<1>12. /\ PgPage(c, cursor).items = items /\ PgPage(c, cursor).next = next
       /\ PgPage(c, cursor).more = more /\ more \in BOOLEAN
  <2>1. more \in BOOLEAN
    OBVIOUS
  <2>2. PgPage(c, cursor) = [items |-> items, more |-> more, next |-> next]
    BY <1>3
  <2> HIDE DEF more
  <2> QED BY <2>1, <2>2
<1> QED BY <1>6, <1>7, <1>8, <1>9, <1>10, <1>11, <1>12

\* What a page of a history adds to the listing.
LEMMA Answered ==
  ASSUME TypeInv, AnswerHistory
  PROVE  /\ DOMAIN reader' = DOMAIN reader /\ reader'.what = reader.what /\ reader'.ch = reader.ch
         /\ reader.what = "history" /\ reader.step = "page" /\ reader'.step \in {"done", "page"}
         /\ kind = "mem" => reader.cursor =< Len(rows[reader.ch])
         /\ reader'.got = HistoryPage.items \o reader.got /\ reader'.cursor = HistoryPage.next
         /\ reader'.step = IF HistoryPage.more THEN "page" ELSE "done"
<1> DEFINE got == HistoryPage.items \o reader.got
           step == IF HistoryPage.more THEN "page" ELSE "done"
           next == HistoryPage.next
<1>1. reader' = [reader EXCEPT !.got = got, !.cursor = next, !.step = step]
  BY DEF AnswerHistory
<1>2. step \in {"done", "page"}
  OBVIOUS
<1>3. reader.what = "history" /\ reader.step = "page" /\ ~UnknownCursor
  BY DEF AnswerHistory
<1> HIDE DEF got, step, next
<1>4. /\ DOMAIN reader' = DOMAIN reader /\ reader'.what = reader.what /\ reader'.ch = reader.ch
      /\ reader'.step = step /\ reader'.got = got /\ reader'.cursor = next
  BY <1>1 DEF TypeInv, ReaderTypes
<1>5. kind = "mem" => reader.cursor =< Len(rows[reader.ch])
  <2>1. Len(rows[reader.ch]) \in Nat /\ reader.cursor \in Nat
    BY <1>3 DEF TypeInv, ReaderTypes, StoreTypes
  <2> QED BY <1>3, <2>1 DEF UnknownCursor
<1> QED BY <1>2, <1>3, <1>4, <1>5 DEF got, step, next

\* What a page of the inbox adds.
LEMMA InboxAnswered ==
  ASSUME TypeInv, NEW scan, AnswerInbox(scan)
  PROVE  /\ DOMAIN reader' = DOMAIN reader /\ reader'.what = reader.what /\ reader'.ch = reader.ch
         /\ reader.what = "inbox" /\ reader.step \in {"baseline", "page"} /\ reader'.step \in {"done", "baseline"}
         /\ reader'.got = reader.got \o InboxPage(scan, reader.cursor).items
         /\ reader'.cursor = InboxPage(scan, reader.cursor).next
         /\ reader'.step = IF InboxPage(scan, reader.cursor).more THEN "baseline" ELSE "done"
         /\ reader'.cut = reader.cut \cup {v.ch : v \in Views \ scan}
<1> DEFINE page == InboxPage(scan, reader.cursor)
           got == reader.got \o page.items
           step == IF page.more THEN "baseline" ELSE "done"
           next == page.next
           out == reader.cut \cup {v.ch : v \in Views \ scan}
<1>1. reader' = [reader EXCEPT !.got = got, !.cursor = next, !.step = step, !.cut = out]
  BY DEF AnswerInbox
<1>2. step \in {"done", "baseline"} /\ reader.step \in {"baseline", "page"} /\ reader.what = "inbox"
  BY DEF AnswerInbox
<1> HIDE DEF got, step, next, out
<1>3. /\ DOMAIN reader' = DOMAIN reader /\ reader'.what = reader.what /\ reader'.ch = reader.ch
      /\ reader'.step = step /\ reader'.got = got /\ reader'.cursor = next /\ reader'.cut = out
  BY <1>1 DEF TypeInv, ReaderTypes
<1> QED BY <1>2, <1>3 DEF got, step, next, out

\* The page of a history listing.
LEMMA PageIs ==
  ASSUME TypeInv, NumbersHold, AnswerHistory
  PROVE  /\ HistoryPage = IF kind = "mem" THEN MemPage(reader.ch, reader.cursor) ELSE PgPage(reader.ch, reader.cursor)
         /\ HistoryPage.items \in Seq(Row) /\ HistoryPage.next \in Nat /\ HistoryPage.more \in BOOLEAN
<1>1. HistoryPage = IF kind = "mem" THEN MemPage(reader.ch, reader.cursor) ELSE PgPage(reader.ch, reader.cursor)
  BY DEF HistoryPage
<1>2. reader.ch \in Chans /\ reader.cursor \in Nat /\ rows[reader.ch] \in Seq(Row)
  BY Answered DEF TypeInv, ReaderTypes, StoreTypes
<1>3. CASE kind = "mem"
  <2> DEFINE s == rows[reader.ch]
             page == MemPage(reader.ch, reader.cursor)
  <2>1. reader.cursor =< Len(s)
    BY <1>3, Answered
  <2>2. PICK m \in 1 .. Len(s) + 1, n \in 0 .. Len(s) :
          m - 1 =< n /\ page.items = SubSeq(s, m, n) /\ page.next = m /\ page.more \in BOOLEAN
    <3> DEFINE c == reader.ch
               C == reader.cursor
    <3>1. c \in Chans /\ C \in Nat /\ C =< Len(rows[c])
      BY <1>2, <2>1
    <3> HIDE DEF c, C
    <3>2. \E m \in 1 .. Len(rows[c]) + 1, n \in 0 .. Len(rows[c]) :
            /\ m - 1 =< n /\ MemPage(c, C).items = SubSeq(rows[c], m, n) /\ MemPage(c, C).next = m
            /\ MemPage(c, C).more \in BOOLEAN
      BY <3>1, MemPageIs, Zenon
    <3> QED BY <3>2 DEF c, C
  <2>3. s \in Seq(Row) /\ Len(s) \in Nat
    BY <1>2
  <2> HIDE DEF s
  <2>4. n \in m - 1 .. Len(s) /\ m \in Nat
    BY <2>2, <2>3
  <2>5. SubSeq(s, m, n) \in Seq(Row)
    BY <2>2, <2>3, <2>4, Part
  <2>6. HistoryPage = page
    BY <1>1, <1>3
  <2> HIDE DEF page
  <2> QED BY <1>1, <2>2, <2>4, <2>5, <2>6
<1>4. CASE kind # "mem"
  <2> DEFINE page == PgPage(reader.ch, reader.cursor)
  <2>1. page.items \in Seq(Row) /\ page.next \in Nat /\ page.more \in BOOLEAN
    BY <1>2, PgPageIs
  <2>2. HistoryPage = page
    BY <1>1, <1>4
  <2> HIDE DEF page
  <2> QED BY <1>1, <2>1, <2>2
<1> QED BY <1>3, <1>4

\* A read cursor stays, is set to a number that was given, or rises to one.
Rises(c) ==
  \/ read'[c] = read[c]
  \/ read'[c] \in Int /\ read'[c] =< counter[c] /\ (read[c] # None => read'[c] >= read[c])

\* Every read cursor rises or stays, whatever the step.
LEMMA Cursors ==
  ASSUME TypeInv, NumbersHold, [Next]_vars
  PROVE  read' \in [Chans -> Int] /\ \A c \in Chans : Rises(c)
<1>0. read \in [Chans -> Int] /\ None \in Nat
  BY Numbers DEF TypeInv, StoreTypes
<1>1. ASSUME NEW c \in Chans, NEW n \in Int, MarkChannelRead(c, n) PROVE read' \in [Chans -> Int] /\ \A d \in Chans : Rises(d)
  <2> DEFINE M == ChannelMaxSeq(c)
             z == IF kind = "mem" THEN MemMark(c, n) ELSE PgMark(c, n)
  <2>1. M \in 0 .. counter[c] /\ counter[c] \in Nat /\ M \in Nat
    BY MaxGiven DEF TypeInv, StoreTypes
  <2>2. Clamp(c, n) \in Int /\ Clamp(c, n) =< counter[c]
    <3> HIDE DEF M
    <3>1. Min({n, M}) \in Int /\ Min({n, M}) =< M
      BY <2>1, Smaller
    <3> QED BY <2>1, <3>1 DEF Clamp, M
  <2> DEFINE q == Clamp(c, n)
             r == IF read[c] = None THEN 0 ELSE read[c]
  <2>3. q \in Int /\ r \in Int
    BY <1>0, <2>1, <2>2
  <2>4. Max({q, r}) \in {q, r} /\ Max({q, r}) >= r
    <3> HIDE DEF q, r
    <3> QED BY <2>3, Smaller
  <2>5. z = read[c] \/ (z \in Int /\ z =< counter[c] /\ (read[c] # None => z >= read[c]))
    <3>1. CASE read[c] = None
      <4>1. z = None \/ z = q \/ z = Max({q, 0})
        BY <3>1 DEF MemMark, PgMark
      <4>2. r = 0 /\ Max({q, 0}) \in {q, 0}
        BY <2>4, <3>1
      <4> HIDE DEF z, q
      <4> QED BY <2>1, <2>2, <3>1, <4>1, <4>2 DEF q
    <3>2. CASE read[c] # None
      <4>1. z = Max({q, read[c]})
        BY <3>2 DEF MemMark, PgMark
      <4>2. r = read[c]
        BY <3>2
      <4> HIDE DEF z, q
      <4> QED BY <2>2, <2>4, <4>1, <4>2 DEF q
    <3> QED BY <3>1, <3>2
  <2>6. read' = [read EXCEPT ![c] = z]
    BY <1>1 DEF MarkChannelRead
  <2> HIDE DEF z
  <2>7. z \in Int
    BY <1>0, <2>1, <2>5
  <2> QED BY <1>0, <2>5, <2>6, <2>7 DEF Rises
<1>2. ASSUME NEW C, read' = Baseline(C) PROVE read' \in [Chans -> Int] /\ \A c \in Chans : Rises(c)
  <2>1. \A c \in Chans : ChannelMaxSeq(c) \in 0 .. counter[c] /\ counter[c] \in Nat
    BY MaxGiven DEF TypeInv, StoreTypes
  <2>2. \A c \in Chans : read'[c] = IF c \in C /\ read[c] = None THEN ChannelMaxSeq(c) ELSE read[c]
    BY <1>2 DEF Baseline
  <2>3. \A c \in Chans : Rises(c) /\ read'[c] \in Int
    BY <1>0, <2>1, <2>2 DEF Rises
  <2>4. read' = [c \in Chans |-> read'[c]]
    BY <1>2 DEF Baseline
  <2> QED BY <2>3, <2>4
<1>3. CASE UNCHANGED read
  BY <1>0, <1>3 DEF Rises
<1>4. Mark => \E c \in Chans, n \in Int : MarkChannelRead(c, n)
  BY Numbers DEF Mark
<1>5. (BaselineReads \/ AnswerPage) => (\E C : read' = Baseline(C)) \/ UNCHANGED read
  BY DEF BaselineReads, AnswerPage, AnswerHistory, AnswerInbox
<1> QED BY <1>1, <1>2, <1>3, <1>4, <1>5, Untouched

-----------------------------------------------------------------------------
(* Rows, ids and numbers.                                                  *)

\* A row on its way has an id and a number that its channel's rows lack, and no
\* other row on its way there has them.
OnItsWay(c, p, r) ==
  /\ r.by = p /\ r.seq \in 1 .. counter[c] /\ r.id \in ids[c]
  /\ \A q \in Stored(c) : q.id # r.id /\ q.seq # r.seq

PendingHolds ==
  /\ \A p \in Procs, c \in Chans : (Pending(p) /\ sending[p].ch = c) => kind = "pg" /\ OnItsWay(c, p, sending[p].row)
  /\ \A p, q \in Procs : (p # q /\ Pending(p) /\ Pending(q) /\ sending[p].ch = sending[q].ch) =>
       sending[p].row.id # sending[q].row.id /\ sending[p].row.seq # sending[q].row.seq

\* Every id of a channel is known, and has one row at most.
IdsHold ==
  \A c \in Chans : /\ IdsOf(c) \subseteq ids[c]
                   /\ \A q, r \in Stored(c) : q.id = r.id => q = r

RowInv == NumbersHold /\ PendingHolds /\ IdsHold

\* The stored rows are the elements of the sequence.
LEMMA StoredEls == \A c \in Chans : Stored(c) = Els(rows[c])
BY DEF Stored, Els

\* The rows as a function of the channels, typed.
LEMMA StoredRows ==
  ASSUME TypeInv, NEW c \in Chans
  PROVE  /\ rows[c] \in Seq(Row) /\ counter[c] \in Nat /\ ids[c] \subseteq Ids
         /\ \A r \in Stored(c) : r \in Row /\ r.seq \in Nat /\ r.id \in Ids /\ r.by \in Procs
<1>1. rows[c] \in Seq(Row) /\ counter[c] \in Nat /\ ids[c] \subseteq Ids
  BY DEF TypeInv, StoreTypes
<1>2. Stored(c) \subseteq Row
  BY <1>1 DEF Stored
<1>3. \A r \in Row : r.seq \in Nat /\ r.id \in Ids /\ r.by \in Procs
  BY DEF Row
<1> QED BY <1>1, <1>2, <1>3

\* A number is given.
LEMMA Bumped ==
  ASSUME TypeInv, NEW c \in Chans
  PROVE  /\ Bump(c)[c] = counter[c] + 1
         /\ \A d \in Chans : Bump(c)[d] \in Nat /\ Bump(c)[d] \in {counter[d], counter[d] + 1}
<1>1. counter \in [Chans -> Nat]
  BY DEF TypeInv, StoreTypes
<1> QED BY <1>1 DEF Bump

\* A row goes between those before and those after it.
LEMMA Between ==
  ASSUME NEW b \in Seq(Row), NEW a \in Seq(Row), NEW r \in Row, Sorted(b), Sorted(a),
         \A q \in Els(b) : q.seq < r.seq, \A q \in Els(a) : r.seq < q.seq
  PROVE  /\ b \o <<r>> \o a \in Seq(Row) /\ Sorted(b \o <<r>> \o a)
         /\ Els(b \o <<r>> \o a) = Els(b) \cup {r} \cup Els(a)
<1> DEFINE t == b \o <<r>> \o a
           m == Len(b)
           n == Len(a)
<1>1. /\ m \in Nat /\ n \in Nat /\ DOMAIN b = 1 .. m /\ DOMAIN a = 1 .. n /\ t \in Seq(Row) /\ DOMAIN t = 1 .. m + 1 + n
      /\ \A i \in 1 .. m : t[i] = b[i]
      /\ t[m + 1] = r
      /\ \A i \in 1 .. n : t[m + 1 + i] = a[i]
  OBVIOUS
<1> HIDE DEF t, m, n
<1>2. \A i \in DOMAIN t : i \in 1 .. m \/ i = m + 1 \/ (i - m - 1 \in 1 .. n /\ i = m + 1 + (i - m - 1))
  <2> SUFFICES ASSUME NEW i \in DOMAIN t, i \notin 1 .. m, i # m + 1
               PROVE  i - m - 1 \in 1 .. n /\ i = m + 1 + (i - m - 1)
    OBVIOUS
  <2>1. m \in Nat /\ n \in Nat /\ i \in 1 .. m + 1 + n
    BY <1>1
  <2>2. i \in Nat /\ i > m /\ i =< m + 1 + n
    BY <2>1
  <2>3. i > m + 1
    BY <2>1, <2>2
  <2> HIDE DEF m, n
  <2>4. i - m - 1 \in Int /\ 1 =< i - m - 1 /\ i - m - 1 =< n
    BY <2>1, <2>2, <2>3
  <2>5. i = m + 1 + (i - m - 1)
    <3>1. \A x, y \in Nat : x = y + 1 + (x - y - 1)
      OBVIOUS
    <3> QED BY <2>1, <2>2, <3>1, Zenon
  <2> QED BY <2>1, <2>4, <2>5
<1>3. Els(t) = Els(b) \cup {r} \cup Els(a)
  <2>1. ASSUME NEW i \in DOMAIN t PROVE t[i] \in Els(b) \cup {r} \cup Els(a)
    <3>1. CASE i \in 1 .. m
      BY <1>1, <3>1 DEF Els
    <3>2. CASE i = m + 1
      BY <1>1, <3>2
    <3>3. CASE i - m - 1 \in 1 .. n /\ i = m + 1 + (i - m - 1)
      <4>1. t[i] = a[i - m - 1]
        BY <1>1, <3>3
      <4> QED BY <1>1, <3>3, <4>1 DEF Els
    <3> QED BY <1>2, <3>1, <3>2, <3>3
  <2>2. \A i \in 1 .. m : i \in DOMAIN t
    BY <1>1
  <2>3. m + 1 \in DOMAIN t /\ \A i \in 1 .. n : m + 1 + i \in DOMAIN t
    BY <1>1
  <2>4. Els(b) \subseteq Els(t) /\ r \in Els(t) /\ Els(a) \subseteq Els(t)
    BY <1>1, <2>2, <2>3 DEF Els
  <2>5. Els(t) \subseteq Els(b) \cup {r} \cup Els(a)
    BY <2>1 DEF Els
  <2> QED BY <2>4, <2>5
<1>4. Sorted(t)
  <2> SUFFICES ASSUME NEW i \in DOMAIN t, NEW j \in DOMAIN t, i < j PROVE t[i].seq < t[j].seq
    BY DEF Sorted
  <2>1. /\ \A k \in 1 .. m : b[k] \in Row /\ b[k].seq \in Nat /\ b[k].seq < r.seq
        /\ \A k \in 1 .. n : a[k] \in Row /\ a[k].seq \in Nat /\ r.seq < a[k].seq
        /\ r.seq \in Nat
    <3>1. /\ \A k \in 1 .. m : b[k] \in Row /\ b[k].seq < r.seq
          /\ \A k \in 1 .. n : a[k] \in Row /\ r.seq < a[k].seq
      <4>1. (\A k \in 1 .. m : b[k] \in Row) /\ (\A k \in 1 .. n : a[k] \in Row)
        BY DEF m, n
      <4> QED BY <1>1, <4>1 DEF Els
    <3>2. \A q \in Row : q.seq \in Nat
      BY DEF Row
    <3> QED BY <3>1, <3>2
  <2>2. CASE i \in 1 .. m
    <3>1. t[i] = b[i]
      BY <1>1, <2>2
    <3>2. CASE j \in 1 .. m
      BY <1>1, <2>2, <3>2 DEF Sorted
    <3>3. CASE j = m + 1
      BY <1>1, <2>1, <2>2, <3>1, <3>3
    <3>4. CASE j - m - 1 \in 1 .. n /\ j = m + 1 + (j - m - 1)
      <4>1. t[j] = a[j - m - 1]
        BY <1>1, <3>4
      <4>2. b[i].seq < r.seq /\ r.seq < a[j - m - 1].seq /\ b[i].seq \in Nat /\ a[j - m - 1].seq \in Nat
        BY <2>1, <2>2, <3>4
      <4> QED BY <2>1, <3>1, <4>1, <4>2
    <3> QED BY <1>2, <3>2, <3>3, <3>4
  <2>3. CASE i \notin 1 .. m
    <3>1. i > m /\ j > m + 1
      BY <1>1, <1>2, <2>3
    <3>2. j - m - 1 \in 1 .. n /\ j = m + 1 + (j - m - 1)
      <4>1. j \notin 1 .. m /\ j # m + 1
        BY <1>1, <3>1
      <4> QED BY <1>2, <4>1
    <3>3. t[j] = a[j - m - 1]
      BY <1>1, <3>2
    <3>4. CASE i = m + 1
      BY <1>1, <2>1, <3>2, <3>3, <3>4
    <3>5. CASE i - m - 1 \in 1 .. n /\ i = m + 1 + (i - m - 1)
      <4>1. t[i] = a[i - m - 1]
        BY <1>1, <3>5
      <4>2. i - m - 1 < j - m - 1
        BY <1>1
      <4>3. a[i - m - 1].seq < a[j - m - 1].seq
        BY <1>1, <3>2, <3>5, <4>2 DEF Sorted
      <4> QED BY <3>3, <4>1, <4>3
    <3> QED BY <1>2, <2>3, <3>4, <3>5
  <2> QED BY <2>2, <2>3
<1> QED BY <1>1, <1>3, <1>4 DEF t

\* One row more at the end.
LEMMA AtTheEnd ==
  ASSUME NEW s \in Seq(Row), NEW r \in Row, Sorted(s), \A q \in Els(s) : q.seq < r.seq
  PROVE  Append(s, r) \in Seq(Row) /\ Sorted(Append(s, r)) /\ Els(Append(s, r)) = Els(s) \cup {r}
<1> DEFINE t == Append(s, r)
           n == Len(s)
<1>1. /\ n \in Nat /\ DOMAIN s = 1 .. n /\ t \in Seq(Row) /\ DOMAIN t = 1 .. n + 1 /\ t[n + 1] = r
      /\ \A i \in 1 .. n : t[i] = s[i]
  OBVIOUS
<1> HIDE DEF t, n
<1>2. \A i \in DOMAIN t : i \in 1 .. n \/ i = n + 1
  BY <1>1
<1>3. n + 1 \in DOMAIN t /\ \A i \in 1 .. n : i \in DOMAIN t
  BY <1>1
<1>4. Els(t) = Els(s) \cup {r}
  BY <1>1, <1>2, <1>3 DEF Els
<1>5. Sorted(t)
  <2> SUFFICES ASSUME NEW i \in DOMAIN t, NEW j \in DOMAIN t, i < j PROVE t[i].seq < t[j].seq
    BY DEF Sorted
  <2>1. i \in 1 .. n
    BY <1>1
  <2>2. s[i].seq < r.seq
    BY <1>1, <2>1 DEF Els
  <2> QED BY <1>1, <1>2, <2>1, <2>2 DEF Sorted
<1> QED BY <1>1, <1>4, <1>5 DEF t

\* A row becomes visible: in memory at the end, in Postgres at its place.
Joins(c, p, r) ==
  /\ Stored(c)' = Stored(c) \cup {r} /\ Sorted(rows'[c])
  /\ r.by = p /\ r.seq \in 1 .. counter'[c] /\ r.id \in ids'[c]
  /\ \A q \in Stored(c) : q.id # r.id
  /\ \A q \in Procs : (q # p /\ Pending(q) /\ sending[q].ch = c) =>
       sending[q].row.id # r.id /\ sending[q].row.seq # r.seq
  /\ kind = "mem" => rows'[c] = Append(rows[c], r)

\* A stored row joins its channel, and every other channel is as it was.
LEMMA Gains ==
  ASSUME TypeInv, RowInv, NEW p \in Procs, StoreInMemory(p) \/ PgCommit(p), NEW c, c = sending[p].ch
  PROVE  /\ c \in Chans /\ sending' = [sending EXCEPT ![p] = Idle]
         /\ \A d \in Chans : ids[d] \subseteq ids'[d] /\ counter[d] =< counter'[d]
         /\ \A d \in Chans : d # c => rows'[d] = rows[d] /\ ids'[d] = ids[d]
         /\ \E r \in Row : Joins(c, p, r)
<1>0. /\ rows \in [Chans -> Seq(Row)] /\ ids \in [Chans -> SUBSET Ids] /\ counter \in [Chans -> Nat] /\ today \in 0 .. MaxDay
      /\ kind \in {"mem", "pg"}
  BY DEF TypeInv, StoreTypes
<1>1. CASE StoreInMemory(p)
  <2> DEFINE r == [id |-> sending[p].id, by |-> p, day |-> today, seq |-> counter[c] + 1]
             s == rows[c]
  <2>1. c \in Chans /\ sending[p].id \in Ids /\ sending[p].id \notin ids[c] /\ kind = "mem"
    BY <1>1, Stands DEF StoreInMemory, Appending
  <2>2. r \in Row /\ r.id = sending[p].id /\ r.by = p /\ r.seq = counter[c] + 1
    BY <1>0, <2>1 DEF Row
  <2>3. rows' = [rows EXCEPT ![c] = Append(s, r)]
    BY <1>1 DEF StoreInMemory, MemAppend
  <2> HIDE DEF r
  <2>4. /\ ids' = [ids EXCEPT ![c] = @ \cup {r.id}] /\ counter' = Bump(c) /\ sending' = [sending EXCEPT ![p] = Idle]
    BY <1>1, <2>2 DEF StoreInMemory, MemAppend
  <2>5. /\ s \in Seq(Row) /\ Sorted(s)
        /\ \A q \in Els(s) : q.seq < r.seq /\ q.id # r.id
    <3>1. \A q \in Stored(c) : q.seq \in 1 .. counter[c] /\ q.id \in ids[c] /\ Sorted(s)
      BY <2>1 DEF RowInv, NumbersHold, IdsHold, IdsOf
    <3>2. counter[c] \in Nat /\ s \in Seq(Row)
      BY <2>1, StoredRows
    <3>3. Sorted(s) /\ Stored(c) = Els(s)
      BY <2>1, StoredEls DEF RowInv, NumbersHold
    <3> QED BY <2>1, <2>2, <3>1, <3>2, <3>3
  <2> HIDE DEF s
  <2>6. Sorted(Append(s, r)) /\ Els(Append(s, r)) = Els(s) \cup {r}
    BY <2>2, <2>5, AtTheEnd
  <2>7. rows'[c] = Append(s, r) /\ \A d \in Chans : d # c => rows'[d] = rows[d]
    BY <1>0, <2>1, <2>3
  <2>8. Stored(c)' = Els(Append(s, r)) /\ Stored(c) = Els(s)
    BY <2>1, <2>7 DEF Stored, Els, s
  <2>9. ids'[c] = ids[c] \cup {r.id} /\ \A d \in Chans : d # c => ids'[d] = ids[d]
    BY <1>0, <2>1, <2>4
  <2>10. \A d \in Chans : counter'[d] \in {counter[d], counter[d] + 1} /\ counter[d] \in Nat
    BY <1>0, <2>1, <2>4, Bumped
  <2>11. counter'[c] = counter[c] + 1 /\ counter[c] \in Nat
    BY <1>0, <2>1, <2>4, Bumped
  <2>12. \A d \in Chans : counter[d] =< counter'[d]
    BY <2>10
  <2>13. r.seq \in 1 .. counter'[c]
    BY <2>2, <2>11
  <2>14. \A q \in Procs : ~Pending(q)
    BY <2>1, Stands DEF RowInv, PendingHolds
  <2>15. rows'[c] = Append(rows[c], r)
    BY <2>7 DEF s
  <2>16. \A d \in Chans : ids[d] \subseteq ids'[d]
    BY <2>9
  <2>17. Joins(c, p, r)
    BY <2>2, <2>5, <2>6, <2>7, <2>8, <2>9, <2>13, <2>14, <2>15 DEF Joins
  <2> QED BY <2>1, <2>2, <2>4, <2>7, <2>9, <2>12, <2>16, <2>17
<1>2. CASE PgCommit(p)
  <2> DEFINE r == sending[p].row
             s == rows[c]
             B == {q \in Stored(c) : q.seq < r.seq}
             A == {q \in Stored(c) : q.seq > r.seq}
             b == Only(s, B)
             a == Only(s, A)
  <2>1. Pending(p) /\ c \in Chans /\ r \in Row
    BY <1>2, Stands DEF PgCommit, Pending
  <2>2. /\ r.by = p /\ r.seq \in 1 .. counter[c] /\ r.id \in ids[c] /\ kind = "pg"
        /\ \A q \in Stored(c) : q.id # r.id /\ q.seq # r.seq
    BY <2>1 DEF RowInv, PendingHolds, OnItsWay
  <2>3. \A q \in Procs : (q # p /\ Pending(q) /\ sending[q].ch = sending[p].ch) =>
                   sending[q].row.id # r.id /\ sending[q].row.seq # r.seq
    BY <2>1 DEF RowInv, PendingHolds
  <2>4. rows' = [rows EXCEPT ![c] = b \o <<r>> \o a] /\ UNCHANGED <<ids, counter>> /\ sending' = [sending EXCEPT ![p] = Idle]
    BY <1>2 DEF PgCommit
  <2>5. s \in Seq(Row) /\ Sorted(s) /\ Stored(c) = Els(s) /\ \A q \in Stored(c) : q.seq \in Nat
    BY <2>1, StoredRows, StoredEls DEF RowInv, NumbersHold
  <2>6. r.seq \in Nat
    BY <2>1 DEF Row
  <2> HIDE DEF r, s
  <2>7. Stored(c) = B \cup A
    BY <2>2, <2>5, <2>6
  <2>8. B \subseteq Els(s) /\ A \subseteq Els(s)
    BY <2>5
  <2>9. (\A q \in B : q.seq < r.seq) /\ (\A q \in A : r.seq < q.seq)
    BY <2>5, <2>6
  <2> HIDE DEF A, B
  <2>10. /\ b \in Seq(Row) /\ Sorted(b) /\ Els(b) = Els(s) \cap B
         /\ a \in Seq(Row) /\ Sorted(a) /\ Els(a) = Els(s) \cap A
    BY <2>5, OnlySorted
  <2> HIDE DEF a, b
  <2>11. Els(b) = B /\ Els(a) = A
    BY <2>8, <2>10
  <2>12. /\ Sorted(b \o <<r>> \o a) /\ Els(b \o <<r>> \o a) = Els(b) \cup {r} \cup Els(a)
    BY <2>1, <2>9, <2>10, <2>11, Between DEF r
  <2>13. rows'[c] = b \o <<r>> \o a /\ \A d \in Chans : d # c => rows'[d] = rows[d]
    BY <1>0, <2>1, <2>4
  <2>14. Stored(c)' = Els(b \o <<r>> \o a)
    <3> DEFINE t == b \o <<r>> \o a
    <3> HIDE DEF t
    <3>1. rows'[c] = t
      BY <2>13 DEF t
    <3>2. Stored(c)' = Els(t)
      BY <2>1, <2>4, <3>1 DEF Stored, Els
    <3> QED BY <3>2 DEF t
  <2>15. Stored(c)' = Stored(c) \cup {r}
    BY <2>7, <2>11, <2>12, <2>14
  <2>16. \A d \in Chans : counter[d] =< counter'[d] /\ ids[d] = ids'[d]
    BY <1>0, <2>4
  <2>17. Sorted(rows'[c]) /\ r \in Row /\ r.seq \in 1 .. counter'[c] /\ r.id \in ids'[c] /\ kind # "mem"
    BY <2>1, <2>2, <2>4, <2>12, <2>13 DEF r
  <2>18. Joins(c, p, r)
    BY <2>2, <2>3, <2>15, <2>17 DEF Joins, r
  <2> QED BY <1>0, <2>1, <2>4, <2>13, <2>16, <2>17, <2>18
<1> QED BY <1>1, <1>2

\* Rows go: the others keep their order, their ids and, or better, their places.
LEMMA Losses ==
  ASSUME TypeInv, RowInv, Sweep \/ \E d \in Chans : DeleteChannel(d), NEW c \in Chans
  PROVE  /\ Sorted(rows'[c]) /\ Stored(c)' \subseteq Stored(c)
         /\ \A q \in Stored(c)' : q.id \in ids'[c]
         /\ kind = "pg" => ids[c] \ IdsOf(c) \subseteq ids'[c]
         /\ \A k \in DOMAIN rows[c] : rows[c][k] \in Stored(c)' =>
              \E j \in DOMAIN rows'[c] : j =< k /\ rows'[c][j] = rows[c][k]
         /\ Stored(c)' = Stored(c) => rows'[c] = rows[c]
<1> DEFINE Goal == /\ Sorted(rows'[c]) /\ Stored(c)' \subseteq Stored(c)
                   /\ \A q \in Stored(c)' : q.id \in ids'[c]
                   /\ kind = "pg" => ids[c] \ IdsOf(c) \subseteq ids'[c]
                   /\ \A k \in DOMAIN rows[c] : rows[c][k] \in Stored(c)' =>
                        \E j \in DOMAIN rows'[c] : j =< k /\ rows'[c][j] = rows[c][k]
                   /\ Stored(c)' = Stored(c) => rows'[c] = rows[c]
           s == rows[c]
<1>0. /\ rows \in [Chans -> Seq(Row)] /\ ids \in [Chans -> SUBSET Ids] /\ kind \in {"mem", "pg"}
      /\ sweep \subseteq [ch : Chans, days : Nat, now : Nat]
  BY DEF TypeInv, StoreTypes, RetentionTypes
<1>1. s \in Seq(Row) /\ Sorted(s) /\ Stored(c) = Els(s) /\ \A q \in Stored(c) : q.id \in ids[c]
  BY <1>0, StoredEls DEF RowInv, NumbersHold, IdsHold, IdsOf
<1>2. CASE rows'[c] = s /\ ids'[c] = ids[c]
  <2>1. Stored(c)' = Stored(c)
    BY <1>2 DEF Stored
  <2>2. DOMAIN s \subseteq Nat /\ \A k \in DOMAIN s : k =< k
    BY <1>1
  <2> QED BY <1>1, <1>2, <2>1, <2>2
<1>3. ASSUME NEW d \in Chans, DeleteChannel(d) PROVE Goal
  <2>1. CASE kind = "mem" /\ d = c
    <3>1. rows'[c] = <<>>
      BY <1>0, <1>3, <2>1 DEF DeleteChannel
    <3>2. Stored(c)' = {} /\ Sorted(rows'[c])
      BY <3>1 DEF Stored, Sorted
    <3>3. Stored(c) = {} => s = <<>>
      <4>1. s # <<>> => 1 \in DOMAIN s
        BY <1>1
      <4> QED BY <1>1, <4>1 DEF Els
    <3> QED BY <2>1, <3>1, <3>2, <3>3
  <2>2. CASE ~(kind = "mem" /\ d = c)
    <3>1. rows'[c] = s /\ ids'[c] = ids[c]
      BY <1>0, <1>3, <2>2 DEF DeleteChannel
    <3> QED BY <1>2, <3>1
  <2> QED BY <2>1, <2>2
<1>4. ASSUME NEW job \in sweep, SweepChannel(job) PROVE Goal
  <2>1. CASE job.ch # c
    <3>1. rows'[c] = s /\ ids'[c] = ids[c]
      BY <1>0, <1>4, <2>1 DEF SweepChannel
    <3> QED BY <1>2, <3>1
  <2>2. CASE job.ch = c
    <3> DEFINE out == {r \in Stored(c) : Expired(job, r)}
               K == Stored(c) \ out
               t == Only(s, K)
    <3>1. rows'[c] = t /\ ids'[c] = ids[c] \ {r.id : r \in out}
      BY <1>0, <1>4, <2>2 DEF SweepChannel
    <3>2. out \subseteq Stored(c)
      OBVIOUS
    <3> HIDE DEF out
    <3>3. K \subseteq Els(s)
      BY <1>1
    <3> HIDE DEF K, s
    <3>4. Sorted(t) /\ Els(t) = Els(s) \cap K
      BY <1>1, OnlySorted
    <3>5. /\ \A k \in DOMAIN s : s[k] \in K => \E j \in DOMAIN t : j =< k /\ t[j] = s[k]
          /\ Els(s) \subseteq K => t = s
      BY <1>1, OnlyPlaces
    <3> HIDE DEF t
    <3>6. Stored(c)' = Els(t)
      BY <3>1 DEF Stored, Els
    <3>7. Stored(c)' = K
      BY <3>3, <3>4, <3>6
    <3>8. ASSUME NEW q \in K PROVE q.id \in ids'[c]
      <4>1. q \in Stored(c) /\ q \notin out
        BY <3>8 DEF K
      <4>2. \A r \in out : r.id # q.id
        BY <3>2, <4>1 DEF RowInv, IdsHold
      <4> QED BY <1>1, <3>1, <4>1, <4>2
    <3>9. ids[c] \ IdsOf(c) \subseteq ids'[c]
      BY <3>1, <3>2 DEF IdsOf
    <3>10. K \subseteq Stored(c)
      BY DEF K
    <3> QED BY <1>1, <3>1, <3>4, <3>5, <3>7, <3>8, <3>9, <3>10 DEF s
  <2> QED BY <2>1, <2>2
<1> QED BY <1>3, <1>4 DEF Sweep

\* Nothing is stored at the start.
LEMMA InitRows == Init => RowInv
<1> SUFFICES ASSUME Init PROVE RowInv
  OBVIOUS
<1>1. \A c \in Chans : rows[c] = <<>> /\ Stored(c) = {} /\ Sorted(rows[c])
  BY DEF Init, Stored, Sorted
<1>2. \A p \in Procs : ~Pending(p)
  BY DEF Init, Pending, Idle
<1> QED BY <1>1, <1>2 DEF RowInv, NumbersHold, PendingHolds, IdsHold, IdsOf

\* Requests and deliveries take their places.
LEMMA Enters ==
  ASSUME TypeInv, Send \/ Receive
  PROVE  /\ SendTypes' /\ UNCHANGED <<rows, ids, counter>>
         /\ \A p \in Procs : /\ Pending(p)' <=> Pending(p)
                             /\ Pending(p) => sending'[p] = sending[p]
<1>0. sending \in [Procs -> Sends] /\ Senders \subseteq Procs
  BY DEF TypeInv, SendTypes, Procs
<1>1. ASSUME NEW p \in Procs, NEW e \in Ids, sending[p].step = "idle",
             sending' = [sending EXCEPT ![p] = [step |-> "append", ch |-> ChanOf[e], id |-> e]]
      PROVE  /\ SendTypes'
             /\ \A q \in Procs : /\ Pending(q)' <=> Pending(q)
                                 /\ Pending(q) => sending'[q] = sending[q]
  <2> DEFINE z == [step |-> "append", ch |-> ChanOf[e], id |-> e]
  <2>1. z \in Sends /\ z.step = "append"
    BY Numbers DEF Sends
  <2>2. sending' = [sending EXCEPT ![p] = z]
    BY <1>1
  <2> HIDE DEF z
  <2>3. sending'[p] = z /\ \A q \in Procs : q # p => sending'[q] = sending[q]
    BY <1>0, <2>2
  <2>4. SendTypes'
    BY <1>0, <2>1, <2>2 DEF SendTypes
  <2> QED BY <1>1, <2>1, <2>3, <2>4 DEF Pending
<1>2. UNCHANGED <<rows, ids, counter>>
  BY DEF Send, Receive, AcceptSend, Inbound, store
<1>3. Send => \E p \in Procs, e \in Ids :
        sending[p].step = "idle" /\ sending' = [sending EXCEPT ![p] = [step |-> "append", ch |-> ChanOf[e], id |-> e]]
  BY <1>0 DEF Send, AcceptSend
<1>4. Receive => \E e \in Ids :
        sending[Hub].step = "idle" /\ sending' = [sending EXCEPT ![Hub] = [step |-> "append", ch |-> ChanOf[e], id |-> e]]
  BY DEF Receive, Inbound
<1> QED BY <1>1, <1>2, <1>3, <1>4, Numbers

\* Every step keeps the types.
LEMMA StepTyped == TypeInv /\ NumbersHold /\ [Next]_vars => TypeInv'
<1> SUFFICES ASSUME TypeInv, NumbersHold, [Next]_vars PROVE TypeInv'
  OBVIOUS
<1>0. StoreTypes /\ RetentionTypes /\ SendTypes /\ ReaderTypes
  BY DEF TypeInv
<1>1. rows' \in [Chans -> Seq(Row)] /\ ids' \in [Chans -> SUBSET Ids] /\ counter' \in [Chans -> Nat] /\ SendTypes'
  <2>1. CASE Send \/ Receive
    BY <1>0, <2>1, Enters DEF StoreTypes
  <2>2. CASE Store
    BY <2>2, StoreCall DEF Store
  <2>3. CASE Sweep \/ \E c \in Chans : DeleteChannel(c)
    BY <1>0, <2>3, Removal DEF StoreTypes, SendTypes
  <2>4. CASE UNCHANGED <<rows, ids, counter, sending>>
    BY <1>0, <2>4 DEF StoreTypes, SendTypes
  <2> QED BY <2>1, <2>2, <2>3, <2>4, Untouched DEF Writes
<1>2. calls' \in 0 .. MaxCalls
  BY <1>0, Numbers DEF StoreTypes, Next, vars
<1>3. today' \in 0 .. MaxDay
  BY <1>0, Untouched, Numbers DEF StoreTypes, NextDay
<1>4. StoreTypes'
  BY <1>0, <1>1, <1>2, <1>3, Untouched, Cursors DEF StoreTypes
<1>5. RetentionTypes'
  <2>0. Keep \in Nat /\ Gone \in Nat /\ today \in Nat
    BY <1>0, Numbers DEF StoreTypes
  <2>1. CASE Patch
    BY <1>0, <2>1 DEF Patch, PatchRetention, DeleteChannel, RetentionTypes
  <2>2. CASE ListRetention
    <3>1. \A c \in Chans : [ch |-> c, days |-> retention[c], now |-> today] \in [ch : Chans, days : Nat, now : Nat]
      BY <1>0, <2>0 DEF RetentionTypes
    <3> QED BY <1>0, <2>2, <3>1 DEF ListRetention, RetentionTypes
  <2>3. CASE Sweep
    BY <1>0, <2>3 DEF Sweep, SweepChannel, RetentionTypes
  <2>4. CASE UNCHANGED <<retention, sweep>>
    BY <1>0, <2>4 DEF RetentionTypes
  <2> QED BY <2>1, <2>2, <2>3, <2>4, Untouched
<1>6. ReaderTypes'
  <2>1. CASE List
    <3>1. ASSUME NEW what \in {"inbox", "history"}, NEW c, what = "history" => c \in Chans, StartListing(what, c) PROVE ReaderTypes'
      <4>1. /\ DOMAIN reader' = {"what", "ch", "step", "cursor", "got", "cut"} /\ reader'.step \in Steps
            /\ reader'.what = what /\ reader'.ch = c /\ reader'.got = <<>> /\ (what = "history" => reader'.cursor = 0)
        BY <3>1 DEF StartListing, Steps
      <4> QED BY <3>1, <4>1 DEF ReaderTypes
    <3> QED BY <2>1, <3>1 DEF List
  <2>2. CASE BaselineReads \/ AnswerNotFound
    BY <1>0, <2>2 DEF BaselineReads, AnswerNotFound, ReaderTypes, Steps
  <2>3. CASE AnswerHistory
    <3>1. /\ DOMAIN reader' = DOMAIN reader /\ reader'.what = reader.what /\ reader'.ch = reader.ch
          /\ reader.what = "history" /\ reader'.step \in {"done", "page"}
          /\ reader'.got = HistoryPage.items \o reader.got /\ reader'.cursor = HistoryPage.next
      BY <2>3, Answered
    <3>2. HistoryPage.items \in Seq(Row) /\ HistoryPage.next \in Nat
      BY <2>3, PageIs
    <3>3. HistoryPage.items \o reader.got \in Seq(Row)
      BY <1>0, <3>1, <3>2 DEF ReaderTypes
    <3> QED BY <1>0, <3>1, <3>2, <3>3 DEF ReaderTypes, Steps
  <2>5. ASSUME NEW scan \in Scans, AnswerInbox(scan) PROVE ReaderTypes'
    <3>1. /\ DOMAIN reader' = DOMAIN reader /\ reader'.what = "inbox" /\ reader'.step \in {"done", "baseline"}
      BY <2>5, InboxAnswered
    <3> QED BY <1>0, <3>1 DEF ReaderTypes, Steps
  <2>4. CASE UNCHANGED reader
    BY <1>0, <2>4 DEF ReaderTypes
  <2> QED BY <2>1, <2>2, <2>3, <2>4, <2>5, Untouched DEF AnswerPage
<1> QED BY <1>1, <1>4, <1>5, <1>6 DEF TypeInv

\* The insert has its number, and the row is on its way.
LEMMA Inserts ==
  ASSUME TypeInv, NEW p \in Procs, PgInsert(p), NEW c, c = sending[p].ch
  PROVE  /\ c \in Chans /\ kind = "pg" /\ UNCHANGED rows
         /\ sending'[p].step = "commit" /\ sending'[p].ch = c /\ \A q \in Procs : q # p => sending'[q] = sending[q]
         /\ sending'[p].row.id \notin ids[c] /\ sending'[p].row.by = p /\ sending'[p].row.seq = counter[c] + 1
         /\ ids'[c] = ids[c] \cup {sending'[p].row.id} /\ \A d \in Chans : d # c => ids'[d] = ids[d]
         /\ counter'[c] = counter[c] + 1 /\ \A d \in Chans : counter'[d] \in {counter[d], counter[d] + 1}
<1> DEFINE e == sending[p].id
           r == [id |-> e, by |-> p, day |-> today, seq |-> counter[c] + 1]
           z == [step |-> "commit", ch |-> c, row |-> r]
<1>1. c \in Chans /\ e \notin ids[c] /\ kind = "pg" /\ UNCHANGED rows
  BY Stands DEF PgInsert, Appending
<1>2. ids' = [ids EXCEPT ![c] = @ \cup {e}] /\ counter' = Bump(c) /\ sending' = [sending EXCEPT ![p] = z]
  BY DEF PgInsert
<1>3. r.id = e /\ r.by = p /\ r.seq = counter[c] + 1
  OBVIOUS
<1> HIDE DEF r, e
<1>4. z.step = "commit" /\ z.ch = c /\ z.row = r
  OBVIOUS
<1> HIDE DEF z
<1>5. sending'[p] = z /\ \A q \in Procs : q # p => sending'[q] = sending[q]
  BY <1>2 DEF TypeInv, SendTypes
<1>6. ids'[c] = ids[c] \cup {e} /\ \A d \in Chans : d # c => ids'[d] = ids[d]
  BY <1>1, <1>2 DEF TypeInv, StoreTypes
<1>7. counter'[c] = counter[c] + 1 /\ \A d \in Chans : counter'[d] \in {counter[d], counter[d] + 1}
  BY <1>1, <1>2, Bumped
<1> QED BY <1>1, <1>3, <1>4, <1>5, <1>6, <1>7

\* Numbers are given upwards.
LEMMA CountsUp ==
  ASSUME TypeInv, RowInv, [Next]_vars, NEW c \in Chans
  PROVE  counter[c] =< counter'[c]
<1>0. counter \in [Chans -> Nat]
  BY DEF TypeInv, StoreTypes
<1>1. ASSUME NEW p \in Procs, KnownId(p) PROVE counter[c] =< counter'[c]
  <2>1. sending[p].ch \in Chans
    BY <1>1, Stands DEF KnownId, Appending
  <2>2. counter'[c] \in {counter[c], counter[c] + 1}
    BY <1>0, <1>1, <2>1, Bumped DEF KnownId
  <2> QED BY <1>0, <2>2
<1>2. ASSUME NEW p \in Procs, PgInsert(p) PROVE counter[c] =< counter'[c]
  <2>1. counter'[c] \in {counter[c], counter[c] + 1}
    BY <1>2, Inserts
  <2> QED BY <1>0, <2>1
<1>3. ASSUME NEW p \in Procs, StoreInMemory(p) \/ PgCommit(p) PROVE counter[c] =< counter'[c]
  BY <1>3, Gains
<1>4. CASE UNCHANGED counter
  BY <1>0, <1>4
<1>5. (Sweep \/ \E d \in Chans : DeleteChannel(d)) => UNCHANGED counter
  BY Removal
<1>6. (Send \/ Receive) => UNCHANGED counter
  BY Enters
<1> QED BY <1>1, <1>2, <1>3, <1>4, <1>5, <1>6, Untouched DEF Writes, Store

\* Every step keeps rows, ids and numbers in accord.
LEMMA StepRows == TypeInv /\ RowInv /\ [Next]_vars => RowInv'
<1> SUFFICES ASSUME TypeInv, RowInv, [Next]_vars PROVE RowInv'
  OBVIOUS
<1>0. /\ \A c \in Chans : counter[c] \in Nat /\ counter'[c] \in Nat /\ counter[c] =< counter'[c]
      /\ kind' = kind /\ NumbersHold /\ PendingHolds /\ IdsHold
  <2>1. TypeInv'
    BY StepTyped DEF RowInv
  <2>2. \A c \in Chans : counter[c] \in Nat /\ counter'[c] \in Nat
    BY <2>1 DEF TypeInv, StoreTypes
  <2> QED BY <2>2, CountsUp, Untouched DEF RowInv
<1>1. CASE /\ UNCHANGED <<rows, ids>>
           /\ \A p \in Procs : (Pending(p)' => Pending(p) /\ sending'[p] = sending[p])
  <2>1. \A c \in Chans : Stored(c)' = Stored(c) /\ ids'[c] = ids[c] /\ rows'[c] = rows[c]
    BY <1>1 DEF Stored
  <2>2. NumbersHold'
    BY <1>0, <2>1 DEF NumbersHold
  <2>3. IdsHold'
    BY <1>0, <2>1 DEF IdsHold, IdsOf
  <2>4. ASSUME NEW p \in Procs, NEW c \in Chans, Pending(p)', sending'[p].ch = c
        PROVE  kind' = "pg" /\ OnItsWay(c, p, sending[p].row)'
    <3>1. Pending(p) /\ sending'[p] = sending[p] /\ sending[p].ch = c /\ sending[p].row \in Row
      BY <1>1, <2>4, Stands
    <3>2. sending[p].row.seq \in Nat
      BY <3>1 DEF Row
    <3>3. kind = "pg" /\ OnItsWay(c, p, sending[p].row)
      BY <1>0, <3>1 DEF PendingHolds
    <3> QED BY <1>0, <2>1, <3>1, <3>2, <3>3 DEF OnItsWay
  <2>5. \A p, q \in Procs : (p # q /\ Pending(p)' /\ Pending(q)' /\ sending'[p].ch = sending'[q].ch) =>
          sending'[p].row.id # sending'[q].row.id /\ sending'[p].row.seq # sending'[q].row.seq
    BY <1>0, <1>1 DEF PendingHolds
  <2>6. PendingHolds'
    BY <2>4, <2>5 DEF PendingHolds
  <2> QED BY <2>2, <2>3, <2>6 DEF RowInv
<1>2. ASSUME NEW p \in Procs, KnownId(p) PROVE RowInv'
  <2>1. UNCHANGED <<rows, ids>> /\ sending' = [sending EXCEPT ![p] = Idle]
    BY <1>2 DEF KnownId
  <2>2. \A q \in Procs : (Pending(q)' => Pending(q) /\ sending'[q] = sending[q])
    BY <2>1 DEF TypeInv, SendTypes, Pending, Idle
  <2> QED BY <1>1, <2>1, <2>2
<1>3. ASSUME NEW p \in Procs, StoreInMemory(p) \/ PgCommit(p), NEW k, k = sending[p].ch PROVE RowInv'
  <2>1. /\ k \in Chans /\ sending' = [sending EXCEPT ![p] = Idle]
        /\ \A d \in Chans : ids[d] \subseteq ids'[d]
        /\ \A d \in Chans : d # k => rows'[d] = rows[d] /\ ids'[d] = ids[d]
    BY <1>3, Gains
  <2>2. PICK r \in Row : Joins(k, p, r)
    BY <1>3, Gains
  <2>3. /\ Stored(k)' = Stored(k) \cup {r} /\ Sorted(rows'[k])
        /\ r.by = p /\ r.seq \in 1 .. counter'[k] /\ r.id \in ids'[k]
        /\ \A q \in Stored(k) : q.id # r.id
        /\ \A q \in Procs : (q # p /\ Pending(q) /\ sending[q].ch = k) =>
             sending[q].row.id # r.id /\ sending[q].row.seq # r.seq
    BY <2>2 DEF Joins
  <2>4. \A q \in Procs : (Pending(q)' => q # p /\ Pending(q) /\ sending'[q] = sending[q])
    BY <2>1 DEF TypeInv, SendTypes, Pending, Idle
  <2>5. \A d \in Chans : d # k => Stored(d)' = Stored(d) /\ rows'[d] = rows[d]
    BY <2>1 DEF Stored
  <2>6. \A d \in Chans : \A q \in Stored(d) : q.seq \in 1 .. counter'[d]
    <3>1. \A d \in Chans : \A q \in Stored(d) : q.seq \in 1 .. counter[d]
      BY <1>0 DEF NumbersHold
    <3> QED BY <1>0, <3>1
  <2>7. NumbersHold'
    <3>1. \A d \in Chans : Sorted(rows[d])
      BY <1>0 DEF NumbersHold
    <3>2. \A d \in Chans : Sorted(rows'[d]) /\ \A q \in Stored(d)' : q.seq \in 1 .. counter'[d]
      BY <2>3, <2>5, <2>6, <3>1
    <3> QED BY <3>2 DEF NumbersHold, Sorted
  <2>8. IdsHold'
    <3>1. ASSUME NEW d \in Chans PROVE (\A q \in Stored(d)' : q.id \in ids'[d]) /\ \A q, s \in Stored(d)' : q.id = s.id => q = s
      <4>1. (\A q \in Stored(d) : q.id \in ids[d]) /\ \A q, s \in Stored(d) : q.id = s.id => q = s
        BY <1>0 DEF IdsHold, IdsOf
      <4>2. CASE d = k
        BY <2>1, <2>3, <4>1, <4>2
      <4>3. CASE d # k
        BY <2>1, <2>5, <4>1, <4>3
      <4> QED BY <4>2, <4>3
    <3> QED BY <3>1 DEF IdsHold, IdsOf
  <2>9. ASSUME NEW q \in Procs, NEW d \in Chans, Pending(q)', sending'[q].ch = d
        PROVE  kind' = "pg" /\ OnItsWay(d, q, sending[q].row)'
    <3>1. q # p /\ Pending(q) /\ sending'[q] = sending[q] /\ sending[q].ch = d /\ sending[q].row \in Row
      BY <2>4, <2>9, Stands
    <3>2. PICK s \in Row : s = sending[q].row
      BY <3>1
    <3>3. kind = "pg" /\ OnItsWay(d, q, s)
      BY <1>0, <3>1, <3>2 DEF PendingHolds
    <3>4. s.seq \in 1 .. counter'[d] /\ s.id \in ids'[d] /\ s.by = q
      BY <1>0, <2>1, <3>3 DEF OnItsWay
    <3>5. \A t \in Stored(d)' : t.id # s.id /\ t.seq # s.seq
      BY <2>3, <2>5, <3>1, <3>2, <3>3 DEF OnItsWay
    <3> QED BY <1>0, <3>1, <3>2, <3>3, <3>4, <3>5 DEF OnItsWay
  <2>10. \A q, s \in Procs : (q # s /\ Pending(q)' /\ Pending(s)' /\ sending'[q].ch = sending'[s].ch) =>
          sending'[q].row.id # sending'[s].row.id /\ sending'[q].row.seq # sending'[s].row.seq
    BY <1>0, <2>4 DEF PendingHolds
  <2>11. PendingHolds'
    BY <2>9, <2>10 DEF PendingHolds
  <2> QED BY <2>7, <2>8, <2>11 DEF RowInv
<1>4. ASSUME NEW p \in Procs, PgInsert(p), NEW k, k = sending[p].ch PROVE RowInv'
  <2>1. /\ k \in Chans /\ kind = "pg" /\ UNCHANGED rows
        /\ sending'[p].step = "commit" /\ sending'[p].ch = k /\ \A q \in Procs : q # p => sending'[q] = sending[q]
        /\ sending'[p].row.id \notin ids[k] /\ sending'[p].row.by = p /\ sending'[p].row.seq = counter[k] + 1
        /\ ids'[k] = ids[k] \cup {sending'[p].row.id} /\ \A d \in Chans : d # k => ids'[d] = ids[d]
        /\ counter'[k] = counter[k] + 1
    BY <1>4, Inserts
  <2>2. \A d \in Chans : Stored(d)' = Stored(d) /\ rows'[d] = rows[d] /\ ids[d] \subseteq ids'[d]
    BY <2>1 DEF Stored
  <2>3. \A d \in Chans : \A q \in Stored(d) : q.seq \in 1 .. counter[d] /\ q.seq \in 1 .. counter'[d] /\ q.id \in ids[d]
    <3>1. \A d \in Chans : \A q \in Stored(d) : q.seq \in 1 .. counter[d] /\ q.id \in ids[d]
      BY <1>0 DEF NumbersHold, IdsHold, IdsOf
    <3> QED BY <1>0, <3>1
  <2>4. NumbersHold'
    BY <1>0, <2>2, <2>3 DEF NumbersHold
  <2>5. IdsHold'
    BY <1>0, <2>2 DEF IdsHold, IdsOf
  <2>6. ASSUME NEW q \in Procs, NEW d \in Chans, Pending(q)', sending'[q].ch = d
        PROVE  kind' = "pg" /\ OnItsWay(d, q, sending[q].row)'
    <3>1. CASE q = p
      <4>1. d = k
        BY <2>1, <2>6, <3>1
      <4> DEFINE s == sending'[p].row
      <4>2. s.by = p /\ s.id \in ids'[k] /\ s.id \notin ids[k] /\ s.seq = counter[k] + 1
        BY <2>1
      <4> HIDE DEF s
      <4>3. s.seq \in 1 .. counter'[k] /\ \A t \in Stored(k) : t.id # s.id /\ t.seq # s.seq
        BY <1>0, <2>1, <2>3, <4>2
      <4> QED BY <1>0, <2>1, <2>2, <3>1, <4>1, <4>2, <4>3 DEF OnItsWay, s
    <3>2. CASE q # p
      <4>1. Pending(q) /\ sending'[q] = sending[q] /\ sending[q].ch = d /\ sending[q].row \in Row
        BY <2>1, <2>6, <3>2, Stands DEF Pending
      <4>2. PICK s \in Row : s = sending[q].row
        BY <4>1
      <4>3. kind = "pg" /\ OnItsWay(d, q, s)
        BY <1>0, <4>1, <4>2 DEF PendingHolds
      <4>4. s.seq \in 1 .. counter'[d] /\ s.id \in ids'[d] /\ s.by = q
        BY <1>0, <2>2, <4>3 DEF OnItsWay
      <4>5. \A t \in Stored(d)' : t.id # s.id /\ t.seq # s.seq
        BY <2>2, <4>3 DEF OnItsWay
      <4> QED BY <1>0, <4>1, <4>2, <4>3, <4>4, <4>5 DEF OnItsWay
    <3> QED BY <3>1, <3>2
  <2>7. ASSUME NEW q \in Procs, q # p, Pending(q), sending[q].ch = k
        PROVE  sending'[p].row.id # sending[q].row.id /\ sending'[p].row.seq # sending[q].row.seq
    <3>1. sending[q].row.id \in ids[k] /\ sending[q].row.seq \in 1 .. counter[k]
      BY <1>0, <2>1, <2>7 DEF PendingHolds, OnItsWay
    <3> QED BY <1>0, <2>1, <3>1
  <2>8. \A q \in Procs : q # p => (Pending(q)' <=> Pending(q)) /\ sending'[q] = sending[q]
    BY <2>1 DEF Pending
  <2>9. \A q, s \in Procs : (q # s /\ Pending(q)' /\ Pending(s)' /\ sending'[q].ch = sending'[s].ch) =>
          sending'[q].row.id # sending'[s].row.id /\ sending'[q].row.seq # sending'[s].row.seq
    BY <1>0, <2>1, <2>7, <2>8 DEF PendingHolds
  <2>10. PendingHolds'
    BY <2>6, <2>9 DEF PendingHolds
  <2> QED BY <2>4, <2>5, <2>10 DEF RowInv
<1>5. CASE Sweep \/ \E c \in Chans : DeleteChannel(c)
  <2>1. ASSUME NEW c \in Chans
        PROVE  /\ Sorted(rows'[c]) /\ Stored(c)' \subseteq Stored(c)
               /\ \A q \in Stored(c)' : q.id \in ids'[c]
               /\ kind = "pg" => ids[c] \ IdsOf(c) \subseteq ids'[c]
    BY <1>5, Losses
  <2>2. UNCHANGED <<counter, sending>>
    BY <1>5, Removal
  <2>3. NumbersHold'
    BY <1>0, <2>1, <2>2 DEF NumbersHold, Sorted
  <2>4. IdsHold'
    <3>1. \A c \in Chans : (\A q \in Stored(c)' : q.id \in ids'[c]) /\ \A q, s \in Stored(c)' : q.id = s.id => q = s
      BY <1>0, <2>1 DEF IdsHold
    <3> QED BY <3>1 DEF IdsHold, IdsOf
  <2>5. ASSUME NEW p \in Procs, NEW c \in Chans, Pending(p), sending[p].ch = c
        PROVE  kind' = "pg" /\ OnItsWay(c, p, sending[p].row)'
    <3>1. kind = "pg" /\ OnItsWay(c, p, sending[p].row)
      BY <1>0, <2>5 DEF PendingHolds
    <3>2. sending[p].row.id \in ids[c] \ IdsOf(c)
      BY <3>1 DEF OnItsWay, IdsOf
    <3>3. sending[p].row.id \in ids'[c]
      BY <2>1, <3>1, <3>2
    <3> QED BY <1>0, <2>1, <2>2, <3>1, <3>3 DEF OnItsWay
  <2>6. PendingHolds'
    BY <1>0, <2>2, <2>5 DEF PendingHolds, Pending
  <2> QED BY <2>3, <2>4, <2>6 DEF RowInv
<1>6. CASE UNCHANGED <<rows, ids, counter, sending>>
  BY <1>1, <1>6 DEF Pending
<1>7. CASE Send \/ Receive
  BY <1>1, <1>7, Enters
<1> QED BY <1>2, <1>3, <1>4, <1>5, <1>6, <1>7, Untouched DEF Writes, Store

\* Both together.
LEMMA InvStays == TypeInv /\ RowInv /\ [Next]_vars => (TypeInv /\ RowInv)'
BY StepTyped, StepRows DEF RowInv

\* An envelope is stored once, however often and by whoever it is sent or delivered,
\* in any number of channels and with deletions at any time.
THEOREM StoredOnce == Spec => []EachIdOnce
<1>1. Init => TypeInv /\ RowInv
  BY InitTyped, InitRows
<1>2. TypeInv /\ RowInv => EachIdOnce
  <2> SUFFICES ASSUME TypeInv, RowInv, NEW c \in Chans PROVE Cardinality(IdsOf(c)) = Len(rows[c])
    BY DEF EachIdOnce
  <2> DEFINE n == Len(rows[c])
             f == [i \in 1 .. n |-> rows[c][i].id]
  <2>1. /\ rows[c] \in Seq(Row) /\ n \in Nat /\ DOMAIN rows[c] = 1 .. n /\ Sorted(rows[c])
        /\ \A q, r \in Stored(c) : q.id = r.id => q = r
    BY StoredRows DEF RowInv, NumbersHold, IdsHold
  <2>2. \A i \in 1 .. n : rows[c][i] \in Stored(c) /\ rows[c][i].seq \in Nat
    BY <2>1, StoredRows DEF Stored
  <2> HIDE DEF n
  <2>3. ASSUME NEW i \in 1 .. n, NEW j \in 1 .. n, i # j PROVE rows[c][i].id # rows[c][j].id
    <3>1. i < j \/ j < i
      BY <2>1, <2>3
    <3>2. rows[c][i].seq < rows[c][j].seq \/ rows[c][j].seq < rows[c][i].seq
      BY <2>1, <3>1 DEF Sorted
    <3>3. rows[c][i].seq # rows[c][j].seq
      BY <2>2, <3>2
    <3> QED BY <2>1, <2>2, <3>3
  <2>4. IdsOf(c) = {rows[c][i].id : i \in 1 .. n}
    BY <2>1 DEF IdsOf, Stored
  <2>5. f \in Bijection(1 .. n, IdsOf(c))
    <3>1. f \in [1 .. n -> IdsOf(c)]
      BY <2>4
    <3>2. \A i, j \in 1 .. n : i # j => f[i] # f[j]
      BY <2>3
    <3>3. \A e \in IdsOf(c) : \E i \in 1 .. n : f[i] = e
      BY <2>4
    <3> HIDE DEF f
    <3> QED BY <3>1, <3>2, <3>3 DEF Bijection, Injection, Surjection, IsInjective
  <2>6. IsFiniteSet(1 .. n) /\ Cardinality(1 .. n) = n
    BY <2>1, FS_Interval
  <2>7. Cardinality(IdsOf(c)) = Cardinality(1 .. n)
    <3> HIDE DEF f
    <3>1. ExistsBijection(1 .. n, IdsOf(c))
      BY <2>5 DEF ExistsBijection
    <3> QED BY <2>6, <3>1, FS_Bijection
  <2> QED BY <2>6, <2>7 DEF n
<1> QED BY <1>1, <1>2, InvStays, PTL DEF Spec

-----------------------------------------------------------------------------
(* Numbers given, and the read cursors under them.                         *)

\* p takes a request for c.
Takes(p, c) ==
  /\ sending[p].step = "idle" /\ sending'[p].step = "append" /\ sending'[p].ch = c
  /\ \A q \in Procs : q # p => sending'[q] = sending[q]

\* A request is taken by somebody who was idle; a sender takes it for a channel below its cap.
LEMMA Taken ==
  ASSUME TypeInv
  PROVE  /\ Send => \E p \in Senders, c \in Chans : Takes(p, c) /\ ~OverByteCap(c)
         /\ Receive => \E c \in Chans : Takes(Hub, c)
<1>0. sending \in [Procs -> Sends] /\ Senders \subseteq Procs /\ Hub \in Procs
  BY DEF TypeInv, SendTypes, Procs
<1>1. ASSUME NEW p \in Procs, NEW e \in Ids, sending[p].step = "idle",
             sending' = [sending EXCEPT ![p] = [step |-> "append", ch |-> ChanOf[e], id |-> e]]
      PROVE  Takes(p, ChanOf[e])
  <2> DEFINE z == [step |-> "append", ch |-> ChanOf[e], id |-> e]
  <2>1. z.step = "append" /\ z.ch = ChanOf[e] /\ sending' = [sending EXCEPT ![p] = z]
    BY <1>1
  <2> HIDE DEF z
  <2> QED BY <1>0, <1>1, <2>1 DEF Takes
<1>2. ASSUME NEW p \in Senders, NEW e \in Ids, AcceptSend(p, e)
      PROVE  Takes(p, ChanOf[e]) /\ ~OverByteCap(ChanOf[e]) /\ ChanOf[e] \in Chans
  BY <1>0, <1>1, <1>2, Numbers DEF AcceptSend
<1>3. ASSUME NEW e \in Ids, Inbound(e) PROVE Takes(Hub, ChanOf[e]) /\ ChanOf[e] \in Chans
  BY <1>0, <1>1, <1>3, Numbers DEF Inbound
<1> QED BY <1>2, <1>3 DEF Send, Receive

\* Every number was given on a call, and those about to append have had theirs.
Waiting == {p \in Procs : Appending(p)}

CountHolds == \A c \in Chans : counter[c] + Cardinality(Waiting) =< calls

\* No number is given and nothing read at the start.
LEMMA InitCounts == Init => CountHolds /\ ReadWithinGiven
<1> SUFFICES ASSUME Init PROVE CountHolds /\ ReadWithinGiven
  OBVIOUS
<1>1. Waiting = {}
  BY DEF Init, Waiting, Appending, Idle
<1>2. Cardinality(Waiting) = 0
  BY <1>1, FS_EmptySet
<1> QED BY <1>2 DEF Init, CountHolds, ReadWithinGiven

\* Every step keeps the count,
LEMMA StepCounts == TypeInv /\ RowInv /\ CountHolds /\ [Next]_vars => CountHolds'
<1> SUFFICES ASSUME TypeInv, RowInv, CountHolds, [Next]_vars PROVE CountHolds'
  OBVIOUS
<1>0. /\ IsFiniteSet(Waiting) /\ Cardinality(Waiting) \in Nat /\ calls \in Nat
      /\ \A c \in Chans : counter[c] \in Nat /\ counter[c] + Cardinality(Waiting) =< calls
  <2>1. IsFiniteSet(Procs)
    BY Numbers, FS_AddElement DEF Procs
  <2>2. Waiting \subseteq Procs
    BY DEF Waiting
  <2> QED BY <2>1, <2>2, FS_Subset, FS_CardinalityType, Numbers DEF TypeInv, StoreTypes, CountHolds
\* Someone enters on a call.
<1>1. CASE (Send \/ Receive) /\ calls' = calls + 1
  <2>1. PICK p \in Procs, d \in Chans : Takes(p, d)
    BY <1>1, Taken DEF Procs
  <2>2. Waiting' = Waiting \cup {p}
    BY <2>1 DEF Takes, Waiting, Appending
  <2>3. Cardinality(Waiting') =< Cardinality(Waiting) + 1 /\ Cardinality(Waiting') \in Nat
    <3> DEFINE W == Waiting
    <3> HIDE DEF W
    <3>1. IsFiniteSet(W) /\ Cardinality(W) \in Nat
      BY <1>0 DEF W
    <3>2. Cardinality(W \cup {p}) = IF p \in W THEN Cardinality(W) ELSE Cardinality(W) + 1
      BY <3>1, FS_AddElement
    <3> QED BY <2>2, <3>1, <3>2 DEF W
  <2>4. UNCHANGED counter
    BY <1>1, Enters
  <2> QED BY <1>0, <1>1, <2>3, <2>4 DEF CountHolds
\* Someone is done with it.
<1>2. ASSUME NEW p \in Procs, KnownId(p) \/ StoreInMemory(p) \/ PgInsert(p), UNCHANGED calls PROVE CountHolds'
  <2>1. p \in Waiting
    BY <1>2 DEF KnownId, StoreInMemory, PgInsert, Waiting, Appending
  <2>2. Waiting' = Waiting \ {p}
    <3>1. sending'[p].step # "append" /\ \A q \in Procs : q # p => sending'[q] = sending[q]
      <4>1. CASE PgInsert(p)
        <5>1. sending'[p].step = "commit" /\ \A q \in Procs : q # p => sending'[q] = sending[q]
          BY <4>1, Inserts
        <5> QED BY <5>1
      <4>2. CASE sending' = [sending EXCEPT ![p] = Idle]
        BY <4>2 DEF TypeInv, SendTypes, Idle
      <4> QED BY <1>2, <4>1, <4>2 DEF KnownId, StoreInMemory
    <3> QED BY <3>1 DEF Waiting, Appending
  <2>3. Cardinality(Waiting') = Cardinality(Waiting) - 1
    BY <1>0, <2>1, <2>2, FS_RemoveElement
  <2>4. ASSUME NEW c \in Chans PROVE counter'[c] =< counter[c] + 1 /\ counter'[c] \in Nat
    <3>1. sending[p].ch \in Chans
      BY <1>2, Stands DEF KnownId, StoreInMemory, PgInsert, Appending
    <3>2. counter' = counter \/ counter' = Bump(sending[p].ch)
      BY <1>2 DEF KnownId, StoreInMemory, PgInsert
    <3> QED BY <1>0, <3>1, <3>2, Bumped
  <2> QED BY <1>0, <1>2, <2>3, <2>4 DEF CountHolds
<1>3. ASSUME NEW p \in Procs, PgCommit(p), UNCHANGED calls PROVE CountHolds'
  <2>1. sending' = [sending EXCEPT ![p] = Idle] /\ sending[p].step = "commit" /\ UNCHANGED counter
    BY <1>3 DEF PgCommit
  <2>2. Waiting' = Waiting
    BY <2>1 DEF Waiting, Appending, TypeInv, SendTypes, Idle
  <2> QED BY <1>0, <1>3, <2>1, <2>2 DEF CountHolds
<1>4. CASE UNCHANGED <<counter, sending>> /\ calls' \in {calls, calls + 1}
  <2>1. Waiting' = Waiting
    BY <1>4 DEF Waiting, Appending
  <2> QED BY <1>0, <1>4, <2>1 DEF CountHolds
<1>5. (Sweep \/ \E c \in Chans : DeleteChannel(c)) => UNCHANGED <<counter, sending>>
  BY Removal
<1>6. Store => \E p \in Procs : KnownId(p) \/ StoreInMemory(p) \/ PgInsert(p) \/ PgCommit(p)
  BY DEF Store
<1>7. CASE UNCHANGED vars
  BY <1>4, <1>7 DEF vars, store
<1>8. CASE (Store \/ ListRetention \/ Sweep \/ NextDay \/ BaselineReads \/ AnswerPage \/ AnswerNotFound) /\ UNCHANGED calls
  <2>1. (ListRetention \/ NextDay \/ BaselineReads \/ AnswerPage \/ AnswerNotFound) => UNCHANGED <<counter, sending>>
    BY DEF ListRetention, NextDay, BaselineReads, AnswerPage, AnswerHistory, AnswerInbox, AnswerNotFound, store
  <2> QED BY <1>2, <1>3, <1>4, <1>5, <1>6, <1>8, <2>1
<1>9. CASE (Send \/ Receive \/ Patch \/ Mark \/ List) /\ calls' = calls + 1
  <2>1. (Patch \/ Mark \/ List) => UNCHANGED <<counter, sending>>
    BY DEF Patch, PatchRetention, DeleteChannel, Mark, MarkChannelRead, List, StartListing, store
  <2> QED BY <1>1, <1>4, <1>9, <2>1
<1> QED BY <1>7, <1>8, <1>9 DEF Next

\* and the cursors within the numbers given.
LEMMA StepReads == TypeInv /\ RowInv /\ ReadWithinGiven /\ [Next]_vars => ReadWithinGiven'
<1> SUFFICES ASSUME TypeInv, RowInv, ReadWithinGiven, [Next]_vars, NEW c \in Chans, read'[c] # None
             PROVE  read'[c] =< counter'[c]
  BY DEF ReadWithinGiven
<1>1. counter[c] \in Nat /\ counter'[c] \in Nat /\ counter[c] =< counter'[c] /\ read'[c] \in Int
  BY InvStays, CountsUp DEF TypeInv, StoreTypes
<1>2. Rises(c)
  BY Cursors DEF RowInv
<1>3. read'[c] =< counter[c]
  BY <1>1, <1>2 DEF Rises, ReadWithinGiven
<1> QED BY <1>1, <1>3

\* No envelope is counted as read before it has its number: a cursor lies at or below
\* the last number given, whatever number a device reports.
THEOREM NothingReadAhead == Spec => []ReadWithinGiven
<1>1. Init => TypeInv /\ RowInv /\ ReadWithinGiven
  BY InitTyped, InitRows, InitCounts
<1>2. TypeInv /\ RowInv /\ ReadWithinGiven /\ [Next]_vars => (TypeInv /\ RowInv /\ ReadWithinGiven)'
  BY InvStays, StepReads
<1> QED BY <1>1, <1>2, PTL DEF Spec

\* A read cursor never moves back, nor goes.
THEOREM CursorsStayUp == Spec => CursorsNeverBack
<1> DEFINE Up == \A c \in Chans : read[c] # None => read'[c] # None /\ read'[c] >= read[c]
           Inv == TypeInv /\ RowInv /\ CountHolds
<1>1. Init => Inv
  BY InitTyped, InitRows, InitCounts
<1>2. Inv /\ [Next]_vars => Inv'
  BY InvStays, StepCounts
<1>3. Inv /\ [Next]_vars => Up
  <2> SUFFICES ASSUME TypeInv, RowInv, CountHolds, [Next]_vars, NEW c \in Chans, read[c] # None
               PROVE  read'[c] # None /\ read'[c] >= read[c]
    OBVIOUS
  <2>1. counter[c] \in Nat /\ read[c] \in Int /\ calls \in 0 .. MaxCalls /\ MaxCalls \in Nat /\ None = MaxCalls + 1
    BY Numbers DEF TypeInv, StoreTypes
  <2>2. counter[c] =< calls
    <3>1. Cardinality(Waiting) \in Nat
      <4>1. IsFiniteSet(Procs) /\ Waiting \subseteq Procs
        BY Numbers, FS_AddElement DEF Procs, Waiting
      <4> QED BY <4>1, FS_Subset, FS_CardinalityType
    <3>2. counter[c] + Cardinality(Waiting) =< calls
      BY DEF CountHolds
    <3> QED BY <2>1, <3>1, <3>2
  <2>3. Rises(c)
    BY Cursors DEF RowInv
  <2> QED BY <2>1, <2>2, <2>3 DEF Rises
<1>4. Inv /\ [Next]_vars => [Up]_vars
  BY <1>3
<1> HIDE DEF Up, Inv
<1>5. Spec => [][Up]_vars
  BY <1>1, <1>2, <1>4, PTL DEF Spec
<1> QED BY <1>5 DEF CursorsNeverBack, Up

\* Every variable has its type, and every number its bound.
THEOREM TypeCorrect == Spec => []TypeOK
<1> DEFINE Inv == TypeInv /\ RowInv /\ CountHolds /\ ReadWithinGiven
<1>1. Init => Inv
  BY InitTyped, InitRows, InitCounts
<1>2. Inv /\ [Next]_vars => Inv'
  BY InvStays, StepCounts, StepReads
<1>3. Inv => TypeOK
  <2> SUFFICES ASSUME Inv PROVE TypeOK
    OBVIOUS
  <2>1. ASSUME NEW c \in Chans
        PROVE  /\ IdsOf(c) \subseteq ids[c] /\ ids[c] \subseteq Ids /\ \A r \in Stored(c) : r.seq \in 1 .. counter[c]
               /\ counter[c] \in 0 .. MaxCalls /\ read[c] \in Int /\ read[c] <= None /\ retention[c] \in {Keep, Gone, 0, 1}
    <3>1. counter[c] \in Nat /\ read[c] \in Int /\ calls \in 0 .. MaxCalls /\ MaxCalls \in Nat /\ None = MaxCalls + 1
      BY Numbers DEF TypeInv, StoreTypes
    <3>2. counter[c] + Cardinality(Waiting) =< calls /\ Cardinality(Waiting) \in Nat
      <4>1. IsFiniteSet(Procs) /\ Waiting \subseteq Procs
        BY Numbers, FS_AddElement DEF Procs, Waiting
      <4> QED BY <4>1, FS_Subset, FS_CardinalityType DEF CountHolds
    <3>3. counter[c] \in 0 .. MaxCalls
      BY <3>1, <3>2
    <3>4. read[c] \in Int /\ read[c] <= None
      BY <3>1, <3>3 DEF ReadWithinGiven
    <3> QED BY <3>3, <3>4, StoredRows DEF RowInv, NumbersHold, IdsHold, TypeInv, RetentionTypes
  <2> QED BY <2>1, Stands DEF TypeOK, TypeInv, StoreTypes, ReaderTypes, Steps
<1> HIDE DEF Inv
<1> QED BY <1>1, <1>2, <1>3, PTL DEF Spec

-----------------------------------------------------------------------------
(* The byte cap.                                                           *)

\* What the senders have stored, and who of them is under way.
Own(c)   == {r \in Stored(c) : r.by # Hub}
Under(c) == {p \in Senders : sending[p].step # "idle" /\ sending[p].ch = c}

CapHolds == \A c \in Chans : Cardinality(Own(c)) + Cardinality(Under(c)) =< Cap + Cardinality(Senders)

\* A channel has finitely many rows.
LEMMA StoredFinite ==
  ASSUME TypeInv, NEW c \in Chans
  PROVE  IsFiniteSet(Stored(c)) /\ Cardinality(Stored(c)) =< Len(rows[c]) /\ Len(rows[c]) \in Nat
<1> DEFINE n == Len(rows[c])
           f == [i \in 1 .. n |-> rows[c][i]]
<1>1. rows[c] \in Seq(Row) /\ n \in Nat /\ DOMAIN rows[c] = 1 .. n
  BY StoredRows
<1>2. Stored(c) = {rows[c][i] : i \in 1 .. n}
  BY <1>1 DEF Stored
<1> HIDE DEF n
<1>3. f \in Surjection(1 .. n, Stored(c))
  BY <1>2 DEF Surjection
<1>4. IsFiniteSet(1 .. n) /\ Cardinality(1 .. n) = n
  BY <1>1, FS_Interval
<1> HIDE DEF f
<1>5. IsFiniteSet(Stored(c)) /\ Cardinality(Stored(c)) =< n
  BY <1>3, <1>4, FS_Surjection
<1> QED BY <1>1, <1>5 DEF n

\* So the rows of its senders can be counted, and those under way.
LEMMA Finite ==
  ASSUME TypeInv, NEW c \in Chans
  PROVE  /\ IsFiniteSet(Own(c)) /\ Cardinality(Own(c)) \in Nat /\ Cardinality(Own(c)) =< Len(rows[c])
         /\ IsFiniteSet(Under(c)) /\ Cardinality(Under(c)) \in Nat /\ Cardinality(Under(c)) =< Cardinality(Senders)
         /\ Cardinality(Senders) \in Nat
<1>1. Own(c) \subseteq Stored(c) /\ Under(c) \subseteq Senders
  BY DEF Own, Under
<1>2. IsFiniteSet(Own(c)) /\ Cardinality(Own(c)) =< Cardinality(Stored(c))
  BY <1>1, StoredFinite, FS_Subset
<1>3. IsFiniteSet(Under(c)) /\ Cardinality(Under(c)) =< Cardinality(Senders)
  BY <1>1, Numbers, FS_Subset
<1>4. Cardinality(Own(c)) \in Nat /\ Cardinality(Under(c)) \in Nat /\ Cardinality(Senders) \in Nat /\ Cardinality(Stored(c)) \in Nat
  BY <1>2, <1>3, StoredFinite, Numbers, FS_CardinalityType
<1> QED BY <1>2, <1>3, <1>4, StoredFinite

\* Fewer rows and fewer senders under way count less.
LEMMA CountsLess ==
  ASSUME NEW S, NEW T, NEW U, NEW V, IsFiniteSet(S), IsFiniteSet(U), T \subseteq S, V \subseteq U
  PROVE  Cardinality(T) + Cardinality(V) \in Nat /\ Cardinality(T) + Cardinality(V) =< Cardinality(S) + Cardinality(U)
<1>1. /\ IsFiniteSet(T) /\ Cardinality(T) =< Cardinality(S)
      /\ IsFiniteSet(V) /\ Cardinality(V) =< Cardinality(U)
  BY FS_Subset
<1>2. Cardinality(S) \in Nat /\ Cardinality(T) \in Nat /\ Cardinality(U) \in Nat /\ Cardinality(V) \in Nat
  BY <1>1, FS_CardinalityType
<1> QED BY <1>1, <1>2

\* One row more, of a sender who is no longer under way.
LEMMA CountsEven ==
  ASSUME NEW S, NEW r, NEW U, NEW p \in U, IsFiniteSet(S), IsFiniteSet(U)
  PROVE  /\ Cardinality(S \cup {r}) + Cardinality(U \ {p}) \in Nat
         /\ Cardinality(S \cup {r}) + Cardinality(U \ {p}) =< Cardinality(S) + Cardinality(U)
<1>1. Cardinality(S) \in Nat /\ Cardinality(U) \in Nat
  BY FS_CardinalityType
<1>2. Cardinality(S \cup {r}) = IF r \in S THEN Cardinality(S) ELSE Cardinality(S) + 1
  BY FS_AddElement
<1>3. Cardinality(U \ {p}) = Cardinality(U) - 1 /\ Cardinality(U \ {p}) \in Nat
  BY FS_RemoveElement, FS_CardinalityType
<1> QED BY <1>1, <1>2, <1>3

\* Every step keeps the cap.
LEMMA StepCap == TypeInv /\ RowInv /\ CapHolds /\ [Next]_vars => CapHolds'
<1> SUFFICES ASSUME TypeInv, RowInv, CapHolds, [Next]_vars, NEW c \in Chans
             PROVE  Cardinality(Own(c)') + Cardinality(Under(c)') =< Cap + Cardinality(Senders)
  BY DEF CapHolds
<1>0. /\ IsFiniteSet(Own(c)) /\ IsFiniteSet(Under(c)) /\ Cardinality(Senders) \in Nat /\ Cap \in Nat
      /\ Cardinality(Own(c)) \in Nat /\ Cardinality(Under(c)) \in Nat
      /\ Cardinality(Under(c)') \in Nat /\ Cardinality(Under(c)') =< Cardinality(Senders)
      /\ Cardinality(Own(c)) + Cardinality(Under(c)) =< Cap + Cardinality(Senders)
  <2>1. Under(c)' \subseteq Senders
    BY DEF Under
  <2>2. Cardinality(Under(c)') \in Nat /\ Cardinality(Under(c)') =< Cardinality(Senders)
    BY <2>1, Numbers, FS_Subset, FS_CardinalityType
  <2> QED BY <2>2, Finite, Numbers DEF CapHolds
<1>1. CASE Own(c)' \subseteq Own(c) /\ Under(c)' \subseteq Under(c)
  <2>1. /\ Cardinality(Own(c)') + Cardinality(Under(c)') \in Nat
        /\ Cardinality(Own(c)') + Cardinality(Under(c)') =< Cardinality(Own(c)) + Cardinality(Under(c))
    BY <1>0, <1>1, CountsLess
  <2> QED BY <1>0, <2>1
<1>2. CASE UNCHANGED <<rows, sending>>
  BY <1>1, <1>2 DEF Own, Stored, Under
<1>3. CASE Sweep \/ \E d \in Chans : DeleteChannel(d)
  <2>1. Stored(c)' \subseteq Stored(c) /\ UNCHANGED sending
    BY <1>3, Losses, Removal
  <2> QED BY <1>1, <2>1 DEF Own, Under
<1>4. CASE Receive
  <2>1. UNCHANGED rows /\ \E d \in Chans : Takes(Hub, d)
    BY <1>4, Enters, Taken
  <2>2. \A p \in Senders : sending'[p] = sending[p]
    BY <2>1, Numbers DEF Takes, Procs
  <2> QED BY <1>1, <2>1, <2>2 DEF Own, Stored, Under
\* A sender is let past a channel that is not over its cap.
<1>5. CASE Send
  <2>1. PICK p \in Senders, d \in Chans : Takes(p, d) /\ ~OverByteCap(d)
    BY <1>5, Taken
  <2>2. UNCHANGED rows
    BY <1>5, Enters
  <2>3. Own(c)' = Own(c)
    BY <2>2 DEF Own, Stored
  <2>4. CASE d = c
    <3>1. Cardinality(Own(c)) =< Len(rows[c]) /\ Len(rows[c]) \in Nat
      BY Finite, StoredFinite
    <3>2. Len(rows[c]) =< Cap
      BY <1>0, <2>1, <2>4, <3>1 DEF OverByteCap
    <3>3. Cardinality(Own(c)') =< Cap /\ Cardinality(Own(c)') \in Nat
      BY <1>0, <2>3, <3>1, <3>2
    <3> QED BY <1>0, <3>3
  <2>5. CASE d # c
    <3>1. Under(c)' \subseteq Under(c)
      BY <2>1, <2>5 DEF Takes, Under, Procs
    <3> QED BY <1>1, <2>3, <3>1
  <2> QED BY <2>4, <2>5
<1>6. ASSUME NEW p \in Procs, KnownId(p) PROVE Cardinality(Own(c)') + Cardinality(Under(c)') =< Cap + Cardinality(Senders)
  <2>1. UNCHANGED rows /\ sending' = [sending EXCEPT ![p] = Idle]
    BY <1>6 DEF KnownId
  <2>2. Under(c)' \subseteq Under(c)
    BY <2>1 DEF Under, Idle, TypeInv, SendTypes, Procs
  <2> QED BY <1>1, <2>1, <2>2 DEF Own, Stored
<1>7. ASSUME NEW p \in Procs, PgInsert(p), NEW d, d = sending[p].ch
      PROVE  Cardinality(Own(c)') + Cardinality(Under(c)') =< Cap + Cardinality(Senders)
  <2>1. /\ UNCHANGED rows /\ sending'[p].ch = d /\ sending[p].step = "append"
        /\ \A q \in Procs : q # p => sending'[q] = sending[q]
    BY <1>7, Inserts DEF PgInsert
  <2>2. Under(c)' \subseteq Under(c)
    BY <1>7, <2>1 DEF Under, Procs
  <2> QED BY <1>1, <2>1, <2>2 DEF Own, Stored
<1>8. ASSUME NEW p \in Procs, StoreInMemory(p) \/ PgCommit(p), NEW d, d = sending[p].ch
      PROVE  Cardinality(Own(c)') + Cardinality(Under(c)') =< Cap + Cardinality(Senders)
  <2>1. d \in Chans /\ sending' = [sending EXCEPT ![p] = Idle] /\ (d # c => rows'[c] = rows[c])
    BY <1>8, Gains
  <2>2. PICK r \in Row : Joins(d, p, r)
    BY <1>8, Gains
  <2>3. sending'[p] = Idle /\ \A q \in Procs : q # p => sending'[q] = sending[q]
    BY <2>1 DEF TypeInv, SendTypes
  <2>4. \A q \in Senders : q \in Procs
    BY DEF Procs
  <2>5. sending[p].step # "idle"
    BY <1>8 DEF StoreInMemory, PgCommit
  <2>6. CASE d # c
    <3>1. Own(c)' = Own(c)
      BY <2>1, <2>6 DEF Own, Stored
    <3>2. Under(c)' \subseteq Under(c)
      BY <2>3, <2>4 DEF Under, Idle
    <3> QED BY <1>1, <3>1, <3>2
  <2>7. CASE d = c
    <3>1. Stored(c)' = Stored(c) \cup {r} /\ r.by = p
      BY <2>2, <2>7 DEF Joins
    <3>2. CASE p = Hub
      <4>1. Own(c)' = Own(c)
        BY <3>1, <3>2 DEF Own
      <4>2. Under(c)' \subseteq Under(c)
        BY <2>3, <2>4 DEF Under, Idle
      <4> QED BY <1>1, <4>1, <4>2
    <3>3. CASE p # Hub
      <4>1. p \in Senders
        BY <3>3 DEF Procs
      <4>2. p \in Under(c)
        BY <1>8, <2>5, <2>7, <4>1 DEF Under
      <4>3. Under(c)' = Under(c) \ {p}
        BY <2>3, <2>4 DEF Under, Idle
      <4>4. Own(c)' = Own(c) \cup {r}
        BY <3>1, <3>3 DEF Own
      <4>5. /\ Cardinality(Own(c)') + Cardinality(Under(c)') \in Nat
            /\ Cardinality(Own(c)') + Cardinality(Under(c)') =< Cardinality(Own(c)) + Cardinality(Under(c))
        BY <1>0, <4>2, <4>3, <4>4, CountsEven
      <4> QED BY <1>0, <4>5
    <3> QED BY <3>2, <3>3
  <2> QED BY <2>6, <2>7
<1> QED BY <1>2, <1>3, <1>4, <1>5, <1>6, <1>7, <1>8, Untouched DEF Writes, Store

\* Senders who race past the byte cap exceed it by one envelope each at most, however
\* many they are, whatever the hub delivers and however retention runs.
THEOREM CapHeld == Spec => []CapOvershoot
<1> DEFINE Inv == TypeInv /\ RowInv /\ CapHolds
<1>1. Init => Inv
  <2> SUFFICES ASSUME Init, NEW c \in Chans PROVE Cardinality(Own(c)) + Cardinality(Under(c)) =< Cap + Cardinality(Senders)
    BY InitTyped, InitRows DEF CapHolds
  <2>1. Own(c) = {} /\ Under(c) = {}
    BY DEF Init, Own, Stored, Under, Idle, Procs
  <2> QED BY <2>1, FS_EmptySet, FS_CardinalityType, Numbers
<1>2. Inv /\ [Next]_vars => Inv'
  BY InvStays, StepCap
<1>3. Inv => CapOvershoot
  <2> SUFFICES ASSUME Inv, NEW c \in Chans PROVE Cardinality({r \in Stored(c) : r.by # Hub}) =< Cap + Cardinality(Senders)
    BY DEF CapOvershoot
  <2>1. Cardinality(Own(c)) + Cardinality(Under(c)) =< Cap + Cardinality(Senders)
    BY DEF CapHolds
  <2>2. Cardinality(Own(c)) =< Cap + Cardinality(Senders)
    BY <2>1, Finite, Numbers
  <2> QED BY <2>2 DEF Own
<1> HIDE DEF Inv
<1> QED BY <1>1, <1>2, <1>3, PTL DEF Spec

-----------------------------------------------------------------------------
(* Walks through a channel's history.                                      *)

\* One sequence before another.
LEMMA Joined ==
  ASSUME NEW b \in Seq(Row), NEW a \in Seq(Row)
  PROVE  /\ b \o a \in Seq(Row) /\ Els(b \o a) = Els(b) \cup Els(a)
         /\ b # <<>> => b \o a # <<>> /\ (b \o a)[1] = b[1]
         /\ (Sorted(b) /\ Sorted(a) /\ \A q \in Els(b), r \in Els(a) : q.seq < r.seq) => Sorted(b \o a)
<1> DEFINE t == b \o a
           m == Len(b)
           n == Len(a)
<1>1. /\ m \in Nat /\ n \in Nat /\ DOMAIN b = 1 .. m /\ DOMAIN a = 1 .. n /\ t \in Seq(Row) /\ DOMAIN t = 1 .. m + n
      /\ \A i \in 1 .. m : t[i] = b[i]
      /\ \A i \in 1 .. n : t[m + i] = a[i]
      /\ b # <<>> => m > 0
  OBVIOUS
<1> HIDE DEF t, m, n
<1>2. ASSUME NEW i \in DOMAIN t, i \notin 1 .. m PROVE i - m \in 1 .. n /\ t[i] = a[i - m]
  <2>1. i - m \in 1 .. n /\ i = m + (i - m)
    BY <1>1, <1>2
  <2> QED BY <1>1, <2>1
<1>3. (\A i \in 1 .. m : i \in DOMAIN t) /\ \A i \in 1 .. n : m + i \in DOMAIN t
  BY <1>1
<1>4. Els(t) = Els(b) \cup Els(a)
  <2>1. Els(t) \subseteq Els(b) \cup Els(a)
    <3>1. ASSUME NEW i \in DOMAIN t PROVE t[i] \in Els(b) \cup Els(a)
      BY <1>1, <1>2 DEF Els
    <3> QED BY <3>1 DEF Els
  <2>2. Els(b) \subseteq Els(t) /\ Els(a) \subseteq Els(t)
    BY <1>1, <1>3 DEF Els
  <2> QED BY <2>1, <2>2
<1>5. ASSUME b # <<>> PROVE t # <<>> /\ t[1] = b[1]
  <2>1. 1 \in 1 .. m /\ 1 \in DOMAIN t
    BY <1>1, <1>5
  <2> QED BY <1>1, <2>1
<1>6. ASSUME Sorted(b), Sorted(a), \A q \in Els(b), r \in Els(a) : q.seq < r.seq,
             NEW i \in DOMAIN t, NEW j \in DOMAIN t, i < j
      PROVE  t[i].seq < t[j].seq
  <2>1. CASE i \in 1 .. m /\ j \in 1 .. m
    BY <1>1, <1>6, <2>1 DEF Sorted
  <2>2. CASE i \in 1 .. m /\ j \notin 1 .. m
    <3>1. t[i] \in Els(b) /\ t[j] \in Els(a)
      BY <1>1, <1>2, <2>2 DEF Els
    <3> QED BY <1>6, <3>1
  <2>3. CASE i \notin 1 .. m
    <3>1. j \notin 1 .. m /\ i - m < j - m
      BY <1>1, <1>6, <2>3
    <3>2. i - m \in 1 .. n /\ t[i] = a[i - m] /\ j - m \in 1 .. n /\ t[j] = a[j - m]
      BY <1>2, <2>3, <3>1
    <3> QED BY <1>1, <1>6, <3>1, <3>2 DEF Sorted
  <2> QED BY <2>1, <2>2, <2>3
<1>7. (Sorted(b) /\ Sorted(a) /\ \A q \in Els(b), r \in Els(a) : q.seq < r.seq) => Sorted(t)
  BY <1>6 DEF Sorted
<1> QED BY <1>1, <1>4, <1>5, <1>7 DEF t

\* The first of sorted rows is the smallest.
LEMMA FirstIsLeast ==
  ASSUME NEW s \in Seq(Row), Sorted(s), NEW q \in Els(s)
  PROVE  s[1].seq =< q.seq /\ s[1].seq \in Nat /\ q.seq \in Nat
<1>1. PICK i \in DOMAIN s : q = s[i]
  BY DEF Els
<1>2. 1 \in DOMAIN s /\ (i = 1 \/ 1 < i) /\ s[1] \in Row /\ s[i] \in Row
  BY <1>1
<1>3. s[1].seq \in Nat /\ s[i].seq \in Nat
  BY <1>2 DEF Row
<1> QED BY <1>1, <1>2, <1>3 DEF Sorted

\* In memory no row falls behind its place, and while none goes none moves.
LEMMA Places ==
  ASSUME TypeInv, RowInv, [Next]_vars, kind = "mem", NEW c \in Chans
  PROVE  /\ \A k \in DOMAIN rows[c] : rows[c][k] \in Stored(c)' =>
              \E j \in DOMAIN rows'[c] : j =< k /\ rows'[c][j] = rows[c][k]
         /\ Stored(c) \subseteq Stored(c)' =>
              \A k \in DOMAIN rows[c] : k \in DOMAIN rows'[c] /\ rows'[c][k] = rows[c][k]
<1> DEFINE Goal == /\ \A k \in DOMAIN rows[c] : rows[c][k] \in Stored(c)' =>
                        \E j \in DOMAIN rows'[c] : j =< k /\ rows'[c][j] = rows[c][k]
                   /\ Stored(c) \subseteq Stored(c)' =>
                        \A k \in DOMAIN rows[c] : k \in DOMAIN rows'[c] /\ rows'[c][k] = rows[c][k]
<1>0. rows[c] \in Seq(Row) /\ \A k \in DOMAIN rows[c] : k =< k
  <2>1. rows[c] \in Seq(Row)
    BY StoredRows
  <2> QED BY <2>1
<1>1. CASE \A k \in DOMAIN rows[c] : k \in DOMAIN rows'[c] /\ rows'[c][k] = rows[c][k]
  BY <1>0, <1>1
<1>2. CASE UNCHANGED rows
  BY <1>1, <1>2
<1>3. ASSUME NEW p \in Procs, StoreInMemory(p) \/ PgCommit(p), NEW d, d = sending[p].ch PROVE Goal
  <2>1. d # c => rows'[c] = rows[c]
    BY <1>3, Gains
  <2>2. PICK r \in Row : Joins(d, p, r)
    BY <1>3, Gains
  <2>3. CASE d = c
    <3>1. rows'[c] = Append(rows[c], r)
      BY <2>2, <2>3 DEF Joins
    <3>2. \A k \in DOMAIN rows[c] : k \in DOMAIN rows'[c] /\ rows'[c][k] = rows[c][k]
      BY <1>0, <3>1
    <3> QED BY <1>1, <3>2
  <2> QED BY <1>1, <2>1, <2>3
<1>4. CASE Sweep \/ \E d \in Chans : DeleteChannel(d)
  <2>1. /\ Stored(c)' \subseteq Stored(c)
        /\ \A k \in DOMAIN rows[c] : rows[c][k] \in Stored(c)' =>
             \E j \in DOMAIN rows'[c] : j =< k /\ rows'[c][j] = rows[c][k]
        /\ Stored(c)' = Stored(c) => rows'[c] = rows[c]
    BY <1>4, Losses
  <2>2. Stored(c) \subseteq Stored(c)' => rows'[c] = rows[c]
    BY <2>1
  <2> QED BY <2>1, <2>2
<1>5. (Send \/ Receive) => UNCHANGED rows
  BY Enters
<1>6. ASSUME NEW p \in Procs, KnownId(p) \/ PgInsert(p) PROVE UNCHANGED rows
  BY <1>6 DEF KnownId, PgInsert
<1> QED BY <1>2, <1>3, <1>4, <1>5, <1>6, Untouched DEF Writes, Store

\* Where a walk over the rows s stands at cursor C: what it still owes is listed or
\* below the cursor, and what is listed is in order above it.  In memory the cursor is
\* a place, and the order holds while no row has gone.
PgWalk(s, C, got, left) ==
  /\ Sorted(got) /\ (C = 0 => got = <<>>) /\ (C # 0 => got # <<>> /\ got[1].seq = C)
  /\ left \subseteq Els(got) \cup {r \in Els(s) : C = 0 \/ r.seq < C}

MemWalk(s, C, got, left, whole) ==
  /\ (C = 0 => got = <<>>) /\ (C # 0 => got # <<>>)
  /\ \A r \in left : r \in Els(got) \/ \E i \in DOMAIN s : r = s[i] /\ (C = 0 \/ i < C)
  /\ whole => Sorted(got) /\ (C # 0 => C \in DOMAIN s /\ got[1] = s[C])

Walks(k, s, C, got, left, whole) == IF k = "pg" THEN PgWalk(s, C, got, left) ELSE MemWalk(s, C, got, left, whole)

Ended(k, got, left, whole) == left \subseteq Els(got) /\ (k = "pg" \/ whole => Sorted(got))

\* A page of Postgres takes the walk on, or to its end.
LEMMA PgAnswers ==
  ASSUME TypeInv, NumbersHold, AnswerHistory, kind = "pg",
         NEW c, c = reader.ch, NEW left, PgWalk(rows[c], reader.cursor, reader.got, left)
  PROVE  /\ reader'.step = "page" => PgWalk(rows[c], reader'.cursor, reader'.got, left)
         /\ reader'.step = "done" => left \subseteq Els(reader'.got) /\ Sorted(reader'.got)
<1> DEFINE C == reader.cursor
           a == reader.got
           page == PgPage(c, C)
           items == page.items
           next == page.next
           more == page.more
           s == rows[c]
<1>1. c \in Chans /\ C \in Nat /\ a \in Seq(Row) /\ Els(s) = Stored(c)
  BY Answered, StoredEls DEF TypeInv, ReaderTypes
<1>2. reader'.got = items \o a /\ reader'.cursor = next /\ reader'.step = IF more THEN "page" ELSE "done"
  BY Answered, PageIs
<1>3. /\ items \in Seq(Row) /\ Sorted(items) /\ Els(items) \subseteq Below(c, C) /\ next \in Nat /\ more \in BOOLEAN
      /\ more => items # <<>> /\ items[1].seq = next /\ next # 0
      /\ \A r \in Below(c, C) : r \in Els(items) \/ (more /\ r.seq < next)
  BY <1>1, PgPageIs
<1>4. /\ Sorted(a) /\ (C = 0 => a = <<>>) /\ (C # 0 => a # <<>> /\ a[1].seq = C)
      /\ left \subseteq Els(a) \cup Below(c, C)
  BY <1>1 DEF PgWalk, Below
<1> DEFINE t == items \o a
<1>5. ASSUME NEW q \in Els(items), NEW r \in Els(a) PROVE q.seq < r.seq
  <2>1. a # <<>> /\ C # 0
    BY <1>4, <1>5 DEF Els
  <2>2. C =< r.seq /\ r.seq \in Nat
    <3> HIDE DEF a, C
    <3> QED BY <1>1, <1>4, <1>5, <2>1, FirstIsLeast
  <2>3. q.seq < C /\ q.seq \in Nat
    BY <1>1, <1>3, <1>5, <2>1, StoredRows DEF Below
  <2> QED BY <1>1, <2>2, <2>3
<1>6. Below(c, C) \subseteq Stored(c)
  BY DEF Below
<1> HIDE DEF items, next, more, a, C, s
<1>7. Els(t) = Els(items) \cup Els(a) /\ Sorted(t) /\ (items # <<>> => t # <<>> /\ t[1] = items[1])
  BY <1>1, <1>3, <1>4, <1>5, Joined
<1> HIDE DEF t
<1>8. \A r \in left : r \in Els(t) \/ (more /\ r \in Els(s) /\ r.seq < next)
  BY <1>1, <1>3, <1>4, <1>6, <1>7
<1>9. ASSUME more PROVE PgWalk(s, next, t, left)
  <2>1. Sorted(t) /\ next # 0 /\ t # <<>> /\ t[1].seq = next
    BY <1>3, <1>7, <1>9
  <2>2. left \subseteq Els(t) \cup {r \in Els(s) : next = 0 \/ r.seq < next}
    BY <1>8
  <2> QED BY <2>1, <2>2 DEF PgWalk
<1>10. ~more => left \subseteq Els(t)
  BY <1>8
<1> QED BY <1>2, <1>3, <1>7, <1>9, <1>10 DEF t, s

\* A page of the memory store does.
LEMMA MemAnswers ==
  ASSUME TypeInv, NumbersHold, AnswerHistory, kind = "mem",
         NEW c, c = reader.ch, NEW left, NEW whole \in BOOLEAN, MemWalk(rows[c], reader.cursor, reader.got, left, whole)
  PROVE  /\ reader'.step = "page" => MemWalk(rows[c], reader'.cursor, reader'.got, left, whole)
         /\ reader'.step = "done" => left \subseteq Els(reader'.got) /\ (whole => Sorted(reader'.got))
<1> DEFINE C == reader.cursor
           a == reader.got
           page == MemPage(c, C)
           items == page.items
           next == page.next
           more == page.more
           s == rows[c]
<1>1. c \in Chans /\ C \in Nat /\ a \in Seq(Row) /\ s \in Seq(Row) /\ Sorted(s)
  BY Answered, StoredRows DEF TypeInv, ReaderTypes, NumbersHold
<1>2. reader'.got = items \o a /\ reader'.cursor = next /\ reader'.step = IF more THEN "page" ELSE "done"
  BY Answered, PageIs
<1>3. PICK m \in 1 .. Len(s) + 1, n \in 0 .. Len(s) :
        /\ (C = 0 => n = Len(s)) /\ (C # 0 => n = C - 1)
        /\ m - 1 =< n /\ items = SubSeq(s, m, n) /\ next = m /\ more \in BOOLEAN
        /\ (more => m =< n) /\ (~more => m = 1)
  <2>1. C =< Len(s)
    BY Answered
  <2> DEFINE S == rows[c]
  <2>2. c \in Chans /\ C \in Nat
    BY <1>1
  <2> HIDE DEF C
  <2>3. \E m \in 1 .. Len(rows[c]) + 1, n \in 0 .. Len(rows[c]) :
        /\ (C = 0 => n = Len(rows[c])) /\ (C # 0 => n = C - 1)
        /\ m - 1 =< n
        /\ MemPage(c, C).items = SubSeq(rows[c], m, n) /\ MemPage(c, C).next = m
        /\ MemPage(c, C).more \in BOOLEAN
        /\ MemPage(c, C).more => m =< n
        /\ ~MemPage(c, C).more => m = 1
    BY <2>1, <2>2, MemPageIs, Zenon
  <2> QED BY <2>3
<1>4. /\ (C = 0 => a = <<>>) /\ (C # 0 => a # <<>>)
      /\ \A r \in left : r \in Els(a) \/ \E i \in DOMAIN s : r = s[i] /\ (C = 0 \/ i < C)
      /\ whole => Sorted(a) /\ (C # 0 => C \in DOMAIN s /\ a[1] = s[C])
  BY DEF MemWalk
<1> DEFINE t == items \o a
<1> HIDE DEF items, next, more, a, C, s
<1>5. Len(s) \in Nat /\ DOMAIN s = 1 .. Len(s) /\ n \in m - 1 .. Len(s) /\ m \in Nat
  BY <1>1, <1>3
<1>6. /\ items \in Seq(Row) /\ DOMAIN items = 1 .. n - m + 1
      /\ \A i \in 1 .. n - m + 1 : items[i] = s[m + i - 1] /\ m + i - 1 \in m .. n
      /\ \A k \in m .. n : k - m + 1 \in 1 .. n - m + 1 /\ items[k - m + 1] = s[k]
  <2>1. items = SubSeq(s, m, n) /\ m \in 1 .. Len(s) + 1
    BY <1>3
  <2> QED BY <1>1, <1>5, <2>1, Part
<1>7. /\ Els(t) = Els(items) \cup Els(a) /\ (items # <<>> => t # <<>> /\ t[1] = items[1])
      /\ (Sorted(items) /\ Sorted(a) /\ \A q \in Els(items), r \in Els(a) : q.seq < r.seq) => Sorted(t)
  BY <1>1, <1>6, Joined
<1>8. Sorted(items)
  <2> SUFFICES ASSUME NEW i \in DOMAIN items, NEW j \in DOMAIN items, i < j PROVE items[i].seq < items[j].seq
    BY DEF Sorted
  <2>1. m + i - 1 \in DOMAIN s /\ m + j - 1 \in DOMAIN s /\ m + i - 1 < m + j - 1
    <3>1. m + i - 1 \in m .. n /\ m + j - 1 \in m .. n /\ i \in Nat /\ j \in Nat
      BY <1>5, <1>6
    <3>2. m + i - 1 < m + j - 1
      BY <1>5, <3>1
    <3>3. m .. n \subseteq 1 .. Len(s)
      BY <1>5
    <3> QED BY <1>5, <3>1, <3>2, <3>3
  <2>2. s[m + i - 1].seq < s[m + j - 1].seq
    BY <1>1, <2>1 DEF Sorted
  <2>3. items[i] = s[m + i - 1] /\ items[j] = s[m + j - 1]
    BY <1>6
  <2> QED BY <2>2, <2>3
<1>9. ASSUME whole, NEW q \in Els(items), NEW r \in Els(a) PROVE q.seq < r.seq
  <2>1. a # <<>> /\ C # 0
    BY <1>4, <1>9 DEF Els
  <2>2. C \in DOMAIN s /\ a[1] = s[C] /\ s[C].seq =< r.seq /\ r.seq \in Nat /\ s[C].seq \in Nat
    BY <1>1, <1>4, <1>9, <2>1, FirstIsLeast
  <2>3. PICK i \in DOMAIN items : q = items[i]
    BY <1>9 DEF Els
  <2>4. m + i - 1 \in DOMAIN s /\ m + i - 1 < C /\ q = s[m + i - 1]
    <3>1. i \in 1 .. n - m + 1 /\ q = s[m + i - 1] /\ m + i - 1 \in m .. n /\ n = C - 1
      BY <1>3, <1>6, <2>1, <2>3
    <3> QED BY <1>1, <1>5, <3>1
  <2>5. q.seq < s[C].seq /\ q \in Row
    BY <1>1, <2>2, <2>4 DEF Sorted
  <2>6. q.seq \in Nat
    BY <2>5 DEF Row
  <2> QED BY <2>2, <2>5, <2>6
<1>10. whole => Sorted(t)
  BY <1>4, <1>7, <1>8, <1>9
<1>11. ASSUME NEW r \in left PROVE r \in Els(t) \/ \E i \in DOMAIN s : r = s[i] /\ i < m
  <2>1. CASE r \in Els(a)
    BY <1>7, <2>1
  <2>2. CASE \E i \in DOMAIN s : r = s[i] /\ (C = 0 \/ i < C)
    <3>1. PICK i \in DOMAIN s : r = s[i] /\ (C = 0 \/ i < C)
      BY <2>2
    <3>2. i =< n /\ i \in Nat
      <4>1. i \in 1 .. Len(s) /\ Len(s) \in Nat /\ C \in Nat
        BY <1>1, <1>5, <3>1
      <4>2. (C = 0 => n = Len(s)) /\ (C # 0 => n = C - 1)
        BY <1>3
      <4> QED BY <3>1, <4>1, <4>2
    <3>3. CASE i >= m
      <4>1. i \in m .. n
        BY <1>5, <3>2, <3>3
      <4>2. items[i - m + 1] = s[i] /\ i - m + 1 \in DOMAIN items
        BY <1>6, <4>1
      <4>3. s[i] \in Els(items)
        BY <4>2 DEF Els
      <4> QED BY <1>7, <3>1, <4>3
    <3>4. CASE ~(i >= m)
      BY <1>5, <3>1, <3>2, <3>4
    <3> QED BY <3>3, <3>4
  <2> QED BY <1>4, <1>11, <2>1, <2>2
<1>12. ASSUME more PROVE MemWalk(s, m, t, left, whole)
  <2>1. m \in m .. n /\ m - m + 1 = 1 /\ m \in DOMAIN s /\ m # 0
    <3>1. m \in Nat /\ 1 =< m /\ m =< n /\ n =< Len(s) /\ n \in Nat /\ Len(s) \in Nat
      <4>1. m =< n
        BY <1>3, <1>12
      <4>2. m \in 1 .. Len(s) + 1 /\ n \in 0 .. Len(s)
        BY <1>3
      <4> QED BY <1>5, <4>1, <4>2
    <3>2. m \in m .. n /\ m - m + 1 = 1 /\ m # 0
      BY <3>1
    <3>3. m \in DOMAIN s
      BY <1>5, <3>1
    <3> QED BY <3>2, <3>3
  <2>2. items[1] = s[m] /\ 1 \in DOMAIN items
    BY <1>6, <2>1
  <2>3. items # <<>>
    BY <2>2
  <2> HIDE DEF t
  <2> QED BY <1>7, <1>10, <1>11, <2>1, <2>2, <2>3 DEF MemWalk
<1>13. ASSUME ~more PROVE left \subseteq Els(t)
  <2>1. m = 1
    BY <1>3, <1>13
  <2>2. \A i \in DOMAIN s : ~(i < m)
    BY <1>5, <2>1
  <2> QED BY <1>11, <2>2
<1> QED BY <1>2, <1>3, <1>10, <1>12, <1>13 DEF t, s

\* What a step adds to the history of a listing.
Swept == UNION {Stored(c) \ Stored(c)' : c \in Chans}

Rose  == {c \in Chans : Activity(rows', c) > Activity(rows, c)}
Fell  == {c \in Chans : Activity(rows', c) < Activity(rows, c)}

MovedTypes == DOMAIN moved = {"rose", "fell", "lost", "had"}

\* What Observe writes down.
LEMMA Noted ==
  ASSUME MovedTypes, Observe
  PROVE  /\ MovedTypes'
         /\ Begins => moved'.lost = {} /\ (reader'.what = "history" => moved'.had = Stored(reader'.ch))
         /\ Begins => moved'.rose = {} /\ moved'.fell = {}
         /\ (~Begins /\ reader'.step \in {"done", "failed"}) => moved' = moved
         /\ (~Begins /\ reader'.step \notin {"done", "failed"}) =>
              /\ moved'.had = moved.had /\ moved'.lost = moved.lost \cup Swept
              /\ moved'.rose = moved.rose \cup Rose /\ moved'.fell = moved.fell \cup Fell
<1>1. CASE Begins
  <2> DEFINE h == IF reader'.what = "history" THEN Stored(reader'.ch) ELSE {}
  <2>1. moved' = [rose |-> {}, fell |-> {}, lost |-> {}, had |-> h]
    BY <1>1 DEF Observe
  <2>2. reader'.what = "history" => h = Stored(reader'.ch)
    OBVIOUS
  <2> HIDE DEF h
  <2> QED BY <1>1, <2>1, <2>2 DEF MovedTypes
<1>2. CASE ~Begins /\ reader'.step \in {"done", "failed"}
  BY <1>2 DEF Observe, MovedTypes
<1>3. CASE ~Begins /\ reader'.step \notin {"done", "failed"}
  <2> DEFINE a == moved.rose \cup Rose
             b == moved.fell \cup Fell
             l == moved.lost \cup Swept
  <2>1. moved' = [moved EXCEPT !.rose = a, !.fell = b, !.lost = l]
    BY <1>3 DEF Observe, Swept, Rose, Fell
  <2> HIDE DEF a, b, l
  <2>2. /\ moved'.had = moved.had /\ moved'.lost = l /\ DOMAIN moved' = DOMAIN moved
        /\ moved'.rose = a /\ moved'.fell = b
    BY <2>1 DEF MovedTypes
  <2> QED BY <1>3, <2>2 DEF MovedTypes, a, b, l
<1> QED BY <1>1, <1>2, <1>3

\* A history listing owes what was there when it began and has not gone since.
WalkHolds ==
  /\ MovedTypes
  /\ reader.what = "history" =>
       /\ reader.step # "baseline"
       /\ reader.step = "page" =>
            Walks(kind, rows[reader.ch], reader.cursor, reader.got, moved.had \ moved.lost, moved.lost = {})
       /\ reader.step = "done" => Ended(kind, reader.got, moved.had \ moved.lost, moved.lost = {})

\* While the client waits, the walk stands where it stood.
LEMMA WalkWaits ==
  ASSUME TypeInv, RowInv, [Next]_vars, NEW c \in Chans, NEW C \in Nat, NEW got, NEW had, NEW lost,
         Walks(kind, rows[c], C, got, had \ lost, lost = {})
  PROVE  Walks(kind, rows'[c], C, got, had \ (lost \cup Swept), lost \cup Swept = {})
<1> DEFINE s == rows[c]
           z == rows'[c]
           whole == lost = {}
           still == lost \cup Swept = {}
           left == had \ lost
           rest == had \ (lost \cup Swept)
<1>1. s \in Seq(Row) /\ kind \in {"mem", "pg"}
  BY StoredRows DEF TypeInv, StoreTypes
<1>2. \A r \in Els(s) : r \in Els(z) \/ r \in Swept
  BY DEF Swept, Stored, Els
<1>3. rest \subseteq left /\ (still => whole) /\ \A r \in rest : r \notin Swept
  OBVIOUS
<1>4. CASE kind = "pg"
  <2>1. PgWalk(s, C, got, left)
    BY <1>4 DEF Walks
  <2> HIDE DEF s, z, left, rest
  <2>2. PgWalk(z, C, got, rest)
    BY <1>2, <1>3, <2>1 DEF PgWalk
  <2> QED BY <1>4, <2>2 DEF Walks, z, rest
<1>5. CASE kind = "mem"
  <2>1. MemWalk(s, C, got, left, whole)
    BY <1>5 DEF Walks
  <2>2. /\ \A k \in DOMAIN s : s[k] \in Els(z) => \E j \in DOMAIN z : j =< k /\ z[j] = s[k]
        /\ Els(s) \subseteq Els(z) => \A k \in DOMAIN s : k \in DOMAIN z /\ z[k] = s[k]
    BY <1>5, Places DEF Stored, Els
  <2>3. ASSUME NEW r \in rest PROVE r \in Els(got) \/ \E i \in DOMAIN z : r = z[i] /\ (C = 0 \/ i < C)
    <3>1. CASE r \notin Els(got)
      <4>1. PICK k \in DOMAIN s : r = s[k] /\ (C = 0 \/ k < C)
        BY <1>3, <2>1, <2>3, <3>1 DEF MemWalk
      <4>2. r \in Els(z)
        BY <1>2, <1>3, <2>3, <4>1 DEF Els
      <4>3. PICK j \in DOMAIN z : j =< k /\ z[j] = r
        BY <2>2, <4>1, <4>2
      <4>4. k \in Nat /\ j \in Nat
        <5>1. z \in Seq(Row)
          BY InvStays DEF TypeInv, StoreTypes
        <5> QED BY <1>1, <4>1, <4>3, <5>1
      <4> QED BY <4>1, <4>3, <4>4
    <3> QED BY <3>1
  <2>4. ASSUME still PROVE Sorted(got) /\ (C # 0 => C \in DOMAIN z /\ got[1] = z[C])
    <3>1. whole /\ Els(s) \subseteq Els(z)
      BY <1>2, <2>4
    <3>2. Sorted(got) /\ (C # 0 => C \in DOMAIN s /\ got[1] = s[C])
      BY <2>1, <3>1 DEF MemWalk
    <3> QED BY <2>2, <3>1, <3>2
  <2>5. (C = 0 => got = <<>>) /\ (C # 0 => got # <<>>)
    BY <2>1 DEF MemWalk
  <2> HIDE DEF s, z, rest, still
  <2>6. MemWalk(z, C, got, rest, still)
    BY <2>3, <2>4, <2>5 DEF MemWalk
  <2> QED BY <1>5, <2>6 DEF Walks, z, rest, still
<1> QED BY <1>1, <1>4, <1>5

\* A listing begins with all that is there to come.
LEMMA WalkBegins ==
  ASSUME NEW k \in {"mem", "pg"}, NEW s \in Seq(Row)
  PROVE  Walks(k, s, 0, <<>>, Els(s), TRUE)
<1>1. Els(<<>>) = {} /\ Sorted(<<>>)
  BY DEF Els, Sorted
<1>2. PgWalk(s, 0, <<>>, Els(s))
  BY <1>1 DEF PgWalk
<1>3. MemWalk(s, 0, <<>>, Els(s), TRUE)
  BY <1>1 DEF MemWalk, Els
<1> QED BY <1>2, <1>3 DEF Walks

\* Every step keeps the walk.
LEMMA StepWalks == TypeInv /\ RowInv /\ WalkHolds /\ [Next]_vars => WalkHolds'
<1> SUFFICES ASSUME TypeInv, RowInv, WalkHolds, [Next]_vars PROVE WalkHolds'
  OBVIOUS
<1>0. /\ kind' = kind /\ kind \in {"mem", "pg"} /\ MovedTypes /\ reader.step \in Steps
      /\ UNCHANGED vars \/ (Next /\ Observe)
  BY Untouched DEF WalkHolds, TypeInv, StoreTypes, ReaderTypes, Next
<1>1. CASE UNCHANGED vars
  BY <1>1 DEF vars, store, WalkHolds, MovedTypes, Walks, PgWalk, MemWalk, Ended, Els, Sorted
<1>2. CASE List /\ Observe
  <2>1. ASSUME NEW what \in {"inbox", "history"}, NEW c, what = "history" => c \in Chans, StartListing(what, c) PROVE WalkHolds'
    <3>1. /\ reader'.what = what /\ reader'.ch = c /\ reader'.got = <<>> /\ UNCHANGED rows
          /\ reader'.step = IF what = "inbox" THEN "baseline" ELSE "page"
          /\ what = "history" => reader'.cursor = 0
      BY <2>1 DEF StartListing, store
    <3>2. Begins
      BY <2>1, <3>1 DEF StartListing, Begins
    <3>3. MovedTypes' /\ moved'.lost = {} /\ (what = "history" => moved'.had = Stored(c))
      BY <1>0, <1>2, <3>1, <3>2, Noted
    <3>4. CASE what = "history"
      <4>1. rows'[c] = rows[c] /\ rows[c] \in Seq(Row) /\ Stored(c) = Els(rows[c]) /\ c \in Chans
        BY <2>1, <3>1, <3>4, StoredRows, StoredEls
      <4>2. Walks(kind, rows[c], 0, <<>>, Els(rows[c]), TRUE)
        BY <1>0, <4>1, WalkBegins
      <4>3. moved'.had \ moved'.lost = Els(rows[c]) /\ (moved'.lost = {}) = TRUE
        BY <3>3, <3>4, <4>1
      <4>4. Walks(kind', rows'[reader'.ch], reader'.cursor, reader'.got, moved'.had \ moved'.lost, moved'.lost = {})
        BY <1>0, <3>1, <3>4, <4>1, <4>2, <4>3
      <4> QED BY <3>1, <3>3, <3>4, <4>4 DEF WalkHolds
    <3> QED BY <2>1, <3>1, <3>3, <3>4 DEF WalkHolds
  <2> QED BY <1>2, <2>1 DEF List
<1>3. CASE UNCHANGED reader /\ Observe
  <2>1. ~Begins
    BY <1>3 DEF Begins
  <2>2. CASE reader.step \in {"done", "failed"}
    <3>1. moved' = moved /\ MovedTypes'
      BY <1>0, <1>3, <2>1, <2>2, Noted
    <3> QED BY <1>0, <1>3, <2>2, <3>1 DEF WalkHolds, Ended
  <2>3. CASE reader.step \notin {"done", "failed"}
    <3>1. moved'.had = moved.had /\ moved'.lost = moved.lost \cup Swept /\ MovedTypes'
      BY <1>0, <1>3, <2>1, <2>3, Noted
    <3>2. ASSUME reader.what = "history", reader.step = "page"
          PROVE  Walks(kind', rows'[reader'.ch], reader'.cursor, reader'.got, moved'.had \ moved'.lost, moved'.lost = {})
      <4>1. reader.ch \in Chans /\ reader.cursor \in Nat
        BY <3>2 DEF TypeInv, ReaderTypes
      <4>2. Walks(kind, rows[reader.ch], reader.cursor, reader.got, moved.had \ moved.lost, moved.lost = {})
        BY <3>2 DEF WalkHolds
      <4>3. Walks(kind, rows'[reader.ch], reader.cursor, reader.got, moved.had \ (moved.lost \cup Swept), moved.lost \cup Swept = {})
        BY <4>1, <4>2, WalkWaits
      <4> QED BY <1>0, <1>3, <3>1, <4>3
    <3> QED BY <1>0, <1>3, <2>3, <3>1, <3>2 DEF WalkHolds
  <2> QED BY <2>2, <2>3
<1>4. CASE BaselineReads /\ Observe
  <2>1. reader.what # "history" /\ reader'.what = reader.what /\ reader'.step = "page" /\ reader.step = "baseline"
    BY <1>4 DEF BaselineReads, WalkHolds, TypeInv, ReaderTypes
  <2>2. MovedTypes'
    BY <1>0, <1>4, Noted
  <2> QED BY <2>1, <2>2 DEF WalkHolds
<1>5. CASE AnswerHistory /\ Observe
  <2>1. /\ reader'.what = reader.what /\ reader'.ch = reader.ch /\ UNCHANGED rows
        /\ reader.step \in {"page", "baseline"} /\ ~Begins
        /\ reader.what = "history" => reader'.step \in {"page", "done"}
    BY <1>5, Answered DEF AnswerHistory, RowInv, store, Begins
  <2>2. MovedTypes'
    BY <1>0, <1>5, Noted
  <2>3. ASSUME reader.what = "history" PROVE moved'.had = moved.had /\ moved'.lost = moved.lost
    <3>1. Swept = {}
      BY <2>1 DEF Swept, Stored
    <3> QED BY <1>0, <1>5, <2>1, <3>1, Noted
  <2>4. ASSUME reader.what = "history", NEW c, c = reader.ch, NEW left, left = moved.had \ moved.lost,
               NEW whole \in BOOLEAN, whole <=> moved.lost = {}
        PROVE  /\ reader'.step = "page" => Walks(kind, rows[c], reader'.cursor, reader'.got, left, whole)
               /\ reader'.step = "done" => Ended(kind, reader'.got, left, whole)
    <3>1. reader.step = "page"
      BY <2>1, <2>4 DEF WalkHolds
    <3>2. Walks(kind, rows[c], reader.cursor, reader.got, left, whole)
      BY <2>4, <3>1 DEF WalkHolds
    <3>3. CASE kind = "pg"
      <4>1. PgWalk(rows[c], reader.cursor, reader.got, left)
        BY <3>2, <3>3 DEF Walks
      <4>2. /\ reader'.step = "page" => PgWalk(rows[c], reader'.cursor, reader'.got, left)
            /\ reader'.step = "done" => left \subseteq Els(reader'.got) /\ Sorted(reader'.got)
        BY <1>5, <2>4, <3>3, <4>1, PgAnswers DEF RowInv
      <4> QED BY <3>3, <4>2 DEF Walks, Ended
    <3>4. CASE kind = "mem"
      <4>1. MemWalk(rows[c], reader.cursor, reader.got, left, whole)
        BY <3>2, <3>4 DEF Walks
      <4>2. /\ reader'.step = "page" => MemWalk(rows[c], reader'.cursor, reader'.got, left, whole)
            /\ reader'.step = "done" => left \subseteq Els(reader'.got) /\ (whole => Sorted(reader'.got))
        BY <1>5, <2>4, <3>4, <4>1, MemAnswers DEF RowInv
      <4> QED BY <3>4, <4>2 DEF Walks, Ended
    <3> QED BY <1>0, <3>3, <3>4
  <2>5. ASSUME reader.what = "history"
        PROVE  /\ reader'.step = "page" => Walks(kind', rows'[reader'.ch], reader'.cursor, reader'.got, moved'.had \ moved'.lost, moved'.lost = {})
               /\ reader'.step = "done" => Ended(kind', reader'.got, moved'.had \ moved'.lost, moved'.lost = {})
    <3> DEFINE whole == moved.lost = {}
    <3>1. /\ reader'.step = "page" => Walks(kind, rows[reader.ch], reader'.cursor, reader'.got, moved.had \ moved.lost, whole)
          /\ reader'.step = "done" => Ended(kind, reader'.got, moved.had \ moved.lost, whole)
      BY <2>4, <2>5
    <3> QED BY <1>0, <2>1, <2>3, <2>5, <3>1
  <2> QED BY <2>1, <2>2, <2>5 DEF WalkHolds
<1>7. ASSUME NEW scan, AnswerInbox(scan), Observe PROVE WalkHolds'
  <2>1. reader'.what # "history"
    BY <1>7, InboxAnswered
  <2>2. MovedTypes'
    BY <1>0, <1>7, Noted
  <2> QED BY <2>1, <2>2 DEF WalkHolds
<1>6. CASE AnswerNotFound /\ Observe
  <2>1. reader'.step = "failed" /\ MovedTypes'
    BY <1>0, <1>6, Noted DEF AnswerNotFound, TypeInv, ReaderTypes
  <2> QED BY <2>1 DEF WalkHolds
<1> QED BY <1>0, <1>1, <1>2, <1>3, <1>4, <1>5, <1>6, <1>7, Untouched DEF AnswerPage

\* A client that lists a channel page by page to its beginning has every envelope that
\* was there throughout, and none twice unless, in memory, retention cut the channel.
THEOREM HistoryMissesNothing == Spec => []HistoryWalk
<1> DEFINE Inv == TypeInv /\ RowInv /\ WalkHolds
<1>1. Init => Inv
  <2>1. Init => WalkHolds
    BY DEF Init, WalkHolds, MovedTypes, Resting
  <2> QED BY <2>1, InitTyped, InitRows
<1>2. Inv /\ [Next]_vars => Inv'
  BY InvStays, StepWalks
<1>3. Inv => HistoryWalk
  <2> SUFFICES ASSUME WalkHolds, reader.what = "history", reader.step = "done"
               PROVE  /\ moved.had \ moved.lost \subseteq ToSet(reader.got)
                      /\ kind = "pg" \/ moved.lost = {} => Sorted(reader.got)
    BY DEF HistoryWalk, Sorted
  <2>1. ToSet(reader.got) = Els(reader.got)
    BY DEF ToSet, Els
  <2> QED BY <2>1 DEF WalkHolds, Ended
<1> HIDE DEF Inv
<1> QED BY <1>1, <1>2, <1>3, PTL DEF Spec

-----------------------------------------------------------------------------
(* Walks through the inbox.                                                *)

Place == [ch : Nat, at : Nat]

\* Before is a strict total order.
LEMMA Ordered ==
  ASSUME NEW a \in Place, NEW b \in Place, NEW c \in Place
  PROVE  /\ ~Before(a, a)
         /\ Before(a, b) => ~Before(b, a)
         /\ Before(a, b) /\ Before(b, c) => Before(a, c)
         /\ a = b \/ Before(a, b) \/ Before(b, a)
<1>1. /\ a.at \in Nat /\ b.at \in Nat /\ c.at \in Nat /\ a.ch \in Nat /\ b.ch \in Nat /\ c.ch \in Nat
      /\ (a.at = b.at /\ a.ch = b.ch) => a = b
  BY DEF Place
<1> QED BY <1>1 DEF Before

\* In a finite set each rank below its size is that of one place, in order.
LEMMA Ranks ==
  ASSUME NEW S \in SUBSET Place, IsFiniteSet(S)
  PROVE  /\ Cardinality(S) \in Nat /\ \A v \in S : Rank(S, v) \in 0 .. Cardinality(S) - 1
         /\ \A v, w \in S : Before(v, w) => Rank(S, v) < Rank(S, w)
         /\ \A i \in 0 .. Cardinality(S) - 1 : \E v \in S : Rank(S, v) = i
<1> DEFINE n == Cardinality(S)
           Ahead(v) == {w \in S : Before(w, v)}
<1>1. n \in Nat
  BY FS_CardinalityType
<1>2. ASSUME NEW v \in S PROVE IsFiniteSet(Ahead(v)) /\ Rank(S, v) = Cardinality(Ahead(v)) /\ Rank(S, v) \in 0 .. n - 1
  <2>1. Ahead(v) \subseteq S /\ v \notin Ahead(v)
    BY <1>2, Ordered
  <2> DEFINE T == Ahead(v)
  <2> HIDE DEF T
  <2>2. IsFiniteSet(T) /\ Cardinality(T) =< n /\ Cardinality(T) # n /\ Cardinality(T) \in Nat
    BY <1>2, <2>1, FS_Subset, FS_CardinalityType DEF T
  <2>3. Cardinality(T) \in 0 .. n - 1
    BY <1>1, <2>2
  <2> QED BY <2>2, <2>3 DEF T, Rank
<1>0. ASSUME NEW v \in S PROVE Rank(S, v) \in Nat
  <2>1. Rank(S, v) \in 0 .. n - 1
    BY <1>2, <1>0
  <2> HIDE DEF n
  <2> QED BY <1>1, <2>1
<1>3. ASSUME NEW v \in S, NEW w \in S, Before(v, w) PROVE Rank(S, v) < Rank(S, w)
  <2>1. Ahead(v) \subseteq Ahead(w) /\ v \in Ahead(w) /\ v \notin Ahead(v)
    BY <1>3, Ordered
  <2>2. /\ IsFiniteSet(Ahead(w)) /\ Rank(S, v) = Cardinality(Ahead(v)) /\ Rank(S, w) = Cardinality(Ahead(w))
        /\ Rank(S, v) \in Nat /\ Rank(S, w) \in Nat
    BY <1>2, <1>0
  <2> HIDE DEF Ahead
  <2>3. Cardinality(Ahead(v)) =< Cardinality(Ahead(w)) /\ Cardinality(Ahead(v)) # Cardinality(Ahead(w))
    BY <2>1, <2>2, FS_Subset
  <2> QED BY <2>2, <2>3
<1>4. \A i \in 0 .. n - 1 : \E v \in S : Rank(S, v) = i
  <2> DEFINE f == [v \in S |-> Rank(S, v)]
             R == 0 .. n - 1
  <2>1. f \in [S -> R]
    BY <1>2
  <2>2. ASSUME NEW v \in S, NEW w \in S, f[v] = f[w] PROVE v = w
    <3>1. Rank(S, v) = Rank(S, w) /\ Rank(S, v) \in Nat
      BY <1>0, <2>2
    <3>2. ~Before(v, w) /\ ~Before(w, v)
      BY <1>3, <3>1
    <3> QED BY <3>2, Ordered
  <2>3. f \in Injection(S, R)
    <3> HIDE DEF f, R
    <3> QED BY <2>1, <2>2 DEF Injection, IsInjective
  <2>4. IsFiniteSet(R) /\ Cardinality(R) = Cardinality(S)
    BY <1>1, FS_Interval
  <2>5. f \in Surjection(S, R)
    <3> HIDE DEF f, R
    <3> QED BY <2>3, <2>4, FS_Injection
  <2>6. \A i \in R : \E v \in S : f[v] = i
    <3> HIDE DEF f, R
    <3> QED BY <2>5 DEF Surjection
  <2> QED BY <2>6
<1> QED BY <1>1, <1>2, <1>3, <1>4

\* The first places of a set, and what is behind them.
Firsts(S) == [i \in 1 .. Upto(Limit, Cardinality(S)) |-> CHOOSE v \in S : Rank(S, v) = i - 1]

LEMMA FirstsAre ==
  ASSUME NEW S \in SUBSET Place, IsFiniteSet(S), NEW m, m = Upto(Limit, Cardinality(S)), NEW s, s = Firsts(S)
  PROVE  /\ Cardinality(S) \in Nat /\ m \in Nat /\ s \in Seq(S) /\ DOMAIN s = 1 .. m /\ Len(s) = m
         /\ \A i, j \in 1 .. m : i < j => Before(s[i], s[j])
         /\ \A v \in S : (\E i \in 1 .. m : s[i] = v) \/ (m > 0 /\ Before(s[m], v) /\ Cardinality(S) > Limit)
         /\ Cardinality(S) > Limit => m > 0
<1> DEFINE n == Cardinality(S)
<1>1. n \in Nat /\ Limit \in Nat /\ Limit > 0
  BY Ranks, Numbers
<1>2. m \in Nat /\ m =< n /\ m =< Limit /\ (m = n \/ m = Limit)
  BY <1>1 DEF Upto
<1>3. ASSUME NEW i \in 1 .. m PROVE s[i] \in S /\ Rank(S, s[i]) = i - 1
  <2>1. i - 1 \in 0 .. n - 1
    <3> HIDE DEF n
    <3>1. i \in Nat /\ i >= 1 /\ i =< m
      BY <1>2, <1>3
    <3> QED BY <1>1, <1>2, <3>1
  <2>2. \E v \in S : Rank(S, v) = i - 1
    BY <2>1, Ranks
  <2>3. s[i] = CHOOSE v \in S : Rank(S, v) = i - 1
    BY DEF Firsts
  <2> QED BY <2>2, <2>3
<1>4. DOMAIN s = 1 .. m /\ s = [i \in 1 .. m |-> s[i]]
  BY DEF Firsts
<1>5. s \in Seq(S) /\ Len(s) = m
  BY <1>2, <1>3, <1>4
<1>6. ASSUME NEW v \in S, NEW w \in S, Rank(S, v) < Rank(S, w) PROVE Before(v, w)
  <2>1. /\ v = w \/ Before(v, w) \/ Before(w, v)
        /\ Before(w, v) => Rank(S, w) < Rank(S, v)
        /\ Rank(S, v) \in Nat /\ Rank(S, w) \in Nat
    BY <1>1, <1>6, Ordered, Ranks
  <2> QED BY <1>6, <2>1
<1>7. ASSUME NEW i \in 1 .. m, NEW j \in 1 .. m, i < j PROVE Before(s[i], s[j])
  <2>1. i - 1 < j - 1
    <3>1. i \in Nat /\ j \in Nat
      BY <1>2, <1>7
    <3> QED BY <1>7, <3>1
  <2> QED BY <1>3, <1>6, <2>1
<1>8. ASSUME NEW v \in S PROVE (\E i \in 1 .. m : s[i] = v) \/ (m > 0 /\ Before(s[m], v) /\ n > Limit)
  <2> DEFINE k == Rank(S, v)
  <2>1. k \in 0 .. n - 1 /\ k \in Nat
    BY <1>1, Ranks
  <2> HIDE DEF k
  <2>2. CASE k < m
    <3>1. k + 1 \in 1 .. m /\ (k + 1) - 1 = k
      BY <1>2, <2>1, <2>2
    <3>2. s[k + 1] \in S /\ Rank(S, s[k + 1]) = k
      BY <1>3, <3>1
    <3>3. ~(Rank(S, s[k + 1]) < Rank(S, v)) /\ ~(Rank(S, v) < Rank(S, s[k + 1]))
      BY <2>1, <3>2 DEF k
    <3>4. s[k + 1] = v
      BY <1>8, <3>2, <3>3, Ranks, Ordered
    <3> QED BY <3>1, <3>4
  <2>3. CASE ~(k < m)
    <3>1. m = Limit /\ n > Limit /\ m > 0 /\ m \in 1 .. m /\ m - 1 < k
      BY <1>1, <1>2, <2>1, <2>3
    <3>2. s[m] \in S /\ Rank(S, s[m]) < Rank(S, v)
      BY <1>3, <3>1 DEF k
    <3> QED BY <1>6, <1>8, <3>1, <3>2
  <2> QED BY <2>2, <2>3
<1>9. n > Limit => m > 0
  BY <1>1, <1>2
<1> QED BY <1>1, <1>2, <1>4, <1>5, <1>7, <1>8, <1>9

\* The channels that are there, with the key each is listed under.
Live      == {c \in Chans : Exists(c)}
Key(r, c) == [ch |-> c, at |-> Activity(r, c)]
View      == [ch : Chans, at : 0 .. MaxDay]

\* A key is a place in the listing, after the top.
LEMMA Keys ==
  ASSUME NEW r \in [Chans -> Seq(Row)], NEW c \in Chans
  PROVE  /\ Activity(r, c) \in Nat /\ Key(r, c) \in View /\ Key(r, c) \in Place /\ Key(r, c).ch = c
         /\ Top \in Place /\ Before(Top, Key(r, c))
<1>1. r[c] \in Seq(Row) /\ MaxDay \in Nat /\ c \in Nat
  BY Numbers
<1>2. Activity(r, c) \in 0 .. MaxDay
  <2>1. CASE r[c] = <<>>
    BY <1>1, <2>1 DEF Activity
  <2>2. CASE r[c] # <<>>
    <3>1. r[c][Len(r[c])] \in Row
      BY <1>1, <2>2
    <3> QED BY <2>2, <3>1 DEF Activity, Last, Row
  <2> QED BY <2>1, <2>2
<1> DEFINE a == Activity(r, c)
<1>3. Key(r, c) = [ch |-> c, at |-> a]
  BY DEF Key
<1> HIDE DEF a
<1>4. a \in Nat /\ a =< MaxDay /\ a \in 0 .. MaxDay
  BY <1>1, <1>2 DEF a
<1>5. Before(Top, Key(r, c))
  BY <1>1, <1>3, <1>4 DEF Before, Top
<1>6. Key(r, c) \in View /\ Key(r, c) \in Place /\ Key(r, c).ch = c /\ Top \in Place
  BY <1>1, <1>3, <1>4 DEF View, Place, Top
<1> QED BY <1>4, <1>5, <1>6 DEF a

\* A channel that falls stays below what it was below, one that rises above.
LEMMA KeyMoves ==
  ASSUME NEW r \in [Chans -> Seq(Row)], NEW z \in [Chans -> Seq(Row)], NEW c \in Chans, NEW C \in Place
  PROVE  /\ Activity(z, c) > Activity(r, c) \/ (Before(C, Key(r, c)) => Before(C, Key(z, c)))
         /\ Activity(z, c) < Activity(r, c) \/ (Before(C, Key(z, c)) => Before(C, Key(r, c)))
<1>1. Activity(r, c) \in Nat /\ Activity(z, c) \in Nat /\ C.at \in Nat
  BY Keys DEF Place
<1> QED BY <1>1 DEF Key, Before

\* What a page of the inbox is chosen from.
LEMMA SliceIs ==
  ASSUME TypeInv, NEW C, NEW scan \in SUBSET Views
  PROVE  /\ SliceInbox(scan, C) = {Key(rows, c) : c \in {d \in Live : Key(rows, d) \in scan /\ Before(C, Key(rows, d))}}
         /\ SliceInbox(scan, C) \in SUBSET Place /\ SliceInbox(scan, C) \subseteq View /\ IsFiniteSet(SliceInbox(scan, C))
<1> DEFINE D == {d \in Live : Key(rows, d) \in scan /\ Before(C, Key(rows, d))}
           f == [c \in D |-> Key(rows, c)]
           S == {Key(rows, c) : c \in D}
<1>1. SliceInbox(scan, C) = S
  BY DEF SliceInbox, Views, Live, Key
<1>2. \A c \in Chans : Key(rows, c) \in View /\ Key(rows, c) \in Place
  BY Keys DEF TypeInv, StoreTypes
<1>3. D \subseteq Chans
  BY DEF Live
<1>4. IsFiniteSet(D)
  <2> HIDE DEF D
  <2> QED BY <1>3, Numbers, FS_Subset
<1>5. S \subseteq View /\ S \subseteq Place
  <2> HIDE DEF D
  <2> QED BY <1>2, <1>3
<1>6. IsFiniteSet(S)
  <2> HIDE DEF D
  <2>1. f \in Surjection(D, S)
    BY DEF Surjection
  <2> HIDE DEF f, S
  <2> QED BY <1>4, <2>1, FS_Surjection
<1> QED BY <1>1, <1>5, <1>6

\* The page of an inbox listing.
LEMMA InboxPageIs ==
  ASSUME NEW C, NEW scan, NEW s, s = Firsts(SliceInbox(scan, C))
  PROVE  /\ InboxPage(scan, C).items = s /\ InboxPage(scan, C).more = (Cardinality(SliceInbox(scan, C)) > Limit)
         /\ s = <<>> => InboxPage(scan, C).next = C
         /\ s # <<>> => InboxPage(scan, C).next = s[Len(s)]
<1> DEFINE T == SliceInbox(scan, C)
<1>1. InboxPage(scan, C) = [items |-> Firsts(T), more |-> Cardinality(T) > Limit,
                      next |-> IF Firsts(T) = <<>> THEN C ELSE Last(Firsts(T))]
  BY DEF InboxPage, Firsts
<1> HIDE DEF T
<1>2. s = Firsts(T)
  BY DEF T
<1>3. InboxPage(scan, C) = [items |-> s, more |-> Cardinality(T) > Limit, next |-> IF s = <<>> THEN C ELSE s[Len(s)]]
  BY <1>1, <1>2 DEF Last
<1> QED BY <1>3 DEF T

\* A listing under way: what was listed is not below the cursor unless it fell, and
\* what is there is below it unless it was listed, rose or was left out.
Found(c, got) == \E i \in DOMAIN got : got[i].ch = c

InboxUnderWay(r, live, C, got, rose, fell) ==
  /\ C \in Place
  /\ \A i \in DOMAIN got : got[i].ch \in fell \/ ~Before(C, Key(r, got[i].ch))
  /\ \A c \in live : c \in rose \/ Found(c, got) \/ Before(C, Key(r, c))

OnlyFallersTwice(got, fell) ==
  /\ got \in Seq(View)
  /\ \A i, j \in DOMAIN got : (i < j /\ got[i].ch = got[j].ch) => got[i].ch \in fell

OnlyRisersMissed(live, got, rose) == \A c \in live : c \in rose \/ Found(c, got)

InboxHolds ==
  reader.what = "inbox" =>
    /\ OnlyFallersTwice(reader.got, moved.fell)
    /\ reader.step \in {"baseline", "page"} =>
         InboxUnderWay(rows, Live, reader.cursor, reader.got, moved.rose \cup reader.cut, moved.fell)
    /\ reader.step = "done" => OnlyRisersMissed(Live, reader.got, moved.rose \cup reader.cut)

\* While the client waits, what moves is noted.
LEMMA InboxWaits ==
  ASSUME NEW r \in [Chans -> Seq(Row)], NEW z \in [Chans -> Seq(Row)], NEW live \in SUBSET Chans, NEW still \in SUBSET live,
         NEW C, NEW got \in Seq(View), NEW rose, NEW fell, InboxUnderWay(r, live, C, got, rose, fell),
         NEW up, up = {c \in Chans : Activity(z, c) > Activity(r, c)},
         NEW down, down = {c \in Chans : Activity(z, c) < Activity(r, c)}
  PROVE  InboxUnderWay(z, still, C, got, rose \cup up, fell \cup down)
<1>1. C \in Place
  BY DEF InboxUnderWay
<1>2. ASSUME NEW i \in DOMAIN got PROVE got[i].ch \in fell \cup down \/ ~Before(C, Key(z, got[i].ch))
  <2> DEFINE c == got[i].ch
  <2>1. c \in Chans
    <3>1. got[i] \in View
      BY <1>2
    <3> QED BY <3>1 DEF View
  <2>2. c \in fell \/ ~Before(C, Key(r, c))
    BY <1>2 DEF InboxUnderWay
  <2> HIDE DEF c
  <2>3. c \in down \/ (Before(C, Key(z, c)) => Before(C, Key(r, c)))
    BY <1>1, <2>1, KeyMoves
  <2>4. c \in fell \cup down \/ ~Before(C, Key(z, c))
    BY <2>2, <2>3
  <2> QED BY <2>4 DEF c
<1>3. ASSUME NEW c \in still PROVE c \in rose \cup up \/ Found(c, got) \/ Before(C, Key(z, c))
  <2>1. c \in rose \/ Found(c, got) \/ Before(C, Key(r, c))
    BY <1>3 DEF InboxUnderWay
  <2>2. c \in up \/ (Before(C, Key(r, c)) => Before(C, Key(z, c)))
    BY <1>1, <1>3, KeyMoves
  <2> QED BY <2>1, <2>2
<1> QED BY <1>1, <1>2, <1>3 DEF InboxUnderWay

\* One listing after another.
LEMMA After ==
  ASSUME NEW S, NEW a \in Seq(S), NEW b \in Seq(S)
  PROVE  /\ a \o b \in Seq(S) /\ Len(a \o b) = Len(a) + Len(b)
         /\ \A i \in 1 .. Len(a) : (a \o b)[i] = a[i]
         /\ \A i \in 1 .. Len(b) : (a \o b)[Len(a) + i] = b[i]
OBVIOUS

\* What is listed once a page is added.
Adds(all, got, items) == all = got \o items

\* An answer takes the listing on, or to its end.
LEMMA InboxAnswers ==
  ASSUME TypeInv, NEW C, NEW scan, scan \subseteq Views, NEW got, NEW past, NEW fell, NEW all, NEW rose,
         Adds(all, got, InboxPage(scan, C).items), past \subseteq rose, \A v \in Views : v \in scan \/ v.ch \in rose,
         OnlyFallersTwice(got, fell), InboxUnderWay(rows, Live, C, got, past, fell)
  PROVE  /\ OnlyFallersTwice(all, fell)
         /\ InboxPage(scan, C).more => InboxUnderWay(rows, Live, InboxPage(scan, C).next, all, rose, fell)
         /\ ~InboxPage(scan, C).more => OnlyRisersMissed(Live, all, rose)
<1> DEFINE T == SliceInbox(scan, C)
           s == Firsts(T)
           m == Upto(Limit, Cardinality(T))
           k == Len(got)
           next == InboxPage(scan, C).next
           more == InboxPage(scan, C).more
<1>1. /\ T \in SUBSET Place /\ T \subseteq View /\ IsFiniteSet(T)
      /\ \A v \in T : v.ch \in Chans /\ v = Key(rows, v.ch) /\ Before(C, v)
      /\ \A c \in Live \ rose : Before(C, Key(rows, c)) => Key(rows, c) \in T
  <2>1. /\ T = {Key(rows, c) : c \in {d \in Live : Key(rows, d) \in scan /\ Before(C, Key(rows, d))}}
        /\ T \in SUBSET Place /\ T \subseteq View /\ IsFiniteSet(T)
    BY SliceIs
  <2>2. Live \subseteq Chans /\ \A c \in Live : Key(rows, c).ch = c
    BY DEF Live, Key
  <2>3. \A c \in Live \ rose : Key(rows, c) \in scan
    <3>1. \A c \in Live : Key(rows, c) \in Views
      BY DEF Live, Views, Key
    <3> QED BY <2>2, <3>1
  <2> HIDE DEF T
  <2> QED BY <2>1, <2>2, <2>3
<1>2. /\ InboxPage(scan, C).items = s /\ more = (Cardinality(T) > Limit)
      /\ (s = <<>> => next = C) /\ (s # <<>> => next = s[Len(s)])
  BY InboxPageIs
<1> HIDE DEF T, next, more
<1>3. /\ m \in Nat /\ s \in Seq(T) /\ DOMAIN s = 1 .. m /\ Len(s) = m
      /\ \A i, j \in 1 .. m : i < j => Before(s[i], s[j])
      /\ \A v \in T : (\E i \in 1 .. m : s[i] = v) \/ (m > 0 /\ Before(s[m], v) /\ Cardinality(T) > Limit)
      /\ Cardinality(T) > Limit => m > 0
  BY <1>1, FirstsAre
<1>4. C \in Place /\ got \in Seq(View) /\ k \in Nat /\ DOMAIN got = 1 .. k
  BY DEF InboxUnderWay, OnlyFallersTwice
<1> HIDE DEF s, m, k
<1>5. /\ all \in Seq(View) /\ DOMAIN all = 1 .. k + m
      /\ \A i \in 1 .. k : all[i] = got[i]
      /\ \A i \in 1 .. m : all[k + i] = s[i]
      /\ \A i \in DOMAIN all : all[i] \in View
  <2>1. s \in Seq(View) /\ Len(got) = k /\ Len(s) = m
    BY <1>1, <1>3 DEF k
  <2>2. all = got \o s
    BY <1>2 DEF Adds
  <2>3. all \in Seq(View) /\ Len(all) = k + m
    <3>1. got \o s \in Seq(View) /\ Len(got \o s) = Len(got) + Len(s)
      BY <1>4, <2>1, After
    <3> QED BY <2>1, <2>2, <3>1
  <2>4. DOMAIN all = 1 .. k + m /\ \A i \in DOMAIN all : all[i] \in View
    BY <2>3
  <2>5. /\ \A i \in 1 .. k : all[i] = got[i]
        /\ \A i \in 1 .. m : all[k + i] = s[i]
    BY <1>4, <2>1, <2>2, After
  <2> QED BY <2>3, <2>4, <2>5
<1>6. ASSUME NEW i \in DOMAIN all, i \notin 1 .. k PROVE i - k \in 1 .. m /\ all[i] = s[i - k]
  <2>1. i \in Nat /\ i > k /\ i =< k + m
    BY <1>3, <1>4, <1>5, <1>6
  <2>2. i - k \in 1 .. m /\ i = k + (i - k)
    BY <1>3, <1>4, <2>1
  <2> QED BY <1>5, <2>2
<1>7. \A i \in 1 .. m : s[i] \in T /\ s[i] \in Place
  BY <1>1, <1>3
<1>8. ASSUME NEW i \in DOMAIN all, NEW j \in DOMAIN all, i < j, all[i].ch = all[j].ch PROVE all[i].ch \in fell
  <2>1. CASE j \in 1 .. k
    <3>1. i \in 1 .. k
      BY <1>4, <1>5, <1>8, <2>1
    <3> QED BY <1>4, <1>5, <1>8, <2>1, <3>1 DEF OnlyFallersTwice
  <2>2. CASE i \in 1 .. k /\ j \notin 1 .. k
    <3>1. all[i] = got[i] /\ all[j] \in T
      BY <1>5, <1>6, <1>7, <2>2
    <3>2. Before(C, Key(rows, all[i].ch))
      BY <1>1, <1>8, <3>1
    <3> QED BY <1>4, <2>2, <3>1, <3>2 DEF InboxUnderWay
  <2>3. CASE i \notin 1 .. k /\ j \notin 1 .. k
    <3>1. /\ i - k \in 1 .. m /\ all[i] = s[i - k] /\ j - k \in 1 .. m /\ all[j] = s[j - k]
      BY <1>6, <2>3
    <3>2. i - k < j - k
      BY <1>4, <1>5, <1>8
    <3>3. Before(all[i], all[j]) /\ all[i] \in T /\ all[j] \in T /\ all[i] \in Place
      BY <1>3, <1>7, <3>1, <3>2
    <3>4. all[i] = all[j]
      BY <1>1, <1>8, <3>3
    <3> QED BY <3>3, <3>4, Ordered
  <2> QED BY <1>4, <1>5, <1>8, <2>1, <2>2, <2>3
<1>9. OnlyFallersTwice(all, fell)
  BY <1>5, <1>8 DEF OnlyFallersTwice
<1>10. ASSUME NEW c \in Live \ rose, Before(C, Key(rows, c))
       PROVE  Found(c, all) \/ (m > 0 /\ Before(s[m], Key(rows, c)) /\ Cardinality(T) > Limit)
  <2>1. CASE \E i \in 1 .. m : s[i] = Key(rows, c)
    <3>1. PICK i \in 1 .. m : s[i] = Key(rows, c)
      BY <2>1
    <3>2. k + i \in DOMAIN all /\ all[k + i] = s[i]
      BY <1>3, <1>4, <1>5
    <3>3. Key(rows, c).ch = c
      BY DEF Key
    <3> QED BY <3>1, <3>2, <3>3 DEF Found
  <2> QED BY <1>1, <1>3, <1>10, <2>1
<1>11. ASSUME NEW c, Found(c, got) PROVE Found(c, all)
  <2>1. PICK i \in 1 .. k : got[i].ch = c
    BY <1>4, <1>11 DEF Found
  <2>2. i \in DOMAIN all
    BY <1>3, <1>4, <1>5
  <2> QED BY <1>5, <2>1, <2>2 DEF Found
<1>12. ASSUME ~more PROVE OnlyRisersMissed(Live, all, rose)
  BY <1>2, <1>10, <1>11, <1>12 DEF InboxUnderWay, OnlyRisersMissed
<1>13. ASSUME more PROVE InboxUnderWay(rows, Live, next, all, rose, fell)
  <2>1. m > 0 /\ m \in 1 .. m /\ s # <<>>
    <3>1. m > 0
      BY <1>2, <1>3, <1>13
    <3> QED BY <1>3, <3>1
  <2>2. next = s[m] /\ next \in T /\ next \in Place
    BY <1>2, <1>3, <1>7, <2>1
  <2>3. ASSUME NEW i \in DOMAIN all PROVE all[i].ch \in fell \/ ~Before(next, Key(rows, all[i].ch))
    <3>1. CASE i \in 1 .. k
      <4> DEFINE q == Key(rows, all[i].ch)
      <4>1. all[i].ch \in fell \/ ~Before(C, q)
        BY <1>4, <1>5, <3>1 DEF InboxUnderWay
      <4>2. q \in Place
        <5>1. all[i] \in View
          BY <1>5, <2>3
        <5>2. all[i].ch \in Chans
          BY <5>1 DEF View
        <5> QED BY <5>2, Keys DEF TypeInv, StoreTypes
      <4>3. Before(C, next)
        BY <1>1, <2>2
      <4> HIDE DEF q
      <4>4. Before(next, q) => Before(C, q)
        BY <1>4, <2>2, <4>2, <4>3, Ordered
      <4> QED BY <4>1, <4>4 DEF q
    <3>2. CASE i \notin 1 .. k
      <4>1. i - k \in 1 .. m /\ all[i] = s[i - k]
        BY <1>6, <2>3, <3>2
      <4>2. all[i] \in T /\ all[i] \in Place /\ all[i] = Key(rows, all[i].ch)
        BY <1>1, <1>7, <4>1
      <4>3. i - k = m \/ i - k < m
        BY <1>3, <4>1
      <4>4. all[i] = next \/ Before(all[i], next)
        BY <1>3, <2>1, <2>2, <4>1, <4>3
      <4>5. ~Before(next, all[i])
        BY <2>2, <4>2, <4>4, Ordered
      <4> QED BY <4>2, <4>5
    <3> QED BY <3>1, <3>2
  <2>4. ASSUME NEW c \in Live PROVE c \in rose \/ Found(c, all) \/ Before(next, Key(rows, c))
    BY <1>10, <1>11, <2>2, <2>4 DEF InboxUnderWay
  <2> QED BY <2>2, <2>3, <2>4 DEF InboxUnderWay
<1> QED BY <1>9, <1>12, <1>13 DEF more, next

\* A channel that is gone stays gone.
LEMMA GoneStays ==
  ASSUME TypeInv, [Next]_vars
  PROVE  Live' \subseteq Live
<1>1. ASSUME NEW c \in Chans, retention[c] = Gone PROVE retention'[c] = Gone
  <2>1. retention \in [Chans -> {Keep, Gone, 0, 1}]
    BY DEF TypeInv, RetentionTypes
  <2>2. CASE Patch
    <3>1. ASSUME NEW d \in Chans, NEW x, Exists(d), retention' = [retention EXCEPT ![d] = x] PROVE retention'[c] = Gone
      BY <1>1, <2>1, <3>1 DEF Exists
    <3>2. \E d \in Chans : \E x : Exists(d) /\ retention' = [retention EXCEPT ![d] = x]
      BY <2>2 DEF Patch, DeleteChannel, PatchRetention
    <3> QED BY <3>1, <3>2
  <2>3. CASE ListRetention \/ Sweep \/ UNCHANGED retention
    BY <1>1, <2>3 DEF ListRetention, Sweep, SweepChannel
  <2> QED BY <2>2, <2>3, Untouched
<1> QED BY <1>1 DEF Live, Exists

\* Every step keeps the listing of the inbox.
LEMMA StepInbox == TypeInv /\ RowInv /\ WalkHolds /\ InboxHolds /\ [Next]_vars => InboxHolds'
<1> SUFFICES ASSUME TypeInv, RowInv, WalkHolds, InboxHolds, [Next]_vars PROVE InboxHolds'
  OBVIOUS
<1>0. /\ MovedTypes /\ reader.step \in Steps /\ rows \in [Chans -> Seq(Row)] /\ rows' \in [Chans -> Seq(Row)]
      /\ Live' \subseteq Live /\ Live \subseteq Chans
      /\ UNCHANGED vars \/ (Next /\ Observe)
  <2>1. TypeInv'
    BY InvStays
  <2> QED BY <2>1, GoneStays DEF WalkHolds, TypeInv, StoreTypes, ReaderTypes, Next, Live
<1>1. CASE UNCHANGED vars
  BY <1>1 DEF vars, store, InboxHolds, Live, Exists, InboxUnderWay, OnlyFallersTwice, OnlyRisersMissed, Found, Key, Activity
<1>2. CASE List /\ Observe
  <2>1. ASSUME NEW what \in {"inbox", "history"}, NEW c, StartListing(what, c) PROVE InboxHolds'
    <3>1. /\ reader'.what = what /\ reader'.got = <<>> /\ reader'.cut = {} /\ UNCHANGED rows
          /\ reader'.step = IF what = "inbox" THEN "baseline" ELSE "page"
          /\ what = "inbox" => reader'.cursor = Top
      BY <2>1 DEF StartListing, store
    <3>2. Begins
      BY <2>1, <3>1 DEF StartListing, Begins
    <3>3. moved'.rose = {} /\ moved'.fell = {}
      BY <1>0, <1>2, <3>2, Noted
    <3>4. \A d \in Chans : Before(Top, Key(rows', d)) /\ Top \in Place
      BY <1>0, Keys
    <3>5. ASSUME what = "inbox" PROVE InboxUnderWay(rows', Live', reader'.cursor, <<>>, {}, {})
      <4>1. Top \in Place
        BY Numbers DEF Place, Top
      <4>2. Live' \subseteq Chans
        BY <1>0
      <4> QED BY <3>1, <3>4, <3>5, <4>1, <4>2 DEF InboxUnderWay
    <3>6. OnlyFallersTwice(<<>>, {})
      BY DEF OnlyFallersTwice
    <3> QED BY <3>1, <3>3, <3>5, <3>6 DEF InboxHolds
  <2> QED BY <1>2, <2>1 DEF List
<1>3. CASE (UNCHANGED reader \/ BaselineReads) /\ Observe
  <2>1. /\ reader'.what = reader.what /\ reader'.got = reader.got /\ reader'.cursor = reader.cursor
        /\ reader'.cut = reader.cut
        /\ reader'.step = reader.step \/ (reader.step = "baseline" /\ reader'.step = "page")
    BY <1>3 DEF BaselineReads, TypeInv, ReaderTypes
  <2>2. ~Begins
    BY <2>1 DEF Begins
  <2>3. CASE reader'.step \in {"done", "failed"}
    <3>1. moved' = moved /\ reader'.step = reader.step
      BY <1>0, <1>3, <2>1, <2>2, <2>3, Noted
    <3> QED BY <1>0, <2>1, <2>3, <3>1 DEF InboxHolds, OnlyRisersMissed
  <2>4. CASE reader'.step \notin {"done", "failed"}
    <3> SUFFICES ASSUME reader.what = "inbox"
                 PROVE  /\ OnlyFallersTwice(reader.got, moved'.fell)
                        /\ InboxUnderWay(rows', Live', reader.cursor, reader.got, moved'.rose \cup reader.cut, moved'.fell)
      BY <2>1, <2>4 DEF InboxHolds
    <3>1. moved'.rose = moved.rose \cup Rose /\ moved'.fell = moved.fell \cup Fell
      BY <1>0, <1>3, <2>2, <2>4, Noted
    <3>2. reader.step \in {"baseline", "page"}
      BY <1>0, <2>1, <2>4 DEF Steps
    <3>3. /\ OnlyFallersTwice(reader.got, moved.fell)
          /\ InboxUnderWay(rows, Live, reader.cursor, reader.got, moved.rose \cup reader.cut, moved.fell)
      BY <3>2 DEF InboxHolds
    <3>4. InboxUnderWay(rows', Live', reader.cursor, reader.got, (moved.rose \cup Rose) \cup reader.cut, moved.fell \cup Fell)
      <4>1. reader.got \in Seq(View)
        BY <3>3 DEF OnlyFallersTwice
      <4>2. InboxUnderWay(rows', Live', reader.cursor, reader.got, (moved.rose \cup reader.cut) \cup Rose, moved.fell \cup Fell)
        BY <1>0, <3>3, <4>1, InboxWaits DEF Rose, Fell
      <4>3. (moved.rose \cup reader.cut) \cup Rose = (moved.rose \cup Rose) \cup reader.cut
        OBVIOUS
      <4> QED BY <4>2, <4>3
    <3>5. OnlyFallersTwice(reader.got, moved.fell \cup Fell)
      BY <3>3 DEF OnlyFallersTwice
    <3> QED BY <3>1, <3>4, <3>5
  <2> QED BY <2>3, <2>4
<1>4. ASSUME NEW scan \in SUBSET Views, AnswerInbox(scan), Observe PROVE InboxHolds'
  <2> DEFINE page == InboxPage(scan, reader.cursor)
             more == page.more
             all == reader'.got
             out == moved.rose \cup reader.cut
             cut == {v.ch : v \in Views \ scan}
  <2>1. /\ reader.what = "inbox" /\ reader'.what = "inbox" /\ reader.step \in {"baseline", "page"}
        /\ all = reader.got \o page.items /\ reader'.cursor = page.next
        /\ reader'.step = IF more THEN "baseline" ELSE "done"
        /\ reader'.cut = reader.cut \cup cut
    BY <1>4, InboxAnswered
  <2>2. rows' = rows /\ Live' = Live /\ ~Begins
    BY <1>4, <2>1 DEF AnswerInbox, store, Begins, Live, Exists
  <2>3. moved'.rose = moved.rose /\ moved'.fell = moved.fell
    <3>1. Rose = {} /\ Fell = {}
      <4>1. \A c \in Chans : Activity(rows, c) \in Nat
        BY <1>0, Keys
      <4> QED BY <2>2, <4>1 DEF Rose, Fell
    <3> QED BY <1>0, <1>4, <2>2, <3>1, Noted
  <2>4. /\ OnlyFallersTwice(reader.got, moved.fell)
        /\ InboxUnderWay(rows, Live, reader.cursor, reader.got, out, moved.fell)
    BY <2>1 DEF InboxHolds
  <2>5. /\ OnlyFallersTwice(all, moved.fell)
        /\ more => InboxUnderWay(rows, Live, page.next, all, out \cup cut, moved.fell)
        /\ ~more => OnlyRisersMissed(Live, all, out \cup cut)
    <3> DEFINE C == reader.cursor
               got == reader.got
               fell == moved.fell
               after == out \cup cut
    <3>1. OnlyFallersTwice(got, fell) /\ InboxUnderWay(rows, Live, C, got, out, fell)
      BY <2>4
    <3>2. all = got \o InboxPage(scan, C).items /\ out \subseteq after
          /\ \A v \in Views : v \in scan \/ v.ch \in after
      BY <2>1
    <3> HIDE DEF all, out, C, got, fell, after
    <3>3. /\ OnlyFallersTwice(all, fell)
          /\ InboxPage(scan, C).more => InboxUnderWay(rows, Live, InboxPage(scan, C).next, all, after, fell)
          /\ ~InboxPage(scan, C).more => OnlyRisersMissed(Live, all, after)
      <4>1. TypeInv /\ scan \subseteq Views
        BY <1>4
      <4> HIDE DEF page, more, cut
      <4>2. Adds(all, got, InboxPage(scan, C).items)
        BY <3>2 DEF Adds
      <4>3. out \subseteq after
        BY <3>2
      <4>4. \A v \in Views : v \in scan \/ v.ch \in after
        BY <3>2
      <4>5. OnlyFallersTwice(got, fell)
        BY <3>1
      <4>6. InboxUnderWay(rows, Live, C, got, out, fell)
        BY <3>1
      <4> QED BY <4>1, <4>2, <4>3, <4>4, <4>5, <4>6, InboxAnswers
    <3> QED BY <3>3 DEF C, fell, after
  <2>6. out \cup cut = moved'.rose \cup reader'.cut
    BY <2>1, <2>3
  <2> HIDE DEF page, more, out, cut, all
  <2>7. /\ more => reader'.step = "baseline"
        /\ ~more => reader'.step = "done"
    BY <2>1
  <2> QED BY <2>1, <2>2, <2>3, <2>5, <2>6, <2>7 DEF InboxHolds, all
<1>6. CASE AnswerHistory /\ Observe
  <2>1. reader'.what # "inbox"
    BY <1>6, Answered
  <2> QED BY <2>1 DEF InboxHolds
<1>5. CASE AnswerNotFound /\ Observe
  BY <1>5 DEF AnswerNotFound, InboxHolds, TypeInv, ReaderTypes
<1>7. AnswerPage => AnswerHistory \/ \E scan \in SUBSET Views : AnswerInbox(scan)
  BY DEF AnswerPage, Scans
<1> QED BY <1>0, <1>1, <1>2, <1>3, <1>4, <1>5, <1>6, <1>7, Untouched

\* A set of more than one number has a smaller and a larger.
LEMMA TwoOf ==
  ASSUME NEW n \in Nat, NEW D \in SUBSET (1 .. n), Cardinality(D) > 1
  PROVE  \E i, j \in D : i < j
<1> SUFFICES ASSUME \A i, j \in D : i = j PROVE FALSE
  OBVIOUS
<1>1. CASE D = {}
  BY <1>1, FS_EmptySet
<1>2. CASE D # {}
  <2>1. PICK i \in D : D = {i}
    BY <1>2
  <2>2. Cardinality({i}) = 1
    BY FS_Singleton
  <2> QED BY <2>1, <2>2
<1> QED BY <1>1, <1>2

\* A client that lists its inbox page by page to the end misses only conversations that
\* rose over its cursor meanwhile or that a scan left out (there are more than
\* inboxMaxEntries), and sees twice only those that fell below it.
THEOREM InboxMissesOnlyRisers == Spec => []InboxWalk
<1> DEFINE Inv == TypeInv /\ RowInv /\ WalkHolds /\ InboxHolds
<1>1. Init => Inv
  <2>1. Init => WalkHolds /\ InboxHolds
    BY DEF Init, WalkHolds, InboxHolds, MovedTypes, Resting
  <2> QED BY <2>1, InitTyped, InitRows
<1>2. Inv /\ [Next]_vars => Inv'
  BY InvStays, StepWalks, StepInbox
<1>3. Inv => InboxWalk
  <2> SUFFICES ASSUME InboxHolds, reader.what = "inbox", NEW c \in Chans,
                      NEW D, D = {i \in DOMAIN reader.got : reader.got[i].ch = c}
               PROVE  /\ Cardinality(D) > 1 => c \in moved.fell
                      /\ reader.step = "done" /\ D = {} /\ Exists(c) => c \in moved.rose \cup reader.cut
    BY DEF InboxWalk
  <2>1. ASSUME Cardinality(D) > 1 PROVE c \in moved.fell
    <3>1. DOMAIN reader.got = 1 .. Len(reader.got) /\ Len(reader.got) \in Nat
      BY DEF InboxHolds, OnlyFallersTwice
    <3>2. D \subseteq 1 .. Len(reader.got)
      BY <3>1
    <3>3. PICK i \in D, j \in D : i < j
      BY <2>1, <3>1, <3>2, TwoOf
    <3> QED BY <3>3 DEF InboxHolds, OnlyFallersTwice
  <2>2. ASSUME reader.step = "done", D = {}, Exists(c) PROVE c \in moved.rose \cup reader.cut
    BY <2>2 DEF InboxHolds, OnlyRisersMissed, Found, Live
  <2> QED BY <2>1, <2>2
<1> HIDE DEF Inv
<1> QED BY <1>1, <1>2, <1>3, PTL DEF Spec
=============================================================================
