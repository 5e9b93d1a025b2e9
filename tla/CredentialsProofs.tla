-------------------------- MODULE CredentialsProofs --------------------------
(***************************************************************************)
(* Proofs about Credentials, for every set of requests and tickets, every  *)
(* life time and every bound on the clock.                                 *)
(***************************************************************************)
EXTENDS Credentials, TLAPS

Changes == 1 .. MaxChange

\* A request under way, by what it carries along.
TicketRequests == [step : {"session", "member"}, of : Tickets, at : Nat, stored : BOOLEAN]
InstRequests   == [step : {"note", "token", "mint"}, inst : Changes]
TokenRequests  == [step : {"keep", "call"}, inst : Changes, expires : Nat, at : Nat]
IssueRequests  == [step : {"issue"}, session : Nat]
PlainRequests  == [step : {"none", "lookup", "refresh", "fetch", "delete", "clean", "create"}]
KeyRequests    == [step : {"keys"}, key : Changes] \cup [step : {"verify"}, key : Changes, at : Nat]

Requests == PlainRequests \cup IssueRequests \cup TicketRequests \cup InstRequests \cup TokenRequests \cup KeyRequests

TicketTypes ==
  /\ created \in Nat /\ sessions \subseteq Nat /\ token \in [Tickets -> Nat]
  /\ tickets \in [Tickets -> 0 .. Gone] /\ minted \in [Tickets -> 0 .. Never]
  /\ opened \in Seq(TicketRequests)

TokenTypes == app \in Changes /\ known \in Changes \cup {0} /\ tokens \in [Changes -> Nat]

KeyTypes ==
  /\ key \in Changes /\ jwks \in [key : Changes \cup {0}, at : Nat]
  /\ fetching \in Procs \cup {Nobody} /\ fetched \in Seq(Nat)

TypeInv ==
  /\ now \in 0 .. MaxTime /\ req \in [Procs -> Requests]
  /\ TicketTypes /\ TokenTypes /\ KeyTypes

\* A session token that is stored, stands behind a ticket or asks for one was given out.
TokensKnown ==
  /\ \A s \in sessions : s =< created
  /\ \A t \in Tickets : token[t] =< created
  /\ \A p \in Procs : At(p, "issue") => req[p].session =< created

\* The request has taken its ticket out of the map and not opened its socket yet.
Redeeming(p) == At(p, "session") \/ At(p, "member")

\* A request that a ticket was spent on: in time, and while the ticket's session was
\* stored, or it is gone for good now, for no session is given the token again.
Redeemed(r) ==
  /\ tickets[r.of] = Gone /\ minted[r.of] # Never
  /\ r.at - minted[r.of] <= TicketTTL
  /\ ~r.stored => token[r.of] \notin sessions

\* A ticket is in the map, with one request, or spent: never in two places.
TicketHolds ==
  /\ \A t \in Tickets : tickets[t] # Gone => /\ minted[t] # Never
                                             /\ tickets[t] = minted[t] + TicketTTL
  /\ \A p \in Procs : Redeeming(p) => Redeemed(req[p])
  /\ \A p, q \in Procs : Redeeming(p) /\ Redeeming(q) /\ req[p].of = req[q].of => p = q
  /\ \A i \in DOMAIN opened : Redeemed(opened[i]) /\ opened[i].stored
  /\ \A i \in DOMAIN opened, p \in Procs : Redeeming(p) => opened[i].of # req[p].of
  /\ \A i, j \in DOMAIN opened : opened[i].of = opened[j].of => i = j

\* Past the session's lookup the session was stored when the ticket was redeemed.
LookedUp == \A p \in Procs : At(p, "member") => req[p].stored

\* A token in hand was good for more than Margin when it was looked up or minted.
TokenHolds ==
  \A p \in Procs : At(p, "keep") \/ At(p, "call") => req[p].at + Margin < req[p].expires

\* Who fetches holds the lock, and the cache stays stale until the fetch is kept.
KeysHold ==
  /\ \A p \in Procs : At(p, "fetch") \/ At(p, "keys") => fetching = p
  /\ fetching # Nobody => ~Fresh
  /\ jwks.at <= now
  /\ fetched # <<>> => jwks.key # 0 /\ fetched[Len(fetched)] = jwks.at
  /\ KeysFetchedOnce

IInv == TypeInv /\ TokensKnown /\ TicketHolds /\ LookedUp /\ TokenHolds /\ KeysHold

-----------------------------------------------------------------------------
(* Types.                                                                   *)

\* The constants, as numbers, and the marks that no time reaches.
LEMMA Numbers ==
  /\ TicketTTL \in Nat /\ Margin \in Nat /\ KeyTTL \in Nat /\ KeyTTL > 0 /\ MaxTime \in Nat
  /\ Never \in Nat /\ Gone \in Nat
  /\ \A n \in 0 .. MaxTime : n # Never /\ n \in 0 .. Never /\ n + TicketTTL \in 0 .. Gone
                             /\ n + TicketTTL # Gone
  /\ 1 \in Changes /\ Changes \subseteq Nat /\ 0 \notin Changes
  <1>1. TicketTTL \in Nat \ {0} /\ Margin \in Nat \ {0} /\ KeyTTL \in Nat \ {0}
    BY CredentialsAssumption DEF CredentialsAssumption
  <1> QED
    BY <1>1, CredentialsAssumption DEF CredentialsAssumption, Never, Gone, Changes

\* A request's step says what it carries.
LEMMA RequestKinds ==
  ASSUME NEW r \in Requests
  PROVE  /\ r.step \in {"session", "member"} => r \in TicketRequests
         /\ r.step \in {"note", "token", "mint"} => r \in InstRequests
         /\ r.step \in {"keep", "call"} => r \in TokenRequests
         /\ r.step = "keys" => r.key \in Changes
         /\ r.step = "issue" => r.session \in Nat
  BY DEF Requests, PlainRequests, TicketRequests, InstRequests, TokenRequests, KeyRequests, IssueRequests

\* A request that carries nothing is a request.
LEMMA PlainRequest ==
  ASSUME NEW label \in {"none", "lookup", "refresh", "fetch", "delete", "clean", "create"}
  PROVE  [step |-> label] \in Requests
  BY DEF Requests, PlainRequests

\* Only the request that moves changes.
LEMMA NextRequest ==
  ASSUME req \in [Procs -> Requests], NEW p \in Procs, NEW r \in Requests,
         req' = [req EXCEPT ![p] = r]
  PROVE  req' \in [Procs -> Requests] /\ req'[p] = r /\ \A q \in Procs : q # p => req'[q] = req[q]
  OBVIOUS

\* Everything holds at the start.
LEMMA InitHolds == Init => IInv
  <1> SUFFICES ASSUME Init PROVE IInv
    OBVIOUS
  <1> USE Numbers DEF Init, NoTickets, NoTokens, AllRest
  <1>1. TypeInv
    <2>1. now \in 0 .. MaxTime /\ req \in [Procs -> Requests]
      BY PlainRequest DEF Resting
    <2>2. tickets \in [Tickets -> 0 .. Gone] /\ minted \in [Tickets -> 0 .. Never]
      OBVIOUS
    <2>3. opened \in Seq(TicketRequests) /\ fetched \in Seq(Nat)
      OBVIOUS
    <2>4. TicketTypes
      BY <2>2, <2>3 DEF TicketTypes
    <2>5. TokenTypes
      BY DEF TokenTypes, Changes
    <2>6. KeyTypes
      BY <2>3 DEF KeyTypes, Empty
    <2> QED
      BY <2>1, <2>4, <2>5, <2>6 DEF TypeInv
  <1>2. \A p \in Procs : req[p].step = "none"
    BY DEF Resting
  <1>3. TicketHolds /\ TokenHolds /\ LookedUp
    BY <1>2 DEF TicketHolds, TokenHolds, LookedUp, Redeeming, At
  <1>5. TokensKnown
    BY <1>2 DEF TokensKnown, At
  <1>4. KeysHold
    BY <1>2 DEF KeysHold, KeysFetchedOnce, At, Empty
  <1> QED
    BY <1>1, <1>3, <1>4, <1>5 DEF IInv

\* The steps of the parts, by what they leave alone.
TicketStep(p) == AskTicket(p) \/ LookUpSession(p) \/ Accept(p) \/ \E t \in Tickets : Issue(p, t) \/ Consume(p, t)
MemberStep(p) == Kick(p) \/ DeleteRow(p) \/ DeleteSessions(p) \/ Join(p) \/ CreateSession(p)
TokenStep(p)  == \/ AskInstallation(p) \/ LookUpInstallation(p) \/ NoteInstallation(p)
                 \/ ReadToken(p) \/ MintToken(p) \/ KeepToken(p) \/ CallGitHub(p)
KeyStep(p)    == AskKeys(p) \/ Refresh(p) \/ Fetch(p) \/ KeepKeys(p) \/ Verify(p)
WorldStep     == Tick \/ Restart \/ Reinstall \/ RotateKey

\* A step is of the world, of a ticket, of the member, of a token or of the keys.
LEMMA NextSplit ==
  ASSUME [Next]_vars
  PROVE  \/ WorldStep \/ UNCHANGED vars
         \/ \E p \in Procs : TicketStep(p) \/ MemberStep(p) \/ TokenStep(p) \/ KeyStep(p)
  BY DEF Next, WorldStep, TicketStep, MemberStep, TokenStep, KeyStep

\* What a step of a request leaves in req.
LEMMA StepRequest ==
  ASSUME TypeInv, NEW p \in Procs, TicketStep(p) \/ MemberStep(p) \/ TokenStep(p) \/ KeyStep(p)
  PROVE  \E r \in Requests : req' = req \/ req' = [req EXCEPT ![p] = r]
  <1> USE CredentialsAssumption
      DEF CredentialsAssumption, TypeInv, TicketTypes, TokenTypes, KeyTypes, Begin, At, Goto, Done
  <1>1. Resting \in Requests /\ req[p] \in Requests
    BY PlainRequest DEF Resting
  <1>2. CASE AskTicket(p)
    <2>1. \A s \in sessions : [step |-> "issue", session |-> s] \in Requests
      BY DEF Requests, IssueRequests
    <2> QED
      BY <1>2, <2>1 DEF AskTicket
  <1>0. CASE MemberStep(p)
    BY <1>0, <1>1, PlainRequest DEF MemberStep, Kick, DeleteRow, DeleteSessions, Join, CreateSession
  <1>3. CASE \E t \in Tickets : Issue(p, t)
    BY <1>1, <1>3 DEF Issue
  <1>4. CASE \E t \in Tickets : Consume(p, t)
    <2>1. PICK t \in Tickets : Consume(p, t)
      BY <1>4
    <2>2. [step |-> "session", of |-> t, at |-> now, stored |-> token[t] \in sessions] \in Requests
      BY DEF Requests, TicketRequests
    <2> QED
      BY <2>1, <2>2, <1>1 DEF Consume
  <1>5. CASE LookUpSession(p)
    <2>1. req[p] \in TicketRequests
      BY <1>1, <1>5, RequestKinds DEF LookUpSession
    <2>2. [req[p] EXCEPT !.step = "member"] \in Requests
      BY <2>1 DEF Requests, TicketRequests
    <2> QED
      BY <1>1, <1>5, <2>2 DEF LookUpSession
  <1>6. CASE Accept(p) \/ CallGitHub(p) \/ Verify(p)
    BY <1>1, <1>6 DEF Accept, CallGitHub, Verify
  <1>7. CASE AskInstallation(p)
    <2>1. known # 0 => [step |-> "token", inst |-> known] \in Requests
      BY DEF Requests, InstRequests
    <2> QED
      BY <1>7, <2>1, PlainRequest DEF AskInstallation
  <1>8. CASE LookUpInstallation(p)
    <2>1. [step |-> "note", inst |-> app] \in Requests
      BY DEF Requests, InstRequests
    <2> QED
      BY <1>1, <1>8, <2>1 DEF LookUpInstallation
  <1>9. CASE NoteInstallation(p)
    <2>1. req[p] \in InstRequests
      BY <1>1, <1>9, RequestKinds DEF NoteInstallation
    <2>2. [req[p] EXCEPT !.step = "token"] \in Requests
      BY <2>1 DEF Requests, InstRequests
    <2> QED
      BY <1>9, <2>2 DEF NoteInstallation
  <1>10. CASE ReadToken(p)
    <2>1. req[p] \in InstRequests
      BY <1>1, <1>10, RequestKinds DEF ReadToken
    <2>2. [req[p] EXCEPT !.step = "mint"] \in Requests
      BY <2>1 DEF Requests, InstRequests
    <2>3. [step |-> "call", inst |-> req[p].inst, expires |-> tokens[req[p].inst], at |-> now] \in Requests
      BY <2>1 DEF Requests, InstRequests, TokenRequests
    <2> QED
      BY <1>10, <2>2, <2>3 DEF ReadToken
  <1>11. CASE MintToken(p)
    <2>1. \A life \in Lives : [step |-> "keep", inst |-> app, expires |-> now + life, at |-> now] \in Requests
      BY DEF Requests, TokenRequests
    <2> QED
      BY <1>1, <1>11, <2>1 DEF MintToken
  <1>12. CASE KeepToken(p)
    <2>1. req[p] \in TokenRequests
      BY <1>1, <1>12, RequestKinds DEF KeepToken
    <2>2. [req[p] EXCEPT !.step = "call"] \in Requests
      BY <2>1 DEF Requests, TokenRequests
    <2> QED
      BY <1>12, <2>2 DEF KeepToken
  <1>13. \A k \in Changes : WithKey(k) \in Requests
    BY DEF WithKey, Requests, KeyRequests
  <1>14. jwks.key # 0 => jwks.key \in Changes
    OBVIOUS
  <1>15. CASE AskKeys(p)
    BY <1>13, <1>14, <1>15, PlainRequest DEF AskKeys, Fresh
  <1>16. CASE Refresh(p)
    BY <1>13, <1>14, <1>16, PlainRequest DEF Refresh, StillStale, Fresh
  <1>17. CASE Fetch(p)
    <2>1. [step |-> "keys", key |-> key] \in Requests
      BY DEF Requests, KeyRequests
    <2> QED
      BY <1>1, <1>17, <2>1 DEF Fetch
  <1>18. CASE KeepKeys(p)
    <2>1. req[p].key \in Changes
      BY <1>1, <1>18, RequestKinds DEF KeepKeys
    <2> QED
      BY <1>13, <1>18, <2>1 DEF KeepKeys
  <1> QED
    BY <1>0, <1>2, <1>3, <1>4, <1>5, <1>6, <1>7, <1>8, <1>9, <1>10, <1>11, <1>12, <1>15, <1>16,
       <1>17, <1>18 DEF TicketStep, TokenStep, KeyStep

\* The steps of tokens and keys are beside the tickets,
LEMMA BesideTickets ==
  ASSUME TypeInv, NEW p \in Procs, TokenStep(p) \/ KeyStep(p)
  PROVE  UNCHANGED ticketVars /\ req'[p].step \notin {"issue", "session", "member"}
  <1>1. UNCHANGED ticketVars
    BY DEF TokenStep, KeyStep, AskInstallation, LookUpInstallation, NoteInstallation,
           ReadToken, MintToken, KeepToken, CallGitHub, AskKeys, Refresh, Fetch, KeepKeys, Verify
  <1>2. req'[p].step \notin {"issue", "session", "member"}
    <2> USE DEF At, Begin, Goto, Done, Resting, WithKey, TypeInv
    <2>1. CASE AskInstallation(p) \/ LookUpInstallation(p) \/ CallGitHub(p)
      BY <2>1 DEF AskInstallation, LookUpInstallation, CallGitHub
    <2>2. CASE NoteInstallation(p) \/ ReadToken(p)
      <3>1. req[p] \in InstRequests
        BY <2>2, RequestKinds DEF NoteInstallation, ReadToken
      <3> QED
        BY <2>2, <3>1 DEF NoteInstallation, ReadToken, InstRequests
    <2>3. CASE MintToken(p)
      BY <2>3 DEF MintToken
    <2>4. CASE KeepToken(p)
      <3>1. req[p] \in TokenRequests
        BY <2>4, RequestKinds DEF KeepToken
      <3> QED
        BY <2>4, <3>1 DEF KeepToken, TokenRequests
    <2>5. CASE AskKeys(p) \/ Verify(p)
      BY <2>5 DEF AskKeys, Verify
    <2>6. CASE Refresh(p) \/ Fetch(p) \/ KeepKeys(p)
      BY <2>6 DEF Refresh, Fetch, KeepKeys
    <2> QED
      BY <2>1, <2>2, <2>3, <2>4, <2>5, <2>6 DEF TokenStep, KeyStep
  <1> QED
    BY <1>1, <1>2

\* and a kick or a join is beside all else that is redeemed, minted or fetched.
LEMMA MemberMoves ==
  ASSUME TypeInv, NEW p \in Procs, MemberStep(p)
  PROVE  /\ UNCHANGED BesideMember
         /\ req'[p].step \in {"none", "delete", "clean", "create"}
         /\ \A q \in Procs : q # p => req'[q] = req[q]
         /\ \/ created' = created /\ sessions' \subseteq sessions
            \/ created' = created + 1 /\ sessions' \subseteq sessions \cup {created + 1}
  <1> USE DEF Begin, Goto, Done, Resting, TypeInv, memberVars
  <1>1. CASE Kick(p) \/ Join(p)
    BY <1>1 DEF Kick, Join
  <1>2. CASE DeleteRow(p)
    BY <1>2 DEF DeleteRow
  <1>3. CASE DeleteSessions(p)
    BY <1>3 DEF DeleteSessions
  <1>4. CASE CreateSession(p)
    BY <1>4 DEF CreateSession
  <1> QED
    BY <1>1, <1>2, <1>3, <1>4 DEF MemberStep

\* Every step keeps the types.
LEMMA NextType == TypeInv /\ [Next]_vars => TypeInv'
  <1> SUFFICES ASSUME TypeInv, [Next]_vars PROVE TypeInv'
    OBVIOUS
  <1> USE Numbers DEF TypeInv
  <1>1. UNCHANGED ticketVars => TicketTypes'
    BY DEF ticketVars, memberVars, TicketTypes
  <1>2. UNCHANGED tokenVars => TokenTypes'
    BY DEF tokenVars, TokenTypes
  <1>3. UNCHANGED keyVars => KeyTypes'
    BY DEF keyVars, KeyTypes
  <1>4. ASSUME NEW p \in Procs, TicketStep(p) PROVE TypeInv'
    <2>1. req' \in [Procs -> Requests]
      BY <1>4, StepRequest
    <2>2. now' = now /\ UNCHANGED <<tokenVars, keyVars>>
      BY <1>4 DEF TicketStep, AskTicket, LookUpSession, Accept, Issue, Consume
    <2>3. TicketTypes'
      <3> USE DEF TicketTypes
      <3>1. CASE AskTicket(p) \/ LookUpSession(p)
        BY <1>1, <3>1 DEF AskTicket, LookUpSession
      <3>2. ASSUME NEW t \in Tickets, Issue(p, t) PROVE TicketTypes'
        <4>0. token' \in [Tickets -> Nat]
          <5>1. req[p].session \in Nat
            BY <3>2, RequestKinds DEF Issue, At
          <5> QED
            BY <3>2, <5>1 DEF Issue
        <4>1. tickets' \in [Tickets -> 0 .. Gone] /\ minted' \in [Tickets -> 0 .. Never]
          <5>1. now \in 0 .. Never /\ now + TicketTTL \in 0 .. Gone
            BY Numbers
          <5>2. Gone \in 0 .. Gone
            BY Numbers
          <5>3. minted' = [minted EXCEPT ![t] = now]
                /\ tickets' = [u \in Tickets |-> IF u = t THEN now + TicketTTL
                                                 ELSE IF Expired(u) THEN Gone ELSE tickets[u]]
            BY <3>2 DEF Issue
          <5> HIDE Numbers, CredentialsAssumption
          <5> QED
            BY <5>1, <5>2, <5>3
        <4> QED
          BY <3>2, <4>0, <4>1 DEF Issue, memberVars
      <3>3. ASSUME NEW t \in Tickets, Consume(p, t) PROVE TicketTypes'
        <4>1. tickets' \in [Tickets -> 0 .. Gone]
          BY <3>3 DEF Consume, Removed
        <4> QED
          BY <3>3, <4>1 DEF Consume, memberVars
      <3>4. CASE Accept(p)
        <4>1. req[p] \in TicketRequests
          BY <3>4, RequestKinds DEF Accept, At
        <4>2. opened' \in Seq(TicketRequests)
          BY <3>4, <4>1 DEF Accept
        <4> QED
          BY <3>4, <4>2 DEF Accept, memberVars
      <3> QED
        BY <1>4, <3>1, <3>2, <3>3, <3>4 DEF TicketStep
    <2> QED
      BY <1>2, <1>3, <2>1, <2>2, <2>3
  <1>5. ASSUME NEW p \in Procs, TokenStep(p) PROVE TypeInv'
    <2>1. req' \in [Procs -> Requests]
      BY <1>5, StepRequest
    <2>2. now' = now /\ UNCHANGED <<ticketVars, keyVars>>
      BY <1>5 DEF TokenStep, AskInstallation, LookUpInstallation, NoteInstallation, ReadToken,
                  MintToken, KeepToken, CallGitHub
    <2>3. TokenTypes'
      <3>1. CASE NoteInstallation(p)
        <4>1. req[p].inst \in Changes
          BY <3>1, RequestKinds DEF NoteInstallation, At, InstRequests
        <4> QED
          BY <3>1, <4>1 DEF NoteInstallation, TokenTypes
      <3>2. CASE KeepToken(p)
        <4>1. req[p].inst \in Changes /\ req[p].expires \in Nat
          BY <3>2, RequestKinds DEF KeepToken, At, TokenRequests
        <4> QED
          BY <3>2, <4>1 DEF KeepToken, TokenTypes
      <3> QED
        BY <1>2, <1>5, <3>1, <3>2
        DEF TokenStep, AskInstallation, LookUpInstallation, ReadToken, MintToken, CallGitHub
    <2> QED
      BY <1>1, <1>3, <2>1, <2>2, <2>3
  <1>6. ASSUME NEW p \in Procs, KeyStep(p) PROVE TypeInv'
    <2>1. req' \in [Procs -> Requests]
      BY <1>6, StepRequest
    <2>2. now' = now /\ UNCHANGED <<ticketVars, tokenVars>>
      BY <1>6 DEF KeyStep, AskKeys, Refresh, Fetch, KeepKeys, Verify
    <2>3. KeyTypes'
      <3>1. CASE KeepKeys(p)
        <4>1. req[p].key \in Changes
          BY <3>1, RequestKinds DEF KeepKeys, At
        <4>2. jwks' \in [key : Changes \cup {0}, at : Nat] /\ fetched' \in Seq(Nat)
          BY <3>1, <4>1 DEF KeepKeys, KeyTypes
        <4> QED
          BY <3>1, <4>2 DEF KeepKeys, KeyTypes
      <3>2. CASE AskKeys(p) \/ Verify(p)
        BY <1>3, <3>2 DEF AskKeys, Verify
      <3>3. CASE Refresh(p) \/ Fetch(p)
        BY <3>3 DEF Refresh, Fetch, KeyTypes
      <3> QED
        BY <1>6, <3>1, <3>2, <3>3 DEF KeyStep
    <2> QED
      BY <1>1, <1>2, <2>1, <2>2, <2>3
  <1>7. CASE Restart
    <2>1. req' \in [Procs -> Requests]
      BY <1>7, PlainRequest DEF Restart, AllRest, Resting
    <2>2. TicketTypes'
      BY <1>7 DEF Restart, NoTickets, TicketTypes, memberVars
    <2>3. TokenTypes'
      BY <1>7 DEF Restart, NoTokens, TokenTypes, Changes
    <2>4. KeyTypes'
      <3>1. jwks' \in [key : Changes \cup {0}, at : Nat] /\ fetched' \in Seq(Nat)
        BY <1>7 DEF Restart, Empty
      <3> QED
        BY <1>7, <3>1 DEF Restart, KeyTypes
    <2> QED
      BY <1>7, <2>1, <2>2, <2>3, <2>4 DEF Restart
  <1>8. ASSUME NEW p \in Procs, MemberStep(p) PROVE TypeInv'
    <2>1. req' \in [Procs -> Requests]
      BY <1>8, StepRequest
    <2>2. UNCHANGED BesideMember
      BY <1>8 DEF MemberStep, Kick, DeleteRow, DeleteSessions, Join, CreateSession
    <2>3. created' \in Nat /\ sessions' \subseteq Nat
      <3>1. CASE CreateSession(p)
        BY <3>1 DEF CreateSession, TicketTypes
      <3>2. CASE ~CreateSession(p)
        <4>1. created' = created /\ sessions' \in {{}, sessions}
          BY <1>8, <3>2 DEF MemberStep, Kick, DeleteRow, DeleteSessions, Join, memberVars
        <4> QED
          BY <4>1 DEF TicketTypes
      <3> QED
        BY <3>1, <3>2
    <2>4. UNCHANGED <<tickets, token, minted, opened>>
      BY <2>2 DEF BesideMember
    <2>5. TicketTypes'
      BY <2>3, <2>4 DEF TicketTypes
    <2> QED
      BY <1>2, <1>3, <2>1, <2>2, <2>5 DEF BesideMember
  <1>9. CASE Reinstall
    <2>1. TokenTypes'
      BY <1>9, CredentialsAssumption DEF CredentialsAssumption, Reinstall, TokenTypes, Changes
    <2> QED
      BY <1>1, <1>3, <1>9, <2>1 DEF Reinstall
  <1>10. CASE RotateKey
    <2>1. KeyTypes'
      BY <1>10, CredentialsAssumption DEF CredentialsAssumption, RotateKey, KeyTypes, Changes
    <2> QED
      BY <1>1, <1>2, <1>10, <2>1 DEF RotateKey
  <1>11. CASE Tick
    BY <1>1, <1>2, <1>3, <1>11 DEF Tick
  <1>12. CASE UNCHANGED vars
    BY <1>1, <1>2, <1>3, <1>12 DEF vars
  <1> QED
    BY <1>4, <1>5, <1>6, <1>7, <1>8, <1>9, <1>10, <1>11, <1>12, NextSplit DEF WorldStep

-----------------------------------------------------------------------------
(* Tickets.                                                                 *)

\* Every step keeps the session tokens known,
LEMMA NextKnown == TypeInv /\ TokensKnown /\ [Next]_vars => TokensKnown'
  <1> SUFFICES ASSUME TypeInv, TokensKnown, [Next]_vars PROVE TokensKnown'
    OBVIOUS
  <1> USE DEF ticketVars, memberVars
  <1>1. ASSUME UNCHANGED <<sessions, created, token>>,
               \A p \in Procs : At(p, "issue")' => At(p, "issue") /\ req'[p] = req[p]
        PROVE  TokensKnown'
    BY <1>1 DEF TokensKnown
  <1>2. ASSUME NEW p \in Procs, TicketStep(p) \/ MemberStep(p) \/ TokenStep(p) \/ KeyStep(p)
        PROVE  TokensKnown'
    <2>1. \A q \in Procs : q # p => req'[q] = req[q] /\ (At(q, "issue")' <=> At(q, "issue"))
      BY <1>2, StepRequest DEF TypeInv, At
    <2>2. CASE AskTicket(p)
      <3>1. PICK s \in sessions : Begin(p, [step |-> "issue", session |-> s])
        BY <2>2 DEF AskTicket
      <3>2. req'[p].session =< created /\ UNCHANGED <<sessions, created, token>>
        BY <2>2, <3>1 DEF AskTicket, Begin, TypeInv, TokensKnown
      <3> QED
        BY <2>1, <3>2 DEF TokensKnown
    <2>3. ASSUME NEW t \in Tickets, Issue(p, t) PROVE TokensKnown'
      <3>1. UNCHANGED <<sessions, created>> /\ ~At(p, "issue")'
        BY <2>3 DEF Issue, Done, Goto, Resting, At, TypeInv
      <3>2. \A u \in Tickets : token'[u] =< created
        BY <2>3 DEF Issue, TypeInv, TicketTypes, TokensKnown
      <3> QED
        BY <2>1, <3>1, <3>2 DEF TokensKnown
    <2>4. CASE MemberStep(p)
      <3>1. /\ created' \in {created, created + 1} /\ sessions' \subseteq sessions \cup {created'}
            /\ token' = token /\ ~At(p, "issue")'
        BY <2>4, MemberMoves DEF BesideMember, At
      <3>2. created \in Nat /\ \A s \in Nat : s =< created => s =< created'
        BY <3>1 DEF TypeInv, TicketTypes
      <3>3. \A s \in sessions' : s =< created'
        BY <3>1, <3>2 DEF TypeInv, TicketTypes, TokensKnown
      <3>4. \A t \in Tickets : token'[t] =< created'
        BY <3>1, <3>2 DEF TypeInv, TicketTypes, TokensKnown
      <3>5. \A q \in Procs : At(q, "issue")' => req'[q].session =< created'
        <4> SUFFICES ASSUME NEW q \in Procs, At(q, "issue")' PROVE req'[q].session =< created'
          OBVIOUS
        <4>1. q # p /\ req'[q] = req[q] /\ At(q, "issue")
          BY <2>1, <3>1
        <4>2. req[q].session \in Nat
          BY <4>1, RequestKinds DEF TypeInv, At
        <4> QED
          BY <3>2, <4>1, <4>2 DEF TokensKnown
      <3> QED
        BY <3>3, <3>4, <3>5 DEF TokensKnown
    <2>5. ASSUME UNCHANGED <<created, token>>, sessions' \subseteq sessions,
                 req' = req \/ req'[p].step # "issue"
          PROVE  TokensKnown'
      BY <2>1, <2>5 DEF TokensKnown, At
    <2>7. CASE LookUpSession(p)
      <3>1. req[p] \in TicketRequests
        BY <2>7, RequestKinds DEF LookUpSession, At, TypeInv
      <3>2. [req[p] EXCEPT !.step = "member"].step = "member"
        BY <3>1 DEF TicketRequests
      <3> QED
        <4>1. req'[p].step # "issue" /\ UNCHANGED ticketVars
          <5> DEFINE r == [req[p] EXCEPT !.step = "member"]
          <5>1. req' = [req EXCEPT ![p] = r] \/ req' = [req EXCEPT ![p] = Resting]
            BY <2>7 DEF LookUpSession, Done, Goto
          <5> HIDE DEF r
          <5>2. req'[p] = r \/ req'[p] = Resting
            BY <5>1 DEF TypeInv
          <5>3. r.step # "issue"
            BY <3>2 DEF r
          <5>4. UNCHANGED ticketVars
            BY <2>7 DEF LookUpSession
          <5> QED
            BY <5>2, <5>3, <5>4 DEF Resting
        <4> QED
          BY <2>5, <4>1
    <2>8. CASE Accept(p) \/ \E t \in Tickets : Consume(p, t)
      BY <2>5, <2>8 DEF Accept, Consume, Begin, Done, Goto, Resting, TypeInv
    <2>9. CASE TokenStep(p) \/ KeyStep(p)
      BY <2>5, <2>9, BesideTickets
    <2> QED
      BY <1>2, <2>2, <2>3, <2>4, <2>7, <2>8, <2>9 DEF TicketStep
  <1>3. CASE Restart
    BY <1>1, <1>3 DEF Restart, AllRest, Resting, At
  <1>4. CASE WorldStep \/ UNCHANGED vars
    BY <1>1, <1>3, <1>4 DEF WorldStep, Tick, Reinstall, RotateKey, vars, At
  <1> QED
    BY <1>2, <1>4, NextSplit

\* What was opened was asked for with a ticket.
LEMMA OpenedType == TypeInv => \A i \in DOMAIN opened : opened[i] \in TicketRequests /\ opened[i].of \in Tickets
  <1> SUFFICES ASSUME TypeInv, NEW i \in DOMAIN opened
               PROVE  opened[i] \in TicketRequests /\ opened[i].of \in Tickets
    OBVIOUS
  <1>1. opened[i] \in TicketRequests
    BY DEF TypeInv, TicketTypes
  <1> QED
    BY <1>1 DEF TicketRequests

\* Steps that spend no ticket: requests go on redeeming what they redeemed.
LEMMA TicketsRest ==
  ASSUME TypeInv, TicketHolds, UNCHANGED <<tickets, token, minted, opened>>,
         \A t \in Tickets : token[t] \in sessions' => token[t] \in sessions,
         \A p \in Procs : Redeeming(p)' => /\ Redeeming(p)
                                           /\ req'[p].of = req[p].of /\ req'[p].at = req[p].at
                                           /\ req'[p].stored = req[p].stored
  PROVE  TicketHolds'
  <1>1. \A p \in Procs : Redeeming(p) => req[p].of \in Tickets
    BY RequestKinds DEF TypeInv, Redeeming, At, TicketRequests
  <1>2. \A i \in DOMAIN opened : opened[i].of \in Tickets
    BY OpenedType
  <1> QED
    BY <1>1, <1>2 DEF TicketHolds, Redeemed

\* Every step keeps what is known of the tickets,
LEMMA NextTickets == TypeInv /\ TokensKnown /\ TicketHolds /\ LookedUp /\ [Next]_vars => TicketHolds'
  <1> SUFFICES ASSUME TypeInv, TokensKnown, TicketHolds, LookedUp, [Next]_vars PROVE TicketHolds'
    OBVIOUS
  <1> USE Numbers DEF ticketVars, memberVars
  <1> DEFINE Kept(r) == /\ tickets'[r.of] = Gone /\ minted'[r.of] # Never
                        /\ r.at - minted'[r.of] <= TicketTTL
                        /\ ~r.stored => token'[r.of] \notin sessions'
  <1>1. ASSUME NEW p \in Procs, TokenStep(p) \/ KeyStep(p) PROVE TicketHolds'
    <2>1. UNCHANGED ticketVars /\ ~Redeeming(p)'
      BY <1>1, BesideTickets DEF Redeeming, At
    <2>2. \A q \in Procs : q # p => req'[q] = req[q]
      BY <1>1, StepRequest DEF TypeInv
    <2> QED
      BY <2>1, <2>2, TicketsRest DEF Redeeming, At
  <1>6. ASSUME NEW p \in Procs, MemberStep(p) PROVE TicketHolds'
    <2>1. /\ UNCHANGED <<tickets, token, minted, opened>> /\ ~Redeeming(p)'
          /\ \A q \in Procs : q # p => req'[q] = req[q]
      BY <1>6, MemberMoves DEF BesideMember, Redeeming, At
    <2>2. \A t \in Tickets : token[t] \in sessions' => token[t] \in sessions
      <3>1. \A t \in Tickets : token[t] # created + 1
        BY DEF TokensKnown, TypeInv, TicketTypes
      <3> QED
        BY <1>6, <3>1, MemberMoves
    <2> QED
      BY <2>1, <2>2, TicketsRest DEF Redeeming, At
  <1>2. ASSUME NEW p \in Procs, TicketStep(p) PROVE TicketHolds'
    <2>1. /\ \A q \in Procs : q # p => req'[q] = req[q]
          /\ req[p] \in Requests
      BY <1>2, StepRequest DEF TypeInv
    <2>2. CASE AskTicket(p)
      BY <2>1, <2>2, TicketsRest DEF AskTicket, Begin, TypeInv, Redeeming, At
    <2>3. CASE LookUpSession(p)
      <3>1. req[p] \in TicketRequests
        BY <2>1, <2>3, RequestKinds DEF LookUpSession, At
      <3>2. Redeeming(p) /\ (Redeeming(p)' => req'[p] = [req[p] EXCEPT !.step = "member"])
        BY <2>3 DEF LookUpSession, Redeeming, At, Goto, Done, Resting, TypeInv
      <3>3. LET r == [req[p] EXCEPT !.step = "member"]
            IN  r.of = req[p].of /\ r.at = req[p].at /\ r.stored = req[p].stored
        BY <3>1 DEF TicketRequests
      <3> QED
        BY <2>1, <2>3, <3>2, <3>3, TicketsRest DEF LookUpSession, Redeeming, At
    <2>4. CASE Accept(p)
      <3>1. /\ req[p] \in TicketRequests /\ Redeeming(p)
            /\ ~Redeeming(p)'
        BY <2>1, <2>4, RequestKinds DEF Accept, At, Done, Goto, Resting, Redeeming, TypeInv
      <3>2. CASE ~row
        BY <2>1, <2>4, <3>1, <3>2, TicketsRest DEF Accept, Redeeming, At
      <3>3. CASE row
        <4>1. Redeemed(req[p]) /\ req[p].stored
          BY <2>4, <3>1 DEF TicketHolds, LookedUp, Accept
        <4>2. /\ opened' = Append(opened, req[p]) /\ opened \in Seq(TicketRequests)
              /\ UNCHANGED <<sessions, tickets, token, minted>>
          BY <2>4, <3>3 DEF Accept, TypeInv, TicketTypes
        <4>3. /\ DOMAIN opened = 1 .. Len(opened) /\ Len(opened) \in Nat
              /\ DOMAIN opened' = 1 .. Len(opened) + 1
              /\ \A i \in DOMAIN opened : opened'[i] = opened[i]
              /\ opened'[Len(opened) + 1] = req[p]
          BY <3>1, <4>2
        <4>4. \A i \in DOMAIN opened' : i \in DOMAIN opened \/ i = Len(opened) + 1
          BY <4>3
        <4>5. \A q \in Procs : Redeeming(q)' => Redeeming(q) /\ q # p /\ req'[q] = req[q]
          BY <2>1, <3>1 DEF Redeeming, At
        <4>6. \A i \in DOMAIN opened' : Kept(opened'[i]) /\ opened'[i].stored
          BY <4>1, <4>2, <4>3, <4>4 DEF TicketHolds, Redeemed
        <4>7. \A i \in DOMAIN opened : opened[i].of # req[p].of
          BY <3>1 DEF TicketHolds
        <4>8. \A q \in Procs : Redeeming(q) /\ q # p => req[q].of # req[p].of
          BY <3>1 DEF TicketHolds
        <4>9. \A i \in DOMAIN opened', q \in Procs : Redeeming(q)' => opened'[i].of # req'[q].of
          BY <4>3, <4>4, <4>5, <4>8 DEF TicketHolds
        <4>10. \A i, j \in DOMAIN opened' : opened'[i].of = opened'[j].of => i = j
          BY <4>3, <4>4, <4>7 DEF TicketHolds
        <4>11. \A q \in Procs : Redeeming(q)' => Kept(req'[q])
          BY <4>2, <4>5 DEF TicketHolds, Redeemed
        <4> QED
          BY <4>2, <4>5, <4>6, <4>9, <4>10, <4>11 DEF TicketHolds, Redeemed
      <3> QED
        BY <3>2, <3>3
    <2>5. ASSUME NEW t \in Tickets, Issue(p, t) PROVE TicketHolds'
      <3>1. \A u \in Tickets : minted[u] # Never => minted'[u] = minted[u] /\ u # t
        BY <2>5 DEF Issue, TypeInv, TicketTypes
      <3>2. \A u \in Tickets : tickets[u] = Gone /\ minted[u] # Never => tickets'[u] = Gone
        BY <2>5, <3>1 DEF Issue, TypeInv, TicketTypes
      <3>3. minted'[t] = now /\ tickets'[t] = now + TicketTTL /\ now # Never
        BY <2>5 DEF Issue, TypeInv, TicketTypes, Never
      <3>4. \A u \in Tickets : u # t => tickets'[u] \in {Gone, tickets[u]} /\ minted'[u] = minted[u]
                                   /\ token'[u] = token[u]
        BY <2>5 DEF Issue, TypeInv, TicketTypes
      <3>5. ~Redeeming(p)' /\ sessions' = sessions /\ opened' = opened
        BY <2>5 DEF Issue, Done, Goto, Resting, Redeeming, At, TypeInv
      <3>6. \A q \in Procs : Redeeming(q)' => Redeeming(q) /\ req'[q] = req[q]
        BY <2>1, <3>5 DEF Redeeming, At
      <3>7. \A q \in Procs : Redeeming(q) => req[q].of \in Tickets
        BY RequestKinds DEF TypeInv, Redeeming, At, TicketRequests
      <3>8. \A i \in DOMAIN opened : opened[i].of \in Tickets
        BY OpenedType
      <3>10. \A u \in Tickets : tickets'[u] # Gone => /\ minted'[u] # Never
                                                      /\ tickets'[u] = minted'[u] + TicketTTL
        BY <3>3, <3>4 DEF TicketHolds
      <3>11. \A q \in Procs : Redeeming(q)' => Kept(req'[q])
        BY <3>6, <3>7, <3>1, <3>2, <3>4, <3>5 DEF TicketHolds, Redeemed
      <3>12. \A i \in DOMAIN opened' : Kept(opened'[i]) /\ opened'[i].stored
        BY <3>5, <3>8, <3>1, <3>2, <3>4 DEF TicketHolds, Redeemed
      <3> QED
        BY <3>5, <3>6, <3>10, <3>11, <3>12 DEF TicketHolds, Redeemed
    <2>6. ASSUME NEW t \in Tickets, Consume(p, t) PROVE TicketHolds'
      <3> DEFINE r == [step |-> "session", of |-> t, at |-> now, stored |-> token[t] \in sessions]
      <3>1. /\ minted[t] # Never /\ tickets[t] = minted[t] + TicketTTL /\ tickets[t] # Gone
            /\ minted[t] \in Nat /\ now \in Nat
        BY <2>6 DEF Consume, TicketHolds, TypeInv, TicketTypes
      <3>2. UNCHANGED <<sessions, token, minted, opened>>
        BY <2>6 DEF Consume
      <3>3. tickets'[t] = Gone /\ \A u \in Tickets : u # t => tickets'[u] = tickets[u]
        BY <2>6 DEF Consume, Removed, TypeInv, TicketTypes, Gone
      <3>4. \A q \in Procs : Redeeming(q) => req[q].of \in Tickets /\ req[q].of # t
        BY <3>1, RequestKinds DEF TypeInv, Redeeming, At, TicketRequests, TicketHolds, Redeemed
      <3>5. \A i \in DOMAIN opened : opened[i].of \in Tickets /\ opened[i].of # t
        BY <3>1, OpenedType DEF TicketHolds, Redeemed
      <3>6. \A i \in DOMAIN opened' : Kept(opened'[i]) /\ opened'[i].stored
        BY <3>2, <3>3, <3>5 DEF TicketHolds, Redeemed
      <3>7. \A u \in Tickets : tickets'[u] # Gone => /\ minted'[u] # Never
                                                     /\ tickets'[u] = minted'[u] + TicketTTL
        BY <3>2, <3>3 DEF TicketHolds
      <3>8. \A q \in Procs : Redeeming(q) => Kept(req[q])
        BY <3>2, <3>3, <3>4 DEF TicketHolds, Redeemed
      <3>9. CASE Expired(t)
        <4>1. req' = req
          BY <2>6, <3>9 DEF Consume
        <4> QED
          BY <4>1, <3>2, <3>6, <3>7, <3>8 DEF TicketHolds, Redeemed, Redeeming, At
      <3>10. CASE ~Expired(t)
        <4>1. req' = [req EXCEPT ![p] = r] /\ req[p] = Resting
          BY <2>6, <3>10 DEF Consume, Begin
        <4>2. req'[p] = r /\ Redeeming(p)' /\ ~Redeeming(p)
          BY <4>1 DEF TypeInv, Redeeming, At, Resting
        <4>4. Kept(r)
          <5>1. now <= minted[t] + TicketTTL
            BY <3>1, <3>10 DEF Expired
          <5>2. now - minted'[t] <= TicketTTL
            BY <3>1, <3>2, <5>1
          <5>3. ~r.stored => token'[r.of] \notin sessions'
            BY <3>2
          <5> QED
            BY <3>1, <3>2, <3>3, <5>2, <5>3
        <4>5. \A q \in Procs : q # p => req'[q] = req[q] /\ (Redeeming(q)' <=> Redeeming(q))
          BY <2>1 DEF Redeeming, At
        <4>6. \A q \in Procs : Redeeming(q)' => Kept(req'[q])
          BY <3>8, <4>2, <4>4, <4>5
        <4>7. \A q, v \in Procs : Redeeming(q)' /\ Redeeming(v)' /\ req'[q].of = req'[v].of => q = v
          BY <3>4, <4>2, <4>5 DEF TicketHolds
        <4>8. \A i \in DOMAIN opened', q \in Procs : Redeeming(q)' => opened'[i].of # req'[q].of
          BY <3>2, <3>5, <4>2, <4>5 DEF TicketHolds
        <4> QED
          BY <3>2, <3>6, <3>7, <4>6, <4>7, <4>8 DEF TicketHolds, Redeemed
      <3> QED
        BY <3>9, <3>10
    <2> QED
      BY <1>2, <2>2, <2>3, <2>4, <2>5, <2>6 DEF TicketStep
  <1>3. CASE Restart
    <2>1. \A p \in Procs : ~Redeeming(p)'
      BY <1>3 DEF Restart, AllRest, Resting, Redeeming, At
    <2>2. UNCHANGED <<sessions, token, minted, opened>> /\ \A t \in Tickets : tickets'[t] = Gone
      BY <1>3 DEF Restart, NoTickets
    <2>3. \A i \in DOMAIN opened : opened[i].of \in Tickets
      BY OpenedType
    <2> QED
      BY <2>1, <2>2, <2>3 DEF TicketHolds, Redeemed
  <1>4. CASE WorldStep
    BY <1>3, <1>4, TicketsRest
    DEF WorldStep, Tick, Reinstall, RotateKey, Redeeming, At
  <1>5. CASE UNCHANGED vars
    BY <1>5, TicketsRest DEF vars, Redeeming, At
  <1> QED
    BY <1>1, <1>2, <1>4, <1>5, <1>6, NextSplit

\* and a request goes on past the lookup when the session is there,
LEMMA NextLookedUp == TypeInv /\ TicketHolds /\ LookedUp /\ [Next]_vars => LookedUp'
  <1> SUFFICES ASSUME TypeInv, TicketHolds, LookedUp, [Next]_vars PROVE LookedUp'
    OBVIOUS
  <1>1. ASSUME \A p \in Procs : req'[p] = req[p] \/ req'[p].step # "member" \/ req'[p].stored
        PROVE  LookedUp'
    BY <1>1 DEF LookedUp, At
  <1>2. ASSUME NEW p \in Procs, TicketStep(p) \/ MemberStep(p) \/ TokenStep(p) \/ KeyStep(p)
        PROVE  LookedUp'
    <2>1. \A q \in Procs : q # p => req'[q] = req[q]
      BY <1>2, StepRequest DEF TypeInv
    <2>2. CASE LookUpSession(p)
      <3>1. req[p] \in TicketRequests /\ Redeeming(p)
        BY <2>2, RequestKinds DEF LookUpSession, At, TypeInv, Redeeming
      <3>2. CASE token[req[p].of] \in sessions
        <4>1. req[p].stored
          BY <3>1, <3>2 DEF TicketHolds, Redeemed
        <4>2. [req[p] EXCEPT !.step = "member"].stored = req[p].stored
          BY <3>1 DEF TicketRequests
        <4>3. req'[p] = [req[p] EXCEPT !.step = "member"]
          BY <2>2, <3>2 DEF LookUpSession, Goto, TypeInv
        <4> QED
          BY <1>1, <2>1, <4>1, <4>2, <4>3
      <3>3. CASE token[req[p].of] \notin sessions
        BY <1>1, <2>1, <2>2, <3>3 DEF LookUpSession, Done, Goto, Resting, TypeInv
      <3> QED
        BY <3>2, <3>3
    <2>3. CASE AskTicket(p) \/ Accept(p) \/ \E t \in Tickets : Issue(p, t) \/ Consume(p, t)
      BY <1>1, <2>1, <2>3 DEF AskTicket, Accept, Issue, Consume, Begin, Done, Goto, Resting, TypeInv
    <2>4. CASE MemberStep(p) \/ TokenStep(p) \/ KeyStep(p)
      BY <1>1, <2>1, <2>4, BesideTickets, MemberMoves
    <2> QED
      BY <1>2, <2>2, <2>3, <2>4 DEF TicketStep
  <1>3. CASE Restart
    BY <1>1, <1>3 DEF Restart, AllRest, Resting
  <1>4. CASE WorldStep \/ UNCHANGED vars
    BY <1>1, <1>3, <1>4 DEF WorldStep, Tick, Reinstall, RotateKey, vars
  <1> QED
    BY <1>2, <1>4, NextSplit

-----------------------------------------------------------------------------
(* Tokens.                                                                  *)

\* of the tokens,
LEMMA NextTokens == TypeInv /\ TokenHolds /\ [Next]_vars => TokenHolds'
  <1> SUFFICES ASSUME TypeInv, TokenHolds, [Next]_vars PROVE TokenHolds'
    OBVIOUS
  <1> DEFINE Good(r) == r.step \in {"keep", "call"} => r.at + Margin < r.expires
  <1>1. ASSUME NEW p \in Procs, NEW r \in Requests, Good(r), req' = req \/ req' = [req EXCEPT ![p] = r]
        PROVE  TokenHolds'
    BY <1>1, NextRequest DEF TypeInv, TokenHolds, At
  <1>2. ASSUME NEW p \in Procs, TicketStep(p) \/ KeyStep(p) PROVE TokenHolds'
    <2>1. PICK r \in Requests : req' = req \/ req' = [req EXCEPT ![p] = r]
      BY <1>2, StepRequest
    <2>2. CASE req' = req
      BY <2>2 DEF TokenHolds, At
    <2>3. CASE req' # req
      <3>1. req'[p].step \notin {"keep", "call"}
        <4> USE DEF At, Begin, Goto, Done, Resting, WithKey, TypeInv
        <4>1. CASE AskTicket(p) \/ Accept(p)
          BY <4>1 DEF AskTicket, Accept
        <4>2. CASE LookUpSession(p)
          <5>1. req[p] \in TicketRequests
            BY <4>2, RequestKinds DEF LookUpSession
          <5> QED
            BY <4>2, <5>1 DEF LookUpSession, TicketRequests
        <4>3. CASE \E t \in Tickets : Issue(p, t) \/ Consume(p, t)
          BY <2>3, <4>3 DEF Issue, Consume
        <4>4. CASE AskKeys(p) \/ Verify(p)
          BY <4>4 DEF AskKeys, Verify
        <4>5. CASE Refresh(p) \/ Fetch(p) \/ KeepKeys(p)
          BY <4>5 DEF Refresh, Fetch, KeepKeys
        <4> QED
          BY <1>2, <4>1, <4>2, <4>3, <4>4, <4>5 DEF TicketStep, KeyStep
      <3>2. \A q \in Procs : q # p => req'[q] = req[q]
        BY <2>1, NextRequest DEF TypeInv
      <3> QED
        BY <3>1, <3>2 DEF TokenHolds, At
    <2> QED
      BY <2>2, <2>3
  <1>6. ASSUME NEW p \in Procs, MemberStep(p) PROVE TokenHolds'
    BY <1>6, MemberMoves DEF TokenHolds, At
  <1>3. ASSUME NEW p \in Procs, TokenStep(p) PROVE TokenHolds'
    <2>1. PICK r \in Requests : req' = req \/ req' = [req EXCEPT ![p] = r]
      BY <1>3, StepRequest
    <2>2. \A q \in Procs : q # p => req'[q] = req[q]
      BY <2>1, NextRequest DEF TypeInv
    <2>3. Good(req'[p])
      <3> USE DEF At, Begin, Goto, Done, Resting, TypeInv
      <3>1. CASE AskInstallation(p) \/ LookUpInstallation(p) \/ CallGitHub(p)
        BY <3>1 DEF AskInstallation, LookUpInstallation, CallGitHub
      <3>2. CASE NoteInstallation(p)
        <4>1. req[p] \in InstRequests
          BY <3>2, RequestKinds DEF NoteInstallation
        <4> QED
          BY <3>2, <4>1 DEF NoteInstallation, InstRequests
      <3>3. CASE ReadToken(p)
        <4>1. req[p] \in InstRequests
          BY <3>3, RequestKinds DEF ReadToken
        <4>2. [req[p] EXCEPT !.step = "mint"].step = "mint"
          BY <4>1 DEF InstRequests
        <4> DEFINE expires == tokens[req[p].inst]
        <4>3. CASE expires # 0 /\ FreshToken(expires)
          <5>1. req'[p] = [step |-> "call", inst |-> req[p].inst, expires |-> expires, at |-> now]
            BY <3>3, <4>3 DEF ReadToken
          <5>2. now + Margin < expires
            BY <4>3 DEF FreshToken
          <5> QED
            BY <5>1, <5>2
        <4>4. CASE ~(expires # 0 /\ FreshToken(expires))
          <5>1. req'[p] = [req[p] EXCEPT !.step = "mint"]
            BY <3>3, <4>4 DEF ReadToken
          <5> QED
            BY <4>2, <5>1
        <4> QED
          BY <4>3, <4>4
      <3>4. CASE MintToken(p)
        <4>1. now \in Nat /\ Margin \in Nat
          BY Numbers
        <4>2. \A life \in Lives : now + Margin < now + life
          BY <4>1, CredentialsAssumption DEF CredentialsAssumption
        <4> QED
          BY <3>4, <4>2 DEF MintToken
      <3>5. CASE KeepToken(p)
        <4>1. req[p] \in TokenRequests /\ req[p].at + Margin < req[p].expires
          BY <3>5, RequestKinds DEF KeepToken, TokenHolds
        <4> QED
          BY <3>5, <4>1 DEF KeepToken, TokenRequests
      <3> QED
        BY <1>3, <3>1, <3>2, <3>3, <3>4, <3>5 DEF TokenStep
    <2> QED
      BY <2>2, <2>3 DEF TokenHolds, At
  <1>4. CASE Restart
    BY <1>4 DEF Restart, AllRest, Resting, TokenHolds, At
  <1>5. CASE WorldStep \/ UNCHANGED vars
    BY <1>4, <1>5
    DEF WorldStep, Tick, Reinstall, RotateKey, vars, TokenHolds, At
  <1> QED
    BY <1>2, <1>3, <1>5, <1>6, NextSplit

-----------------------------------------------------------------------------
(* Keys.                                                                    *)

\* Steps that fetch nothing: time may pass.
LEMMA KeysRest ==
  ASSUME TypeInv, TypeInv', KeysHold, UNCHANGED <<jwks, fetched>>, now' \in {now, now + 1},
         \A p \in Procs : At(p, "fetch")' \/ At(p, "keys")' => fetching' = p,
         fetching' # Nobody => fetching' = fetching \/ ~Fresh
  PROVE  KeysHold'
  <1>1. jwks.at \in Nat /\ now \in Nat /\ KeyTTL \in Nat
    BY Numbers DEF TypeInv, KeyTypes
  <1>2. ~Fresh => ~Fresh'
    BY <1>1 DEF Fresh
  <1> QED
    BY <1>1, <1>2 DEF KeysHold, KeysFetchedOnce

\* and of the keys.
LEMMA NextKeys == TypeInv /\ KeysHold /\ [Next]_vars => KeysHold'
  <1> SUFFICES ASSUME TypeInv, KeysHold, [Next]_vars PROVE KeysHold'
    OBVIOUS
  <1> USE DEF keyVars
  <1>0. TypeInv'
    BY NextType
  <1>1. ASSUME NEW p \in Procs, TicketStep(p) \/ TokenStep(p) PROVE KeysHold'
    <2>1. UNCHANGED <<now, keyVars>>
      BY <1>1 DEF TicketStep, TokenStep, AskTicket, LookUpSession, Accept, Issue, Consume,
                  AskInstallation, LookUpInstallation, NoteInstallation, ReadToken, MintToken,
                  KeepToken, CallGitHub
    <2>2. PICK r \in Requests : req' = req \/ req' = [req EXCEPT ![p] = r]
      BY <1>1, StepRequest
    <2>3. \A q \in Procs : q # p => req'[q] = req[q]
      BY <2>2, NextRequest DEF TypeInv
    <2>4. req' = req \/ req'[p].step \notin {"fetch", "keys"}
      <3> USE DEF At, Begin, Goto, Done, Resting, TypeInv
      <3>1. CASE AskTicket(p) \/ Accept(p) \/ \E t \in Tickets : Issue(p, t) \/ Consume(p, t)
        BY <3>1 DEF AskTicket, Accept, Issue, Consume
      <3>2. CASE LookUpSession(p)
        <4>1. req[p] \in TicketRequests
          BY <3>2, RequestKinds DEF LookUpSession
        <4> QED
          BY <3>2, <4>1 DEF LookUpSession, TicketRequests
      <3>3. CASE AskInstallation(p) \/ LookUpInstallation(p) \/ CallGitHub(p) \/ MintToken(p)
        BY <3>3 DEF AskInstallation, LookUpInstallation, CallGitHub, MintToken
      <3>4. CASE NoteInstallation(p) \/ ReadToken(p)
        <4>1. req[p] \in InstRequests
          BY <3>4, RequestKinds DEF NoteInstallation, ReadToken
        <4> QED
          BY <3>4, <4>1 DEF NoteInstallation, ReadToken, InstRequests
      <3>5. CASE KeepToken(p)
        <4>1. req[p] \in TokenRequests
          BY <3>5, RequestKinds DEF KeepToken
        <4> QED
          BY <3>5, <4>1 DEF KeepToken, TokenRequests
      <3> QED
        BY <1>1, <3>1, <3>2, <3>3, <3>4, <3>5 DEF TicketStep, TokenStep
    <2> QED
      BY <1>0, <2>1, <2>3, <2>4, KeysRest DEF KeysHold, At
  <1>8. ASSUME NEW p \in Procs, MemberStep(p) PROVE KeysHold'
    <2>1. /\ UNCHANGED <<now, keyVars>> /\ req'[p].step \in {"none", "delete", "clean", "create"}
          /\ \A q \in Procs : q # p => req'[q] = req[q]
      BY <1>8, MemberMoves DEF BesideMember
    <2> QED
      BY <1>0, <2>1, KeysRest DEF KeysHold, At
  <1>2. ASSUME NEW p \in Procs, AskKeys(p) \/ Verify(p) PROVE KeysHold'
    <2>1. UNCHANGED <<now, keyVars>> /\ req'[p].step \in {"none", "verify", "refresh"}
          /\ \A q \in Procs : q # p => req'[q] = req[q]
      BY <1>2 DEF AskKeys, Verify, Begin, Done, Goto, WithKey, Resting, TypeInv
    <2> QED
      BY <1>0, <2>1, KeysRest DEF KeysHold, At
  <1>3. ASSUME NEW p \in Procs, Refresh(p) PROVE KeysHold'
    <2>1. /\ UNCHANGED <<now, jwks, fetched>> /\ fetching = Nobody
          /\ \A q \in Procs : q # p => req'[q] = req[q]
          /\ \/ ~Fresh /\ fetching' = p /\ req'[p].step = "fetch"
             \/ fetching' = fetching /\ req'[p].step = "verify"
      BY <1>3 DEF Refresh, StillStale, Goto, WithKey, TypeInv
    <2>2. \A q \in Procs : q # p => ~At(q, "fetch") /\ ~At(q, "keys")
      BY <2>1, CredentialsAssumption DEF CredentialsAssumption, KeysHold, Nobody
    <2> QED
      BY <1>0, <2>1, <2>2, KeysRest DEF At
  <1>4. ASSUME NEW p \in Procs, Fetch(p) PROVE KeysHold'
    <2>1. /\ UNCHANGED <<now, jwks, fetched>> /\ fetching = p
          /\ \A q \in Procs : q # p => req'[q] = req[q]
          /\ \/ fetching' = fetching /\ req'[p].step = "keys"
             \/ fetching' = Nobody /\ req'[p].step = "none"
      BY <1>4 DEF Fetch, Goto, Done, Resting, TypeInv, KeysHold
    <2>2. \A q \in Procs : q # p => ~At(q, "fetch") /\ ~At(q, "keys")
      BY <2>1 DEF KeysHold
    <2> QED
      BY <1>0, <2>1, <2>2, KeysRest DEF At
  <1>5. ASSUME NEW p \in Procs, KeepKeys(p) PROVE KeysHold'
    <2>1. /\ now' = now /\ fetching = p /\ fetching' = Nobody
          /\ jwks' = [key |-> req[p].key, at |-> now] /\ fetched' = Append(fetched, now)
          /\ req'[p].step = "verify" /\ \A q \in Procs : q # p => req'[q] = req[q]
      BY <1>5 DEF KeepKeys, Goto, WithKey, TypeInv, KeysHold, At
    <2>2. \A q \in Procs : ~At(q, "fetch")' /\ ~At(q, "keys")'
      BY <2>1 DEF KeysHold, At
    <2>3. req[p].key # 0 /\ now \in Nat /\ KeyTTL \in Nat /\ jwks.at \in Nat /\ jwks.at <= now
      BY <1>5, Numbers, RequestKinds DEF KeepKeys, At, TypeInv, KeyTypes, KeysHold
    <2>4. ~Fresh
      BY <2>1, CredentialsAssumption DEF CredentialsAssumption, KeysHold, Nobody
    <2>5. fetched # <<>> => now - fetched[Len(fetched)] >= KeyTTL
      BY <2>3, <2>4 DEF Fresh, KeysHold
    <2>6. /\ fetched \in Seq(Nat) /\ Len(fetched) \in Nat /\ DOMAIN fetched = 1 .. Len(fetched)
          /\ DOMAIN fetched' = 1 .. Len(fetched) + 1 /\ Len(fetched') = Len(fetched) + 1
          /\ fetched'[Len(fetched) + 1] = now
          /\ \A i \in DOMAIN fetched : fetched[i] \in Nat /\ fetched'[i] = fetched[i]
      BY <2>1 DEF TypeInv, KeyTypes
    <2>7. \A i \in DOMAIN fetched : now - fetched[i] >= KeyTTL
      <3> SUFFICES ASSUME NEW i \in DOMAIN fetched PROVE now - fetched[i] >= KeyTTL
        OBVIOUS
      <3>1. Len(fetched) \in DOMAIN fetched /\ fetched # <<>> /\ i <= Len(fetched)
        BY <2>6
      <3>2. i < Len(fetched) => fetched[Len(fetched)] - fetched[i] >= KeyTTL
        BY <3>1 DEF KeysHold, KeysFetchedOnce
      <3> QED
        BY <2>3, <2>5, <2>6, <3>1, <3>2
    <2>8. KeysFetchedOnce'
      <3> SUFFICES ASSUME NEW i \in DOMAIN fetched', NEW j \in DOMAIN fetched', i < j
                   PROVE  fetched'[j] - fetched'[i] >= KeyTTL
        BY DEF KeysFetchedOnce
      <3>1. i \in DOMAIN fetched /\ (j \in DOMAIN fetched \/ j = Len(fetched) + 1)
        BY <2>6
      <3> QED
        BY <2>6, <2>7, <3>1 DEF KeysHold, KeysFetchedOnce
    <2>9. jwks'.key # 0 /\ jwks'.at = now /\ fetched'[Len(fetched')] = now
      BY <2>1, <2>3, <2>6
    <2> QED
      BY <2>1, <2>2, <2>3, <2>8, <2>9 DEF KeysHold
  <1>6. CASE Restart
    <2>1. /\ \A p \in Procs : req'[p].step = "none"
          /\ jwks'.at = 0 /\ fetching' = Nobody /\ fetched' = <<>> /\ now' = now
      BY <1>6 DEF Restart, AllRest, Resting, Empty
    <2>2. now \in Nat
      BY Numbers DEF TypeInv
    <2> QED
      BY <2>1, <2>2 DEF KeysHold, KeysFetchedOnce, At
  <1>7. CASE WorldStep \/ UNCHANGED vars
    BY <1>0, <1>6, <1>7, KeysRest
    DEF WorldStep, Tick, Reinstall, RotateKey, vars, KeysHold, At
  <1> QED
    BY <1>1, <1>2, <1>3, <1>4, <1>5, <1>7, <1>8, NextSplit DEF KeyStep

-----------------------------------------------------------------------------
\* So all of it holds always.
LEMMA Inductive == Spec => []IInv
  <1>1. IInv /\ [Next]_vars => IInv'
    BY NextType, NextKnown, NextTickets, NextLookedUp, NextTokens, NextKeys DEF IInv
  <1> QED
    BY <1>1, InitHolds, PTL DEF Spec

\* A ticket opens at most one socket, within its time, and only if the session it
\* was issued to was stored when it was redeemed, however many requests bring it at
\* once and however often the member is kicked and joins again meanwhile, with
\* failures and restarts in between (wsticket.go:36-38).
THEOREM TicketOpensOneSocket == Spec => []TicketOnce
  <1>1. IInv => TicketOnce
    BY DEF IInv, TicketHolds, Redeemed, TicketOnce
  <1> QED
    BY <1>1, Inductive, PTL

\* No request calls GitHub with a token that ran out while it was at hand for less
\* than Margin, and concurrent logins fetch the keys once per KeyTTL
\* (github_app.go:78-83, jwks.go:50-55).
THEOREM CachesServeWhatHolds == Spec => []CachesHold
  <1>1. IInv => TokenAlive
    <2> SUFFICES ASSUME IInv, NEW p \in Procs, At(p, "call"), now - req[p].at < Margin
                 PROVE  now < req[p].expires
      BY DEF TokenAlive
    <2>1. req[p].at \in Nat /\ req[p].expires \in Nat /\ now \in Nat /\ Margin \in Nat
      BY Numbers, RequestKinds DEF IInv, TypeInv, At, TokenRequests
    <2>2. req[p].at + Margin < req[p].expires
      BY DEF IInv, TokenHolds
    <2> QED
      BY <2>1, <2>2
  <1>2. IInv => KeysFetchedOnce
    BY DEF IInv, KeysHold
  <1>3. IInv => CachesHold
    BY <1>1, <1>2 DEF CachesHold
  <1> QED
    BY <1>3, Inductive, PTL

=============================================================================
