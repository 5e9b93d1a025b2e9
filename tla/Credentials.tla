----------------------------- MODULE Credentials -----------------------------
(***************************************************************************)
(* Credentials the server keeps for a while: tickets that a browser trades *)
(* for one socket (server/wsticket.go, ws.go), installation tokens of the  *)
(* GitHub App (triggers/github_app.go) and the identity provider's public  *)
(* keys (auth/jwks.go).  All of it is memory of the process.  A step is    *)
(* one critical section, one store call or one call of a provider; there   *)
(* is one member, who may be kicked and join again, one repository and one *)
(* provider of keys.                                                       *)
(***************************************************************************)
EXTENDS Naturals, Sequences

CONSTANTS
  Procs, Tickets,
  TicketTTL,
  Lives, Margin,     \* life times GitHub may give a token; distance kept from its end
  KeyTTL,
  MaxChange,         \* bound: installations and keys that follow one another
  MaxTime, MaxCalls  \* bounds: the clock, requests

ASSUME CredentialsAssumption ==
  /\ {TicketTTL, Margin, KeyTTL} \subseteq Nat \ {0}
  /\ Lives \subseteq Nat /\ \A life \in Lives : life > Margin
  /\ MaxTime \in Nat /\ MaxChange \in Nat \ {0}
  /\ "nobody" \notin Procs

VARIABLES
  now, calls,  \* the clock; bound: requests so far
  req,         \* requests under way
  row,         \* the store: is the member's row there?
  sessions,    \* the store: the member's sessions
  created,     \* session tokens given out, the newest
  tickets,     \* ticketStore.entries: when a ticket expires
  token,       \* and the session token it stands for
  minted,      \* history: when a ticket was issued, Never for one not issued yet
  opened,      \* history: tickets that opened a socket
  app,         \* the App's installation at GitHub (external)
  known,       \* appTokens.installations, 0 for none
  tokens,      \* appTokens.tokens: when the token of an installation expires, 0 for none
  key,         \* the provider's key (external)
  jwks,        \* jwksCache: the key and when it was fetched
  fetching,    \* who holds jwksCache.mu for a fetch, or Nobody
  fetched      \* history: when a fetch filled the cache

memberVars == <<row, sessions, created>>
ticketVars == <<memberVars, tickets, token, minted, opened>>
tokenVars  == <<app, known, tokens>>
keyVars    == <<key, jwks, fetching, fetched>>
vars == <<now, calls, req, ticketVars, tokenVars, keyVars>>

Never   == MaxTime + 1   \* no time stamp
Gone    == MaxTime + TicketTTL + 1   \* no entry
Nobody  == "nobody"
Resting == [step |-> "none"]
Empty   == [key |-> 0, at |-> 0]

-----------------------------------------------------------------------------
Begin(p, r) ==
  /\ req[p] = Resting /\ calls < MaxCalls
  /\ calls' = calls + 1 /\ req' = [req EXCEPT ![p] = r]

At(p, step) == req[p].step = step
Goto(p, r)  == req' = [req EXCEPT ![p] = r] /\ UNCHANGED calls
Done(p)     == Goto(p, Resting)

-----------------------------------------------------------------------------
(* Tickets.                                                                *)

\* issueWSTicket: the bearer's session is there.
AskTicket(p) ==
  /\ \E s \in sessions : Begin(p, [step |-> "issue", session |-> s])
  /\ UNCHANGED <<now, ticketVars, tokenVars, keyVars>>

Expired(t) == now > tickets[t]

\* issue: a new ticket, and the expired ones are swept.
Issue(p, t) ==
  /\ At(p, "issue") /\ minted[t] = Never
  /\ tickets' = [u \in Tickets |-> IF u = t THEN now + TicketTTL ELSE IF Expired(u) THEN Gone ELSE tickets[u]]
  /\ token' = [token EXCEPT ![t] = req[p].session] /\ minted' = [minted EXCEPT ![t] = now]
  /\ Done(p)
  /\ UNCHANGED <<now, memberVars, opened, tokenVars, keyVars>>

\* Wrong version: the entry of a ticket that is good stays.
RemovedIfExpired(t) == IF Expired(t) THEN [tickets EXCEPT ![t] = Gone] ELSE tickets

Removed(t) == [tickets EXCEPT ![t] = Gone]

\* consume; serveWS answers 401 for a ticket that is unknown, used or expired.
Consume(p, t) ==
  /\ tickets[t] # Gone /\ tickets' = Removed(t)
  /\ IF Expired(t) THEN UNCHANGED <<req, calls>>
     ELSE Begin(p, [step |-> "session", of |-> t, at |-> now, stored |-> token[t] \in sessions])
  /\ UNCHANGED <<now, memberVars, token, minted, opened, tokenVars, keyVars>>

LookUpSession(p) ==
  /\ At(p, "session")
  /\ IF token[req[p].of] \in sessions THEN Goto(p, [req[p] EXCEPT !.step = "member"]) ELSE Done(p)
  /\ UNCHANGED <<now, ticketVars, tokenVars, keyVars>>

\* The member's row is read, and the socket is accepted.
Accept(p) ==
  /\ At(p, "member") /\ Done(p)
  /\ opened' = IF row THEN Append(opened, req[p]) ELSE opened
  /\ UNCHANGED <<now, memberVars, tickets, token, minted, tokenVars, keyVars>>

-----------------------------------------------------------------------------
(* The member is kicked and joins again.                                   *)

BesideMember == <<now, tickets, token, minted, opened, tokenVars, keyVars>>

\* kickMember, of a member whose row is there.
Kick(p) ==
  /\ row /\ Begin(p, [step |-> "delete"])
  /\ UNCHANGED <<memberVars, BesideMember>>

\* The row is deleted, unless the store fails; then nothing else is.
DeleteRow(p) ==
  /\ At(p, "delete")
  /\ \/ row' = FALSE /\ Goto(p, [step |-> "clean"])
     \/ Done(p) /\ UNCHANGED row
  /\ UNCHANGED <<sessions, created, BesideMember>>

\* All sessions of the member; a failure is logged and left at that.
DeleteSessions(p) ==
  /\ At(p, "clean") /\ Done(p)
  /\ sessions' \in {{}, sessions}
  /\ UNCHANGED <<row, created, BesideMember>>

\* joinAsAuthed, under the identity the member had.
Join(p) ==
  /\ row' = TRUE /\ Begin(p, [step |-> "create"])
  /\ UNCHANGED <<sessions, created, BesideMember>>

\* respondJoined: a session under a new token, unless the store fails.
CreateSession(p) ==
  /\ At(p, "create") /\ Done(p)
  /\ created' = created + 1 /\ sessions' \in {sessions, sessions \cup {created'}}
  /\ UNCHANGED <<row, BesideMember>>

-----------------------------------------------------------------------------
(* Tokens of the GitHub App.                                               *)

\* githubToken for a dispatch or a reaction: the installation, if it is known.
AskInstallation(p) ==
  /\ Begin(p, IF known # 0 THEN [step |-> "token", inst |-> known] ELSE [step |-> "lookup"])
  /\ UNCHANGED <<now, ticketVars, tokenVars, keyVars>>

LookUpInstallation(p) ==
  /\ At(p, "lookup")
  /\ Goto(p, [step |-> "note", inst |-> app]) \/ Done(p)   \* the call fails
  /\ UNCHANGED <<now, ticketVars, tokenVars, keyVars>>

NoteInstallation(p) ==
  /\ At(p, "note") /\ known' = req[p].inst
  /\ Goto(p, [req[p] EXCEPT !.step = "token"])
  /\ UNCHANGED <<now, ticketVars, app, tokens, keyVars>>

FreshToken(expires) == now + Margin < expires

ReadToken(p) ==
  LET expires == tokens[req[p].inst] IN
  /\ At(p, "token")
  /\ Goto(p, IF expires # 0 /\ FreshToken(expires)
             THEN [step |-> "call", inst |-> req[p].inst, expires |-> expires, at |-> now]
             ELSE [req[p] EXCEPT !.step = "mint"])
  /\ UNCHANGED <<now, ticketVars, tokenVars, keyVars>>

\* GitHub refuses an installation that is gone.
MintToken(p) ==
  /\ At(p, "mint")
  /\ \/ req[p].inst = app /\ \E life \in Lives :
          Goto(p, [step |-> "keep", inst |-> app, expires |-> now + life, at |-> now])
     \/ Done(p)
  /\ UNCHANGED <<now, ticketVars, tokenVars, keyVars>>

\* The last to come back leaves its token.
KeepToken(p) ==
  /\ At(p, "keep") /\ tokens' = [tokens EXCEPT ![req[p].inst] = req[p].expires]
  /\ Goto(p, [req[p] EXCEPT !.step = "call"])
  /\ UNCHANGED <<now, ticketVars, app, known, keyVars>>

\* dispatchGitHub or ReactEyes, with the token.
CallGitHub(p) ==
  /\ At(p, "call") /\ Done(p)
  /\ UNCHANGED <<now, ticketVars, tokenVars, keyVars>>

Reinstall ==
  /\ app < MaxChange /\ app' = app + 1
  /\ UNCHANGED <<now, calls, req, ticketVars, known, tokens, keyVars>>

-----------------------------------------------------------------------------
(* Keys of the identity provider.                                          *)

Fresh == jwks.key # 0 /\ now - jwks.at < KeyTTL

WithKey(k) == [step |-> "verify", key |-> k, at |-> now]

\* rsaKeys, under the read lock.
AskKeys(p) ==
  /\ fetching = Nobody
  /\ Begin(p, IF Fresh THEN WithKey(jwks.key) ELSE [step |-> "refresh"])
  /\ UNCHANGED <<now, ticketVars, tokenVars, keyVars>>

\* Wrong version: whoever found the cache stale fetches.
StillStaleAlways == TRUE

StillStale == ~Fresh

\* refresh takes the lock, looks again and keeps the lock while it fetches.
Refresh(p) ==
  /\ At(p, "refresh") /\ fetching = Nobody
  /\ IF StillStale
     THEN fetching' = p /\ Goto(p, [step |-> "fetch"])
     ELSE Goto(p, WithKey(jwks.key)) /\ UNCHANGED fetching
  /\ UNCHANGED <<now, ticketVars, tokenVars, key, jwks, fetched>>

\* The provider answers; a failure is the request's, and the old key stays unused.
Fetch(p) ==
  /\ At(p, "fetch")
  /\ \/ Goto(p, [step |-> "keys", key |-> key]) /\ UNCHANGED fetching
     \/ Done(p) /\ fetching' = Nobody
  /\ UNCHANGED <<now, ticketVars, tokenVars, key, jwks, fetched>>

KeepKeys(p) ==
  /\ At(p, "keys") /\ fetching' = Nobody
  /\ jwks' = [key |-> req[p].key, at |-> now] /\ fetched' = Append(fetched, now)
  /\ Goto(p, WithKey(req[p].key))
  /\ UNCHANGED <<now, ticketVars, tokenVars, key>>

\* validateToken: a token is good when it was signed with the key at hand.
Verify(p) ==
  /\ At(p, "verify") /\ Done(p)
  /\ UNCHANGED <<now, ticketVars, tokenVars, keyVars>>

RotateKey ==
  /\ key < MaxChange /\ key' = key + 1
  /\ UNCHANGED <<now, calls, req, ticketVars, tokenVars, jwks, fetching, fetched>>

-----------------------------------------------------------------------------
Tick ==
  /\ now < MaxTime /\ now' = now + 1
  /\ UNCHANGED <<calls, req, ticketVars, tokenVars, keyVars>>

NoTickets == [t \in Tickets |-> Gone]
NoTokens  == [i \in 1 .. MaxChange |-> 0]
AllRest   == [p \in Procs |-> Resting]

\* Row and sessions are stored; a ticket is not issued again, nor is a token.
Restart ==
  /\ req' = AllRest /\ tickets' = NoTickets /\ known' = 0 /\ tokens' = NoTokens
  /\ jwks' = Empty /\ fetching' = Nobody /\ fetched' = <<>>
  /\ UNCHANGED <<now, calls, memberVars, token, minted, opened, app, key>>

Init ==
  /\ now = 0 /\ calls = 0 /\ req = AllRest
  /\ row = TRUE /\ sessions = {0} /\ created = 0
  /\ tickets = NoTickets /\ token = [t \in Tickets |-> 0] /\ minted = [t \in Tickets |-> Never] /\ opened = <<>>
  /\ app = 1 /\ known = 0 /\ tokens = NoTokens
  /\ key = 1 /\ jwks = Empty /\ fetching = Nobody /\ fetched = <<>>

Next ==
  \/ Tick \/ Restart \/ Reinstall \/ RotateKey
  \/ \E p \in Procs :
       \/ AskTicket(p) \/ LookUpSession(p) \/ Accept(p)
       \/ \E t \in Tickets : Issue(p, t) \/ Consume(p, t)
       \/ Kick(p) \/ DeleteRow(p) \/ DeleteSessions(p) \/ Join(p) \/ CreateSession(p)
       \/ AskInstallation(p) \/ LookUpInstallation(p) \/ NoteInstallation(p)
       \/ ReadToken(p) \/ MintToken(p) \/ KeepToken(p) \/ CallGitHub(p)
       \/ AskKeys(p) \/ Refresh(p) \/ Fetch(p) \/ KeepKeys(p) \/ Verify(p)

Spec == Init /\ [][Next]_vars

-----------------------------------------------------------------------------
\* A ticket opens at most one socket, however many requests bring it at once; it
\* was redeemed within its time of being issued, and while the session it was
\* issued to was stored (wsticket.go:36-38, ws.go:27-29): no ticket survives a kick
\* that deleted the sessions, whoever joins again under the same name and however
\* the request for it raced with the kick.  A kick that only deleted the row leaves
\* tickets that work once the member has joined again.
TicketOnce ==
  /\ \A i, j \in DOMAIN opened : opened[i].of = opened[j].of => i = j
  /\ \A i \in DOMAIN opened :
       opened[i].stored /\ opened[i].at - minted[opened[i].of] <= TicketTTL

\* A call of GitHub that starts within Margin of getting its token has one that is
\* still valid, though a slower request may have put an older token back into the
\* cache.  Not so once the App was installed anew: the installation is never asked
\* for again (github_app.go:78-83).
TokenAlive ==
  \A p \in Procs :
    At(p, "call") /\ now - req[p].at < Margin /\ req[p].inst = app => now < req[p].expires

\* However many logins find the keys stale together, one of them fetches: two
\* fetches that succeed are KeyTTL apart (jwks.go:50-55).
KeysFetchedOnce ==
  \A i, j \in DOMAIN fetched : i < j => fetched[j] - fetched[i] >= KeyTTL

CachesHold == TokenAlive /\ KeysFetchedOnce
=============================================================================
