----------------------------- MODULE AtLeastOnce -----------------------------
(***************************************************************************)
(* What the relay promises of an envelope it has accepted ("at-least-once, *)
(* dedup by id", docs/openapi.yaml:707): its id is taken for good, and it  *)
(* stays pending until the hub connection has had it, once or more.  The   *)
(* promise is one of memory: a restart forgets what is pending.            *)
(***************************************************************************)
CONSTANT Envelopes

VARIABLES
  taken,      \* ids that were accepted
  pending,    \* envelopes the relay still has to forward
  forwarded   \* envelopes the hub connection has had

abstractVars == <<taken, pending, forwarded>>

AInit ==
  /\ taken = {}
  /\ pending = {}
  /\ forwarded = {}

Accept(m) ==
  /\ m \notin taken
  /\ taken' = taken \cup {m}
  /\ pending' = pending \cup {m}
  /\ UNCHANGED forwarded

\* Forwarding may leave the envelope pending: the relay cannot always tell.
Forward(m) ==
  /\ m \in pending
  /\ forwarded' = forwarded \cup {m}
  /\ pending' \in {pending, pending \ {m}}
  /\ UNCHANGED taken

Forget ==
  /\ pending' = {}
  /\ UNCHANGED <<taken, forwarded>>

ANext ==
  \/ \E m \in Envelopes : Accept(m) \/ Forward(m)
  \/ Forget

ASpec == AInit /\ [][ANext]_abstractVars

=============================================================================
