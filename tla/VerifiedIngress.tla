-------------------------- MODULE VerifiedIngress --------------------------
(***************************************************************************)
(* receive(): one endpoint of one provider, served by several processes,   *)
(* some with the Python binding and some with another.  Every process      *)
(* checks requests with the secrets it has in memory; the events they      *)
(* store are in one database.  An app-local provider, or one that is set   *)
(* up with verification={...}, is served by the Python processes alone.    *)
(*                                                                         *)
(* The provider is part of the model: it sends an event as often as it     *)
(* likes, signed anew each time, and what it has sent may arrive late,     *)
(* several times, in any order, at any process, or not at all.  Meanwhile  *)
(* its secret is rotated.                                                  *)
(***************************************************************************)
EXTENDS InboxProperties, ProviderSchemes

CONSTANTS
  Receivers,         \* processes that serve the endpoint
  PythonReceivers,   \* those of them with the Python binding
  Providers,         \* names of the providers considered
  Objects,           \* what events are about: users, orders, calls
  EventsPerObject,   \* bound: how many events there are of each
  OldSecret, NewSecret,
  Tolerance,         \* tolerance_s
  MaxTime,           \* bound: how far the clock goes
  MaxSends           \* bound: how many requests the provider sends

ASSUME IngressAssumption ==
  /\ PythonReceivers \subseteq Receivers
  /\ Providers \subseteq DOMAIN PythonScheme
  /\ OldSecret # NewSecret
  /\ Tolerance \in Nat /\ MaxTime \in Nat /\ MaxSends \in Nat /\ EventsPerObject \in Nat

VARIABLES
  provider,   \* the provider of the endpoint
  now,        \* the clock
  signing,    \* the secrets the provider signs with, in the order of its header
  wire,       \* the requests it has sent
  secrets,    \* receiver -> the secrets given to add_endpoint, none before the first call
  origin      \* history: delivery -> the event the provider meant

providerVars == <<provider, signing, wire>>
ingressVars == <<inboxVars, providerVars, now, secrets, origin>>

\* An event of the provider; number 0 stands for the object itself.
Happening == Objects \X (1..EventsPerObject)
Identity == Objects \X (0..EventsPerObject)

\* One endpoint; and what a request can carry as its id can be a dedupe key.
ASSUME EndpointAssumption == \E n \in Endpoints : Endpoints = {n}
ASSUME KeysAssumption == Identity \subseteq Keys
NoStamp == -1
NoOrigin == NoKey

Signings == {<<OldSecret>>, <<OldSecret, NewSecret>>, <<NewSecret, OldSecret>>, <<NewSecret>>}
Configured == {<<OldSecret>>, <<OldSecret, NewSecret>>, <<NewSecret>>}
Request == [of : Happening, proofs : Signings, stamp : {NoStamp} \cup (0..MaxTime),
            shape : Shapes]

IngressInit ==
  /\ InboxInit
  /\ provider \in Providers
  /\ now = 0
  /\ signing = <<OldSecret>>
  /\ wire = {}
  /\ secrets = [r \in Receivers |-> <<>>]
  /\ origin = [d \in DeliveryId |-> NoOrigin]

Elements(s) == {s[i] : i \in DOMAIN s}

-----------------------------------------------------------------------------
(* What a receiver makes of a request.                                     *)

Serves(r) == r \in PythonReceivers \/ provider \in DOMAIN CoreScheme
SchemeOf(r) == IF r \in PythonReceivers THEN PythonScheme[provider] ELSE CoreScheme[provider]

ProofsRead(s, q) ==
  IF s.reads = "last" THEN {q.proofs[Len(q.proofs)]} ELSE Elements(q.proofs)

ProvenByFirst(s, q, known) ==     \* fault: only the first secret is tried
  known # <<>> /\ known[1] \in ProofsRead(s, q)

\* Some proof that is read was made with some secret that is known.
Proven(s, q, known) == Elements(known) \cap ProofsRead(s, q) # {}

Age(q) == IF now >= q.stamp THEN now - q.stamp ELSE q.stamp - now
Fresh(q) == Age(q) <= Tolerance

Timely(s, q) ==
  CASE s.clock = "none" -> TRUE
    [] s.clock = "present" -> q.stamp # NoStamp
    [] s.clock = "required" -> q.stamp # NoStamp /\ Fresh(q)
    [] s.clock = "ifReadable" -> q.stamp # NoStamp => Fresh(q)

Valid(r, q) ==
  LET s == SchemeOf(r)
  IN  q.shape \in s.shapes /\ Timely(s, q) /\ Proven(s, q, secrets[r])

\* The fields a request has, and what they say.
FieldsOf(q) == IF q.shape \in {"noDelivery", "notJson"} THEN {} ELSE Carries[provider]
FieldValue(q, f) == IF f \in ObjectFields THEN <<q.of[1], 0>> ELSE q.of

\* What is found in the first of these fields that the request has.
Extract(q, fields) ==
  LET found == {i \in DOMAIN fields : fields[i] \in FieldsOf(q)}
      first == CHOOSE i \in found : \A j \in found : i <= j
  IN  IF found = {} THEN NoKey ELSE FieldValue(q, fields[first])

KeyByName(s, q) ==                \* fault: the name of the field, not what it holds
  IF s.event # <<>> THEN s.event[1] ELSE Extract(q, s.delivery)

\* The dedupe key: the event's id, and only without one the delivery's.
ChosenDedupe(s, q) ==
  LET provider_event_id == Extract(q, s.event)
  IN  IF provider_event_id # NoKey THEN provider_event_id ELSE Extract(q, s.delivery)

KeyOf(r, q) == ChosenDedupe(SchemeOf(r), q)

-----------------------------------------------------------------------------
(* The processes.                                                          *)

AddEndpoint(r, known) ==
  /\ Serves(r)
  /\ \E n \in Endpoints : EndpointUpsert(n, TRUE)
  /\ secrets' = [secrets EXCEPT ![r] = known]
  /\ UNCHANGED <<providerVars, now, origin>>

\* A process registers the endpoint before it serves it.
Receive(r, q) ==
  /\ secrets[r] # <<>>
  /\ \E n \in Endpoints, t \in Kinds :
       IF Valid(r, q)
       THEN IngestDuplicate(n, KeyOf(r, q), t) \/ IngestNew(n, KeyOf(r, q), t)
       ELSE IngestInvalid(n, KeyOf(r, q), t)
  /\ origin' = [d \in DeliveryId |-> IF NextDeliveryId(d) THEN q.of ELSE origin[d]]
  /\ UNCHANGED <<providerVars, now, secrets>>

-----------------------------------------------------------------------------
(* The provider, and time.                                                 *)

\* Whether requests of the provider carry a time that can be read.
StampsSent ==
  CASE PythonScheme[provider].clock = "none" -> {NoStamp}
    [] PythonScheme[provider].clock \in {"required", "present"} -> {now}
    [] PythonScheme[provider].clock = "ifReadable" -> {NoStamp, now}

\* An event is sent, for the first time or again; what is sent again has the same shape.
Send(h) ==
  /\ Cardinality(wire) < MaxSends
  /\ \E stamp \in StampsSent, shape \in ShapesSent[provider] :
       /\ \A q \in wire : q.of = h => q.shape = shape
       /\ wire' = wire \cup {[of |-> h, proofs |-> signing, stamp |-> stamp, shape |-> shape]}
  /\ UNCHANGED <<inboxVars, provider, signing, now, secrets, origin>>

Tick ==
  /\ now < MaxTime
  /\ now' = now + 1
  /\ UNCHANGED <<inboxVars, providerVars, secrets, origin>>

-----------------------------------------------------------------------------
(* A rotation in the order the design asks for: every process knows both   *)
(* secrets before the provider uses the new one, and none forgets the old  *)
(* one while requests are under way that need it.                          *)

KnowsBoth(r) == secrets[r] = <<OldSecret, NewSecret>>

Configure(r) ==
  \/ secrets[r] = <<>> /\ AddEndpoint(r, <<OldSecret>>)
  \/ secrets[r] = <<OldSecret>> /\ AddEndpoint(r, <<OldSecret, NewSecret>>)
  \/ /\ KnowsBoth(r) /\ signing = <<NewSecret>>
     /\ \A q \in wire : q.proofs = <<NewSecret>>
     /\ AddEndpoint(r, <<NewSecret>>)

SwitchSecret ==
  /\ \A r \in Receivers : Serves(r) => KnowsBoth(r)
  /\ signing' \in Signings \ {signing, <<OldSecret>>}
  /\ signing # <<NewSecret>>
  /\ Len(signing') > 1 => provider \in SendsSeveralProofs
  /\ UNCHANGED <<inboxVars, provider, wire, now, secrets, origin>>

IngressNext ==
  \/ \E r \in Receivers : Configure(r)
  \/ \E r \in Receivers, q \in wire : Receive(r, q)
  \/ \E h \in Happening : Send(h)
  \/ SwitchSecret
  \/ Tick

IngressSpec == IngressInit /\ [][IngressNext]_ingressVars

-----------------------------------------------------------------------------
(* Properties.                                                             *)

\* Every variable keeps its type, and the deliveries with an origin are the stored ones.
IngressTypeOK ==
  /\ InboxTypeOK /\ QueueTypeOK
  /\ provider \in Providers /\ now \in 0..MaxTime /\ signing \in Signings
  /\ wire \subseteq Request
  /\ secrets \in [Receivers -> Configured \cup {<<>>}]
  /\ origin \in [DeliveryId -> Happening \cup {NoOrigin}]
  /\ \A d \in DeliveryId : Stored(d) <=> origin[d] # NoOrigin

Documented(q) == q.shape = "documented"
Late(q) == q.stamp # NoStamp /\ ~Fresh(q)
Linked(d) == Stored(d) /\ delivery[d].event # NoRef

\* A rotation loses nothing: whatever is under way would be accepted by any process that
\* serves the endpoint, however far each has come with its secrets, unless it is late.
RotationLosesNothing ==
  \A q \in wire, r \in Receivers :
    secrets[r] # <<>> /\ Documented(q) /\ ~Late(q) => Valid(r, q)

\* The sqlite-bindings page: every binding is doing the same thing.  A process with the
\* Python binding and one without accept the same documented requests, and take them for
\* the same event, at the time and with the secrets they have come to.
BindingsAgree ==
  \A q \in wire, r \in PythonReceivers, s \in Receivers \ PythonReceivers :
    Serves(s) /\ secrets[r] = secrets[s] /\ Documented(q) =>
      (Valid(r, q) <=> Valid(s, q)) /\ KeyOf(r, q) = KeyOf(s, q)

\* Provider retries do not duplicate business work: however often an event that has an id
\* is sent, and whoever receives it, at most one event is stored for it.
RetriesConverge ==
  \A c, d \in DeliveryId :
    Linked(c) /\ Linked(d) /\ origin[c] = origin[d] /\ delivery[c].key # NoKey =>
      delivery[c].event = delivery[d].event

\* event_key identifies one upstream business event: two events of the provider are never
\* stored as one, of which only the first would ever be handled.
EventsKeptApart ==
  \A c, d \in DeliveryId :
    Linked(c) /\ Linked(d) /\ origin[c] # origin[d] => delivery[c].event # delivery[d].event
=============================================================================
