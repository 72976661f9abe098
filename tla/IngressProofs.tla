--------------------------- MODULE IngressProofs ---------------------------
(***************************************************************************)
(* Verification, for every number of processes and requests, any tolerance *)
(* and any of the providers: a rotation loses nothing, and the two         *)
(* implementations of the checks agree on documented requests.             *)
(*                                                                         *)
(* Neither follows from the tables alone.  Whether a proof is recognised   *)
(* depends on the order in which the provider and the processes have gone  *)
(* through the rotation: the invariant says that what is signed or under   *)
(* way with the new secret is known to all, and that no process forgets    *)
(* the old one while something needs it.                                   *)
(***************************************************************************)
EXTENDS VerifiedIngress, InboxLemmas, SequenceTheorems

-----------------------------------------------------------------------------
(* The tables of schemes.                                                  *)

Clocks == {"none", "present", "required", "ifReadable"}

\* A scheme that documented requests can pass.
SchemeFits(s) ==
  /\ DOMAIN s = {"event", "delivery", "clock", "reads", "shapes"}
  /\ s.clock \in Clocks /\ s.reads \in {"every", "last"}
  /\ "documented" \in s.shapes

\* Every verifier of knocker_ops.rs has a scheme that fits.
LEMMA CoreFits == \A p \in DOMAIN CoreScheme : SchemeFits(CoreScheme[p])
<1> USE DEF SchemeFits, Clocks
<1>1. SchemeFits(Scheme) /\ SchemeFits(BodyId)
  BY DEF Scheme, BodyId
<1>2. SchemeFits(CoreGithub) /\ SchemeFits(CoreStripe) /\ SchemeFits(CoreShopify)
      /\ SchemeFits(CoreSlack)
  BY DEF Scheme, BodyId, CoreGithub, CoreStripe, CoreShopify, CoreSlack
<1>3. SchemeFits(CorePostmark) /\ SchemeFits(CoreResend) /\ SchemeFits(CorePaddle)
      /\ SchemeFits(CoreLemonSqueezy)
  BY DEF Scheme, CorePostmark, CoreResend, CorePaddle, CoreLemonSqueezy
<1>4. SchemeFits(CoreStandardWebhooks) /\ SchemeFits(CoreTwilio) /\ SchemeFits(CoreSendgrid)
      /\ SchemeFits(CoreLinear)
  BY DEF Scheme, CoreStandardWebhooks, CoreTwilio, CoreSendgrid, CoreLinear
<1>5. SchemeFits(CoreMeta) /\ SchemeFits(CoreDiscord) /\ SchemeFits(CoreZendesk)
      /\ SchemeFits(CoreIntercom) /\ SchemeFits(CoreHubspot)
  BY DEF Scheme, BodyId, CoreMeta, CoreDiscord, CoreZendesk, CoreIntercom, CoreHubspot
<1>6. SchemeFits(CoreTokenHeader) /\ SchemeFits(CoreBearerToken) /\ SchemeFits(CoreBasicAuth)
  BY <1>1 DEF CoreTokenHeader, CoreBearerToken, CoreBasicAuth
<1> HIDE DEF SchemeFits
<1>7. QED
  BY <1>2, <1>3, <1>4, <1>5, <1>6 DEF CoreScheme

\* The schemes of the Python binding, before extractors are merged in, and after.
LEMMA PythonFits ==
  \A p \in DOMAIN PythonScheme :
    /\ SchemeFits(PythonScheme[p]) /\ PythonScheme[p].reads = "every"
    /\ PythonScheme[p].clock = PythonVerifier[p].clock
<1>1. \A p \in DOMAIN PythonVerifier :
        SchemeFits(PythonVerifier[p]) /\ PythonVerifier[p].reads = "every"
  <2> DEFINE Good(s) == SchemeFits(s) /\ s.reads = "every"
  <2>1. Good(Scheme) /\ Good(BodyId)
    BY DEF Scheme, BodyId, SchemeFits, Clocks
  <2>2. Good(PyGithub) /\ Good(PyStripe) /\ Good(PyShopify) /\ Good(PySlack) /\ Good(PyPostmark)
    BY DEF Scheme, BodyId, PyGithub, CoreGithub, PyStripe, CoreStripe, PyShopify, CoreShopify,
           PySlack, CoreSlack, PyPostmark, CorePostmark, SchemeFits, Clocks
  <2>3. Good(PyResend) /\ Good(PyPaddle) /\ Good(PyLemonSqueezy) /\ Good(PyStandardWebhooks)
    BY DEF Scheme, PyResend, CoreResend, PyPaddle, CorePaddle, PyLemonSqueezy, CoreLemonSqueezy,
           PyStandardWebhooks, CoreStandardWebhooks, SchemeFits, Clocks
  <2>4. Good(PyTwilio) /\ Good(PySendgrid) /\ Good(PyLinear) /\ Good(PyHubspot)
    BY DEF Scheme, PyTwilio, CoreTwilio, PySendgrid, CoreSendgrid, PyLinear, CoreLinear,
           PyHubspot, CoreHubspot, SchemeFits, Clocks
  <2>5. Good(PyMeta) /\ Good(PyDiscord) /\ Good(PyZendesk) /\ Good(PyIntercom)
        /\ Good(LegacyHmac)
    BY DEF Scheme, BodyId, PyMeta, CoreMeta, PyDiscord, CoreDiscord, PyZendesk, CoreZendesk,
           PyIntercom, CoreIntercom, LegacyHmac, SchemeFits, Clocks
  <2>6. Good(PyTokenHeader) /\ Good(PyBearerToken) /\ Good(PyBasicAuth) /\ Good(AppLocal)
    BY <2>1 DEF PyTokenHeader, CoreTokenHeader, PyBearerToken, CoreBearerToken,
                PyBasicAuth, CoreBasicAuth, AppLocal
  <2> HIDE DEF Good
  <2>7. \A p \in DOMAIN PythonVerifier : Good(PythonVerifier[p])
    BY <2>2, <2>3, <2>4, <2>5, <2>6 DEF PythonVerifier
  <2>8. QED
    BY <2>7 DEF Good
<1>2. ASSUME NEW p \in DOMAIN PythonVerifier
      PROVE  /\ DOMAIN PythonScheme[p] = DOMAIN PythonVerifier[p]
             /\ \A f \in {"clock", "reads", "shapes"} : PythonScheme[p][f] = PythonVerifier[p][f]
  <2>1. DOMAIN PythonVerifier[p] = {"event", "delivery", "clock", "reads", "shapes"}
    BY <1>1 DEF SchemeFits
  <2>2. PICK a, b : PythonScheme[p] = [PythonVerifier[p] EXCEPT !.event = a, !.delivery = b]
    BY DEF PythonScheme
  <2>3. QED
    BY <2>1, <2>2
<1>3. DOMAIN PythonScheme = DOMAIN PythonVerifier
  BY DEF PythonScheme
<1>4. QED
  BY <1>1, <1>2, <1>3 DEF SchemeFits

\* Both implementations ask the same of a request's time.
LEMMA SameClock ==
  \A p \in DOMAIN CoreScheme :
    p \in DOMAIN PythonScheme /\ CoreScheme[p].clock = PythonScheme[p].clock
<1>1. \A p \in DOMAIN CoreScheme :
        p \in DOMAIN PythonVerifier /\ CoreScheme[p].clock = PythonVerifier[p].clock
  <2>1. /\ CoreGithub.clock = PyGithub.clock /\ CoreStripe.clock = PyStripe.clock
        /\ CoreShopify.clock = PyShopify.clock /\ CoreSlack.clock = PySlack.clock
        /\ CorePostmark.clock = PyPostmark.clock /\ CoreResend.clock = PyResend.clock
        /\ CorePaddle.clock = PyPaddle.clock /\ CoreLemonSqueezy.clock = PyLemonSqueezy.clock
        /\ CoreStandardWebhooks.clock = PyStandardWebhooks.clock
        /\ CoreTwilio.clock = PyTwilio.clock /\ CoreSendgrid.clock = PySendgrid.clock
        /\ CoreLinear.clock = PyLinear.clock /\ CoreMeta.clock = PyMeta.clock
        /\ CoreDiscord.clock = PyDiscord.clock /\ CoreZendesk.clock = PyZendesk.clock
        /\ CoreIntercom.clock = PyIntercom.clock /\ CoreHubspot.clock = PyHubspot.clock
        /\ CoreTokenHeader.clock = PyTokenHeader.clock
        /\ CoreBearerToken.clock = PyBearerToken.clock /\ CoreBasicAuth.clock = PyBasicAuth.clock
    BY DEF Scheme, BodyId, CoreGithub, PyGithub, PyStripe, PyShopify, PySlack, PyPostmark, PyResend,
           CorePaddle, PyPaddle, PyLemonSqueezy, PyStandardWebhooks, CoreTwilio, PyTwilio,
           CoreSendgrid, PySendgrid, CoreLinear, PyLinear, PyMeta, PyDiscord, PyZendesk,
           CoreIntercom, PyIntercom, CoreHubspot, PyHubspot, PyTokenHeader, PyBearerToken,
           PyBasicAuth
  <2>2. QED
    BY <2>1 DEF CoreScheme, PythonVerifier
<1>2. QED
  BY <1>1, PythonFits DEF PythonScheme

\* The secrets in a list of one, and of two.
LEMMA ElementsOf ==
  /\ \A a : Elements(<<a>>) = {a}
  /\ \A a, b : Elements(<<a, b>>) = {a, b}
BY DEF Elements

\* Lists of secrets that differ in length, or in their first secret, differ.
LEMMA SequencesDiffer ==
  /\ \A a, b : <<a>> # <<>> /\ <<a, b>> # <<>>
  /\ \A a, b, c : <<a>> # <<b, c>>
  /\ \A a, b : a # b => <<a>> # <<b>> /\ <<a, b>> # <<b, a>>
<1>1. \A a, b : Len(<<>>) = 0 /\ Len(<<a>>) = 1 /\ Len(<<a, b>>) = 2
  OBVIOUS
<1>2. \A a, b : <<a>>[1] = a /\ <<a, b>>[1] = a
  OBVIOUS
<1>3. QED
  BY <1>1, <1>2

-----------------------------------------------------------------------------
(* How far a rotation has come.                                            *)

Old == <<OldSecret>>
Both == <<OldSecret, NewSecret>>
New == <<NewSecret>>

IngressTypes ==
  /\ provider \in Providers /\ now \in Nat /\ signing \in Signings
  /\ \A q \in wire : q.proofs \in Signings /\ q.stamp \in {NoStamp} \cup Nat
  /\ secrets \in [Receivers -> Configured \cup {<<>>}]

\* Only processes that serve the endpoint have secrets; requests have the times their
\* provider gives them.
Known ==
  /\ \A r \in Receivers : secrets[r] # <<>> => Serves(r)
  /\ \A q \in wire :
       PythonScheme[provider].clock \in {"required", "present"} => q.stamp # NoStamp

\* The provider has begun to use the new secret: every process knows it.
\* It is under way: the provider has begun.  A process has forgotten the old one: the
\* provider, and everything under way, have as well.
RotationOrder ==
  /\ signing # Old => \A r \in Receivers : Serves(r) => secrets[r] \in {Both, New}
  /\ \A q \in wire : q.proofs # Old => signing # Old
  /\ \A r \in Receivers : secrets[r] = New =>
       signing = New /\ \A q \in wire : q.proofs = New

IngressInv == IngressTypes /\ Known /\ RotationOrder

\* The stages of what a process knows differ.
LEMMA SecretsDiffer ==
  Old # Both /\ Old # New /\ Both # New /\ <<>> \notin {Old, Both, New}
BY SequencesDiffer, IngressAssumption DEF Old, Both, New

\* At first nobody has secrets and the provider signs with the old one.
LEMMA RotationStarts == IngressInit => IngressInv
<1>1. SUFFICES ASSUME IngressInit PROVE IngressInv
  OBVIOUS
<1>2. IngressTypes
  BY <1>1 DEF IngressInit, IngressTypes, Signings
<1>3. signing = Old /\ wire = {} /\ \A r \in Receivers : secrets[r] = <<>>
  BY <1>1 DEF IngressInit, Old
<1>4. QED
  BY <1>2, <1>3, SecretsDiffer DEF IngressInv, Known, RotationOrder

\* A process registers the endpoint with what it now knows.
LEMMA ConfigureKeeps ==
  ASSUME IngressInv, NEW r \in Receivers, Configure(r)
  PROVE  IngressInv'
<1>a. IngressTypes /\ Known /\ RotationOrder
  BY DEF IngressInv
<1>1. PICK known \in {Old, Both, New} : AddEndpoint(r, known)
  BY DEF Configure, Old, Both, New
<1>2. /\ Serves(r) /\ UNCHANGED <<provider, signing, wire, now>>
      /\ secrets' = [secrets EXCEPT ![r] = known]
  BY <1>1 DEF AddEndpoint, providerVars
<1>3. /\ secrets'[r] = known
      /\ \A v \in Receivers \ {r} : secrets'[v] = secrets[v]
  BY <1>2, <1>a DEF IngressTypes
<1>4. /\ known = Old => secrets[r] = <<>>
      /\ known = New => signing = New /\ \A q \in wire : q.proofs = New
  <2>1. \/ secrets[r] = <<>> /\ AddEndpoint(r, Old)
        \/ AddEndpoint(r, Both)
        \/ signing = New /\ (\A q \in wire : q.proofs = New) /\ AddEndpoint(r, New)
    BY DEF Configure, Old, Both, New
  <2>2. \A k : AddEndpoint(r, k) => secrets'[r] = k
    BY <1>a DEF AddEndpoint, IngressTypes
  <2>3. QED
    BY <1>3, <2>1, <2>2, SecretsDiffer
<1>5. IngressTypes'
  BY <1>1, <1>2, <1>a DEF IngressTypes, Configured, Old, Both, New
<1>6. Known'
  BY <1>2, <1>3, <1>a DEF Known, Serves
<1>7. RotationOrder'
  <2>1. ASSUME signing # Old, known = Old PROVE FALSE
    BY <1>2, <1>4, <1>a, <2>1, SecretsDiffer DEF RotationOrder
  <2>2. QED
    BY <1>1, <1>2, <1>3, <1>4, <1>a, <2>1 DEF RotationOrder, Serves
<1>8. QED
  BY <1>5, <1>6, <1>7 DEF IngressInv

\* The times a provider puts into its requests.
LEMMA StampsKnown ==
  ASSUME provider \in Providers, now \in Nat, NEW stamp \in StampsSent
  PROVE  /\ stamp \in {NoStamp, now}
         /\ PythonScheme[provider].clock \in {"required", "present"} => stamp # NoStamp
<1>1. PythonScheme[provider].clock \in Clocks /\ now # NoStamp
  BY PythonFits, IngressAssumption DEF SchemeFits, NoStamp
<1>2. CASE PythonScheme[provider].clock = "none"
  BY <1>2 DEF StampsSent
<1>3. CASE PythonScheme[provider].clock \in {"required", "present"}
  BY <1>1, <1>3 DEF StampsSent
<1>4. CASE PythonScheme[provider].clock = "ifReadable"
  BY <1>4 DEF StampsSent
<1>5. QED
  BY <1>1, <1>2, <1>3, <1>4 DEF Clocks

\* A request is sent, signed as the provider signs now.
LEMMA SendKeeps ==
  ASSUME IngressInv, NEW h \in Happening, Send(h)
  PROVE  IngressInv'
<1>a. IngressTypes /\ Known /\ RotationOrder
  BY DEF IngressInv
<1>1. PICK stamp \in StampsSent, shape \in ShapesSent[provider] :
        wire' = wire \cup {[of |-> h, proofs |-> signing, stamp |-> stamp, shape |-> shape]}
  BY DEF Send
<1>2. UNCHANGED <<provider, signing, now, secrets>>
  BY DEF Send
<1>3. /\ stamp \in {NoStamp, now}
      /\ PythonScheme[provider].clock \in {"required", "present"} => stamp # NoStamp
  BY <1>1, <1>a, StampsKnown DEF IngressTypes
<1>4. \A q \in wire' : q \in wire \/ (q.proofs = signing /\ q.stamp = stamp)
  <2> DEFINE sent == [of |-> h, proofs |-> signing, stamp |-> stamp, shape |-> shape]
  <2>1. wire' = wire \cup {sent}
    BY <1>1
  <2>2. sent.proofs = signing /\ sent.stamp = stamp
    OBVIOUS
  <2> HIDE DEF sent
  <2>3. QED
    BY <2>1, <2>2
<1>5. IngressTypes'
  BY <1>2, <1>3, <1>4, <1>a DEF IngressTypes
<1>6. Known'
  BY <1>2, <1>3, <1>4, <1>a DEF Known, Serves
<1>7. RotationOrder'
  BY <1>2, <1>4, <1>a DEF RotationOrder, Serves
<1>8. QED
  BY <1>5, <1>6, <1>7 DEF IngressInv

\* The provider signs with the new secret, or with both.
LEMMA SwitchKeeps ==
  ASSUME IngressInv, SwitchSecret
  PROVE  IngressInv'
<1>a. IngressTypes /\ Known /\ RotationOrder
  BY DEF IngressInv
<1>1. /\ UNCHANGED <<provider, wire, now, secrets>>
      /\ signing' \in Signings /\ signing' # Old
      /\ \A r \in Receivers : Serves(r) => secrets[r] = Both
  BY DEF SwitchSecret, KnowsBoth, Old, Both
<1>2. \A r \in Receivers : secrets[r] # New
  BY <1>1, <1>a, SecretsDiffer DEF Known
<1>3. RotationOrder'
  BY <1>1, <1>2, <1>a DEF RotationOrder, Serves
<1>4. QED
  BY <1>1, <1>3, <1>a DEF IngressInv, IngressTypes, Known, Serves

\* Every step keeps the order of the rotation.
LEMMA IngressStep ==
  ASSUME IngressInv, [IngressNext]_ingressVars
  PROVE  IngressInv'
<1>a. UNCHANGED <<provider, signing, wire, secrets>> /\ now' \in Nat => IngressInv'
  BY DEF IngressInv, IngressTypes, Known, RotationOrder, Serves
<1>b. now \in Nat
  BY DEF IngressInv, IngressTypes
<1>1. CASE \E r \in Receivers : Configure(r)
  BY <1>1, ConfigureKeeps
<1>2. ASSUME NEW r \in Receivers, NEW q \in wire, Receive(r, q)
      PROVE  IngressInv'
  BY <1>2, <1>a, <1>b DEF Receive, providerVars
<1>3. CASE \E h \in Happening : Send(h)
  BY <1>3, SendKeeps
<1>4. CASE SwitchSecret
  BY <1>4, SwitchKeeps
<1>5. CASE Tick
  BY <1>5, <1>a, <1>b DEF Tick, providerVars
<1>6. CASE UNCHANGED ingressVars
  BY <1>6, <1>a, <1>b DEF ingressVars, providerVars
<1>7. QED
  BY <1>1, <1>2, <1>3, <1>4, <1>5, <1>6 DEF IngressNext

\* The order of the rotation is kept throughout.
LEMMA IngressInvariant == IngressSpec => []IngressInv
<1>1. IngressInv /\ [IngressNext]_ingressVars => IngressInv'
  BY IngressStep
<1>2. QED
  BY <1>1, RotationStarts, PTL DEF IngressSpec

-----------------------------------------------------------------------------
\* What a scheme reads of the proofs of a request was made with a secret that a process
\* knows, however far both have come.
LEMMA ProofsKnown ==
  ASSUME IngressInv, NEW q \in wire, NEW r \in Receivers, secrets[r] # <<>>,
         NEW s, s.reads \in {"every", "last"}
  PROVE  Proven(s, q, secrets[r])
<1>a. IngressTypes /\ Known /\ RotationOrder
  BY DEF IngressInv
<1>1. /\ q.proofs \in {Old, Both, <<NewSecret, OldSecret>>, New}
      /\ secrets[r] \in {Old, Both, New} /\ Serves(r)
  BY <1>a DEF IngressTypes, Signings, Configured, Known, Old, Both, New
<1>2. /\ Elements(Old) = {OldSecret} /\ Elements(New) = {NewSecret}
      /\ Elements(Both) = {OldSecret, NewSecret}
      /\ Elements(<<NewSecret, OldSecret>>) = {OldSecret, NewSecret}
  <2>1. Elements(Old) = {OldSecret} /\ Elements(New) = {NewSecret}
    BY ElementsOf, Zenon DEF Old, New
  <2>2. Elements(Both) = {OldSecret, NewSecret}
    BY ElementsOf, Zenon DEF Both
  <2>3. Elements(<<NewSecret, OldSecret>>) = {NewSecret, OldSecret}
    BY ElementsOf, Zenon
  <2>4. QED
    BY <2>1, <2>2, <2>3
<1>3. /\ ProofsRead(s, q) # {} /\ ProofsRead(s, q) \subseteq Elements(q.proofs)
      /\ ProofsRead(s, q) \subseteq {OldSecret, NewSecret}
  <2>1. /\ Old[Len(Old)] = OldSecret /\ New[Len(New)] = NewSecret
        /\ Both[Len(Both)] = NewSecret
        /\ <<NewSecret, OldSecret>>[Len(<<NewSecret, OldSecret>>)] = OldSecret
    BY DEF Old, New, Both
  <2>2. q.proofs[Len(q.proofs)] \in Elements(q.proofs)
    BY <1>1, <1>2, <2>1
  <2>3. Elements(q.proofs) # {} /\ Elements(q.proofs) \subseteq {OldSecret, NewSecret}
    BY <1>1, <1>2
  <2>4. QED
    BY <2>2, <2>3 DEF ProofsRead
<1>4. CASE secrets[r] = Old
  <2>1. q.proofs = Old
    BY <1>1, <1>4, <1>a, SecretsDiffer DEF RotationOrder
  <2>2. QED
    BY <1>2, <1>3, <1>4, <2>1 DEF Proven
<1>5. CASE secrets[r] = Both
  BY <1>2, <1>3, <1>5 DEF Proven
<1>6. CASE secrets[r] = New
  <2>1. q.proofs = New
    BY <1>6, <1>a DEF RotationOrder
  <2>2. QED
    BY <1>2, <1>3, <1>6, <2>1 DEF Proven
<1>7. QED
  BY <1>1, <1>4, <1>5, <1>6

\* A rotation loses nothing, for any number of processes and requests and any tolerance:
\* a documented request that is not late is accepted by every process that serves its
\* endpoint (receive with the verifiers of both implementations).
THEOREM RotationIsSafe == IngressSpec => []RotationLosesNothing
<1>1. ASSUME IngressInv, NEW q \in wire, NEW r \in Receivers,
             secrets[r] # <<>>, Documented(q), ~Late(q)
      PROVE  Valid(r, q)
  <2> DEFINE s == SchemeOf(r)
  <2>1. /\ SchemeFits(s)
        /\ s.clock \in {"required", "present"} => q.stamp # NoStamp
    <3>1. Serves(r) /\ provider \in DOMAIN PythonScheme
      BY <1>1, IngressAssumption DEF IngressInv, Known, IngressTypes
    <3>2. s.clock = PythonScheme[provider].clock
      BY <3>1, SameClock DEF SchemeOf, Serves
    <3>3. SchemeFits(s)
      BY <3>1, CoreFits, PythonFits DEF SchemeOf, Serves
    <3>4. QED
      BY <1>1, <3>2, <3>3 DEF IngressInv, Known
  <2>2. q.shape \in s.shapes
    BY <1>1, <2>1 DEF Documented, SchemeFits
  <2> HIDE DEF s
  <2>3. s.clock \in Clocks
    BY <2>1 DEF SchemeFits
  <2>4. Timely(s, q)
    <3>1. q.stamp # NoStamp => Fresh(q)
      BY <1>1 DEF Late
    <3>2. CASE s.clock = "none"
      BY <3>2 DEF Timely
    <3>3. CASE s.clock = "present"
      BY <2>1, <3>3 DEF Timely
    <3>4. CASE s.clock = "required"
      BY <2>1, <3>1, <3>4 DEF Timely
    <3>5. CASE s.clock = "ifReadable"
      BY <3>1, <3>5 DEF Timely
    <3>6. QED
      BY <2>3, <3>2, <3>3, <3>4, <3>5 DEF Clocks
  <2>5. Proven(s, q, secrets[r])
    BY <1>1, <2>1, ProofsKnown DEF SchemeFits
  <2>6. QED
    BY <2>2, <2>4, <2>5 DEF Valid, s
<1>2. IngressInv => RotationLosesNothing
  BY <1>1 DEF RotationLosesNothing
<1>3. QED
  BY <1>2, IngressInvariant, PTL

-----------------------------------------------------------------------------
(* The dedupe key, in both implementations.                                *)

\* A list of at most three fields, which is what every scheme has.
FieldList(s) ==
  \/ s = <<>>
  \/ \E a : s = <<a>>
  \/ \E a, b : s = <<a, b>>
  \/ \E a, b, c : s = <<a, b, c>>

\* Literal lists of fields are lists of fields.
LEMMA TuplesAreLists ==
  /\ FieldList(<<>>)
  /\ \A a : FieldList(<<a>>)
  /\ \A a, b : FieldList(<<a, b>>)
  /\ \A a, b, c : FieldList(<<a, b, c>>)
BY DEF FieldList

\* Literal lists are sequences over what is in them.
LEMMA TuplesAreSequences ==
  ASSUME NEW S, NEW a \in S, NEW b \in S, NEW c \in S
  PROVE  <<a>> \in Seq(S) /\ <<a, b>> \in Seq(S) /\ <<a, b, c>> \in Seq(S)
<1>1. <<a>> \in [1..1 -> S] /\ <<a, b>> \in [1..2 -> S] /\ <<a, b, c>> \in [1..3 -> S]
  OBVIOUS
<1>2. QED
  BY <1>1, SeqDef

\* Merging an empty preset changes nothing (MergedFields).
LEMMA NothingMerged ==
  ASSUME NEW s, FieldList(s)
  PROVE  s \o <<>> = s
<1>1. CASE s = <<>>
  <2>1. s \in Seq({})
    BY <1>1, EmptySeq
  <2>2. QED
    BY <2>1, ConcatEmptySeq
<1>2. ASSUME NEW a, s = <<a>> PROVE s \o <<>> = s
  <2>1. s \in Seq({a})
    BY <1>2, TuplesAreSequences
  <2>2. QED
    BY <2>1, ConcatEmptySeq
<1>3. ASSUME NEW a, NEW b, s = <<a, b>> PROVE s \o <<>> = s
  <2>1. s \in Seq({a, b})
    BY <1>3, TuplesAreSequences
  <2>2. QED
    BY <2>1, ConcatEmptySeq
<1>4. ASSUME NEW a, NEW b, NEW c, s = <<a, b, c>> PROVE s \o <<>> = s
  <2>1. s \in Seq({a, b, c})
    BY <1>4, TuplesAreSequences
  <2>2. QED
    BY <2>1, ConcatEmptySeq
<1>5. QED
  BY <1>1, <1>2, <1>3, <1>4 DEF FieldList

\* A preset that repeats the only field gives it twice.
LEMMA FieldRepeated ==
  ASSUME NEW f
  PROVE  <<f>> \o <<f>> = <<f, f>>
<1> DEFINE once == <<f>>
           twice == <<f, f>>
<1>1. once \in Seq({f}) /\ twice \in Seq({f})
  BY TuplesAreSequences
<1>2. Len(once) = 1 /\ Len(twice) = 2 /\ once[1] = f /\ twice[1] = f /\ twice[2] = f
  OBVIOUS
<1> HIDE DEF once, twice
<1> DEFINE joined == once \o once
<1>3. joined \in Seq({f}) /\ Len(joined) = 2 /\ joined[1] = f /\ joined[2] = f
  <2>1. joined \in Seq({f}) /\ Len(joined) = 2
    BY <1>1, <1>2, ConcatProperties
  <2>2. \A i \in 1..2 : joined[i] = IF i <= 1 THEN once[i] ELSE once[i - 1]
    BY <1>1, <1>2, ConcatProperties
  <2>3. QED
    BY <1>2, <2>1, <2>2
<1> HIDE DEF joined
<1>4. \A i \in 1..Len(joined) : joined[i] = twice[i]
  BY <1>2, <1>3
<1>5. joined = twice
  BY <1>1, <1>2, <1>3, <1>4, SeqEqual
<1>6. QED
  BY <1>5 DEF joined, once, twice

\* Both look into the same fields, but for what a preset of Python repeats.
LEMMA SameFields ==
  \A p \in DOMAIN CoreScheme :
    /\ PythonVerifier[p].event = CoreScheme[p].event
    /\ PythonVerifier[p].delivery = CoreScheme[p].delivery
    /\ FieldList(CoreScheme[p].event) /\ FieldList(CoreScheme[p].delivery)
<1> DEFINE Same(s, c) == /\ s.event = c.event /\ s.delivery = c.delivery
                         /\ FieldList(c.event) /\ FieldList(c.delivery)
<1>1. Same(PyGithub, CoreGithub) /\ Same(PyStripe, CoreStripe) /\ Same(PyShopify, CoreShopify)
      /\ Same(PySlack, CoreSlack) /\ Same(PyPostmark, CorePostmark)
  BY TuplesAreLists
     DEF Scheme, BodyId, PyGithub, CoreGithub, PyStripe, CoreStripe, PyShopify, CoreShopify,
         PySlack, CoreSlack, PyPostmark, CorePostmark
<1>2. Same(PyResend, CoreResend) /\ Same(PyPaddle, CorePaddle)
      /\ Same(PyLemonSqueezy, CoreLemonSqueezy)
      /\ Same(PyStandardWebhooks, CoreStandardWebhooks)
  BY TuplesAreLists
     DEF Scheme, PyResend, CoreResend, PyPaddle, CorePaddle, PyLemonSqueezy, CoreLemonSqueezy,
         PyStandardWebhooks, CoreStandardWebhooks
<1>3. Same(PyTwilio, CoreTwilio) /\ Same(PySendgrid, CoreSendgrid) /\ Same(PyLinear, CoreLinear)
      /\ Same(PyHubspot, CoreHubspot)
  BY TuplesAreLists
     DEF Scheme, PyTwilio, CoreTwilio, PySendgrid, CoreSendgrid, PyLinear, CoreLinear,
         PyHubspot, CoreHubspot
<1>4. Same(PyMeta, CoreMeta) /\ Same(PyDiscord, CoreDiscord) /\ Same(PyZendesk, CoreZendesk)
      /\ Same(PyIntercom, CoreIntercom)
  BY TuplesAreLists
     DEF Scheme, BodyId, PyMeta, CoreMeta, PyDiscord, CoreDiscord, PyZendesk, CoreZendesk,
         PyIntercom, CoreIntercom
<1>5. Same(PyTokenHeader, CoreTokenHeader) /\ Same(PyBearerToken, CoreBearerToken)
      /\ Same(PyBasicAuth, CoreBasicAuth)
  BY TuplesAreLists
     DEF Scheme, BodyId, PyTokenHeader, CoreTokenHeader, PyBearerToken, CoreBearerToken,
         PyBasicAuth, CoreBasicAuth
<1> HIDE DEF Same
<1>6. \A p \in DOMAIN CoreScheme : Same(PythonVerifier[p], CoreScheme[p])
  BY <1>1, <1>2, <1>3, <1>4, <1>5 DEF CoreScheme, PythonVerifier
<1>7. QED
  BY <1>6 DEF Same

\* A field that is looked for twice is found the first time.
LEMMA ExtractTwice ==
  ASSUME NEW q, NEW f
  PROVE  Extract(q, <<f, f>>) = Extract(q, <<f>>)
<1>1. CASE f \in FieldsOf(q)
  <2>1. {i \in DOMAIN <<f>> : <<f>>[i] \in FieldsOf(q)} = {1}
    BY <1>1
  <2>2. {i \in DOMAIN <<f, f>> : <<f, f>>[i] \in FieldsOf(q)} = {1, 2}
    BY <1>1
  <2>3. (CHOOSE i \in {1} : \A j \in {1} : i <= j) = 1
    OBVIOUS
  <2>4. (CHOOSE i \in {1, 2} : \A j \in {1, 2} : i <= j) = 1
    OBVIOUS
  <2>5. <<f>>[1] = f /\ <<f, f>>[1] = f
    OBVIOUS
  <2>6. QED
    BY <2>1, <2>2, <2>3, <2>4, <2>5 DEF Extract
<1>2. CASE f \notin FieldsOf(q)
  <2>1. {i \in DOMAIN <<f>> : <<f>>[i] \in FieldsOf(q)} = {}
    BY <1>2
  <2>2. {i \in DOMAIN <<f, f>> : <<f, f>>[i] \in FieldsOf(q)} = {}
    BY <1>2
  <2>3. QED
    BY <2>1, <2>2 DEF Extract
<1>3. QED
  BY <1>1, <1>2

\* What the presets add is what the verifiers have looked for already.
LEMMA MergedLists ==
  ASSUME NEW p \in DOMAIN CoreScheme
  PROVE  \A k \in {"event", "delivery"} :
           \/ PythonScheme[p][k] = CoreScheme[p][k]
           \/ \E f : CoreScheme[p][k] = <<f>> /\ PythonScheme[p][k] = <<f, f>>
<1> DEFINE v == PythonVerifier[p]
<1>1. /\ p \in DOMAIN PythonVerifier
      /\ DOMAIN v = {"event", "delivery", "clock", "reads", "shapes"}
  BY SameClock, PythonFits DEF PythonScheme, SchemeFits
<1>2. /\ v.event = CoreScheme[p].event /\ v.delivery = CoreScheme[p].delivery
      /\ v.event \o <<>> = v.event /\ v.delivery \o <<>> = v.delivery
  BY SameFields, NothingMerged
<1>3. OwnKeys(p).event = <<>> /\ OwnKeys(p).delivery = <<>>
  BY DEF OwnKeys, NoFields, CoreScheme
<1>4. /\ PythonScheme[p].event = v.event \o Preset(p).event
      /\ PythonScheme[p].delivery = v.delivery \o Preset(p).delivery
  BY <1>1, <1>3 DEF PythonScheme, MergedFields
<1>5. CASE p = "stripe"
  <2>1. Preset(p).event = <<"id">> /\ Preset(p).delivery = <<>>
    BY <1>5 DEF Preset, NoFields
  <2>2. v.event = <<"id">>
    BY <1>5, <1>2 DEF CoreScheme, CoreStripe, BodyId, Scheme
  <2>3. QED
    BY <1>2, <1>4, <2>1, <2>2, FieldRepeated
<1>6. CASE p = "github"
  <2>1. Preset(p).event = <<>> /\ Preset(p).delivery = <<"x-github-delivery">>
    BY <1>6 DEF Preset, NoFields
  <2>2. v.delivery = <<"x-github-delivery">>
    BY <1>6, <1>2 DEF CoreScheme, CoreGithub, Scheme
  <2>3. QED
    BY <1>2, <1>4, <2>1, <2>2, FieldRepeated
<1>7. CASE p \notin {"stripe", "github"}
  <2>1. Preset(p).event = <<>> /\ Preset(p).delivery = <<>>
    BY <1>7 DEF Preset, NoFields, CoreScheme
  <2>2. QED
    BY <1>2, <1>4, <2>1
<1>8. QED
  BY <1>5, <1>6, <1>7

\* Both take the same dedupe key from a request (ingest, _verify_and_extract).
LEMMA SameKey ==
  ASSUME NEW p \in DOMAIN CoreScheme, NEW q
  PROVE  ChosenDedupe(PythonScheme[p], q) = ChosenDedupe(CoreScheme[p], q)
<1>1. \A k \in {"event", "delivery"} :
        Extract(q, PythonScheme[p][k]) = Extract(q, CoreScheme[p][k])
  <2>1. ASSUME NEW k \in {"event", "delivery"}
        PROVE  Extract(q, PythonScheme[p][k]) = Extract(q, CoreScheme[p][k])
    <3>1. CASE PythonScheme[p][k] = CoreScheme[p][k]
      BY <3>1
    <3>2. ASSUME NEW f, CoreScheme[p][k] = <<f>>, PythonScheme[p][k] = <<f, f>>
          PROVE  Extract(q, PythonScheme[p][k]) = Extract(q, CoreScheme[p][k])
      <4>1. Extract(q, <<f, f>>) = Extract(q, <<f>>)
        BY ExtractTwice
      <4>2. QED
        BY <3>2, <4>1, Zenon
    <3>3. QED
      BY <3>1, <3>2, MergedLists
  <2>2. QED
    BY <2>1
<1>2. QED
  BY <1>1 DEF ChosenDedupe

\* Each binding is doing the same thing: a process with the Python binding and one without,
\* with the same secrets, agree on every documented request under way, and name its event alike.
THEOREM BothAgree == IngressSpec => []BindingsAgree
<1>1. ASSUME IngressInv, NEW q \in wire, NEW r \in PythonReceivers,
             NEW s \in Receivers \ PythonReceivers,
             Serves(s), secrets[r] = secrets[s], Documented(q)
      PROVE  (Valid(r, q) <=> Valid(s, q)) /\ KeyOf(r, q) = KeyOf(s, q)
  <2> DEFINE py == PythonScheme[provider]
             core == CoreScheme[provider]
  <2>1. SchemeOf(r) = py /\ SchemeOf(s) = core /\ r \in Receivers
    BY IngressAssumption DEF SchemeOf
  <2>2. /\ provider \in DOMAIN CoreScheme /\ provider \in DOMAIN PythonScheme
        /\ py.clock = core.clock
    BY <1>1, SameClock DEF Serves
  <2>3. KeyOf(r, q) = KeyOf(s, q)
    BY <2>1, <2>2, SameKey DEF KeyOf
  <2>4. SchemeFits(py) /\ SchemeFits(core)
    BY <2>2, CoreFits, PythonFits
  <2> HIDE DEF py, core
  <2>5. q.shape \in py.shapes /\ q.shape \in core.shapes
    BY <1>1, <2>4 DEF Documented, SchemeFits
  <2>6. Timely(py, q) <=> Timely(core, q)
    BY <2>2 DEF Timely
  <2>7. Proven(py, q, secrets[r]) <=> Proven(core, q, secrets[s])
    <3>1. CASE secrets[r] = <<>>
      <4>1. Elements(<<>>) = {}
        BY DEF Elements
      <4>2. QED
        BY <1>1, <3>1, <4>1 DEF Proven
    <3>2. CASE secrets[r] # <<>>
      <4>1. Proven(py, q, secrets[r])
        BY <1>1, <2>1, <2>4, <3>2, ProofsKnown DEF SchemeFits
      <4>2. Proven(core, q, secrets[s])
        BY <1>1, <2>4, <3>2, ProofsKnown DEF SchemeFits
      <4>3. QED
        BY <4>1, <4>2
    <3>3. QED
      BY <3>1, <3>2
  <2>8. Valid(r, q) <=> Valid(s, q)
    BY <2>1, <2>5, <2>6, <2>7 DEF Valid
  <2>9. QED
    BY <2>3, <2>8
<1>2. IngressInv => BindingsAgree
  BY <1>1 DEF BindingsAgree
<1>3. QED
  BY <1>2, IngressInvariant, PTL

-----------------------------------------------------------------------------
(* What is stored of what was sent.                                        *)

\* The key of a request, as the Python binding reads it; the other reads the same.
KeyAsSent(q) == ChosenDedupe(PythonScheme[provider], q)

\* An event is sent in one shape, and every delivery stored has the key that its request,
\* which the provider has sent, gives it under either implementation.
Receipts ==
  /\ now \in 0..MaxTime /\ wire \subseteq Request
  /\ \A p, q \in wire : p.of = q.of => p.shape = q.shape
  /\ origin \in [DeliveryId -> Happening \cup {NoOrigin}]
  /\ \A d \in DeliveryId : Stored(d) <=> origin[d] # NoOrigin
  /\ \A d \in DeliveryId : Stored(d) =>
       /\ delivery[d].endpoint \in Endpoints
       /\ \E q \in wire : /\ q.of = origin[d]
                         /\ delivery[d].key = KeyAsSent(q)

ReceiptInv == IngressInv /\ LinkInv /\ Receipts

\* What can be read of a request is one of the provider's names for things, or nothing.
LEMMA KeyTypes ==
  ASSUME NEW q \in Request, NEW s
  PROVE  ChosenDedupe(s, q) \in Keys \cup {NoKey}
<1>1. \A f : FieldValue(q, f) \in Keys
  <2>1. q.of \in Objects \X (1..EventsPerObject)
    BY DEF Request, Happening
  <2>2. q.of \in Identity /\ <<q.of[1], 0>> \in Identity
    BY <2>1, IngressAssumption DEF Identity
  <2>3. QED
    BY <2>2, KeysAssumption DEF FieldValue
<1>2. \A fields : Extract(q, fields) \in Keys \cup {NoKey}
  BY <1>1 DEF Extract
<1>3. QED
  BY <1>2 DEF ChosenDedupe

\* Requests that mean the same event in the same shape are read alike.
LEMMA SameRead ==
  ASSUME NEW p, NEW q, p.of = q.of, p.shape = q.shape, NEW s
  PROVE  ChosenDedupe(s, p) = ChosenDedupe(s, q)
<1>1. FieldsOf(p) = FieldsOf(q) /\ \A f : FieldValue(p, f) = FieldValue(q, f)
  BY DEF FieldsOf, FieldValue
<1>2. \A fields : Extract(p, fields) = Extract(q, fields)
  BY <1>1 DEF Extract
<1>3. QED
  BY <1>2 DEF ChosenDedupe

\* The shapes a provider sends are among those considered.
LEMMA ShapesKnown ==
  ASSUME NEW p \in DOMAIN PythonScheme
  PROVE  ShapesSent[p] \subseteq Shapes
<1>1. p \in DOMAIN Carries
  BY DEF PythonScheme, PythonVerifier, Carries
<1> DEFINE odd == CASE p \in {"github", "github_hmac"} -> {"noDelivery"}
                    [] p = "intercom" -> {"unprefixed"}
                    [] p = "twilio" -> {"blankParameter"}
                    [] p \in {"sendgrid", "linear", "hubspot", "acme"} -> {"notJson"}
                    [] OTHER -> {}
<1>2. ShapesSent[p] = {"documented"} \cup odd
  BY <1>1 DEF ShapesSent
<1>3. odd \subseteq Shapes
  BY DEF Shapes
<1> HIDE DEF odd
<1>4. QED
  BY <1>2, <1>3 DEF Shapes

\* A key stays what it is: it depends on the provider and the request alone.
LEMMA KeyStays ==
  ASSUME UNCHANGED provider
  PROVE  \A q : KeyAsSent(q)' = KeyAsSent(q)
BY DEF KeyAsSent, ChosenDedupe, Extract, FieldsOf, FieldValue

\* An event of the provider is not the absence of one.
LEMMA MeantIsKnown == \A h \in Happening : h # NoOrigin
<1>1. Happening \subseteq Identity
  BY IngressAssumption DEF Happening, Identity
<1>2. QED
  BY <1>1, KeysAssumption, InboxAssumption DEF NoOrigin

\* No table changes.
LEMMA LinksIfUnchanged ==
  ASSUME LinkInv, UNCHANGED inboxVars
  PROVE  LinkInv'
BY DEF LinkInv, TablesOK, QueueTypeOK, InboxTypeOK, LiveNamed, LinksOK, AuditAccounts, inboxVars,
       Live, Stored, Exists, DeliveryLinkage, EventsKeepDeliveries, OneEventPerKey,
       ReplayTargetStored, PrunedEvents, PrunedDeliveries, PrunedJobs, AttemptRows

\* A receiver serves the endpoint, and either implementation gives the request this key.
LEMMA ReceiverKey ==
  ASSUME IngressInv, NEW r \in Receivers, NEW q, secrets[r] # <<>>
  PROVE  KeyOf(r, q) = KeyAsSent(q)
<1>1. Serves(r)
  BY DEF IngressInv, Known
<1>2. CASE r \in PythonReceivers
  BY <1>2 DEF KeyOf, SchemeOf, KeyAsSent
<1>3. CASE r \notin PythonReceivers
  BY <1>1, <1>3, SameKey DEF KeyOf, SchemeOf, Serves, KeyAsSent
<1>4. QED
  BY <1>2, <1>3

\* receive is knocker_ingest, which writes one delivery, under the request's key.
LEMMA ReceiveStores ==
  ASSUME ReceiptInv, NEW r \in Receivers, NEW q \in wire, Receive(r, q)
  PROVE  /\ InboxNext
         /\ \E d \in DeliveryId :
              /\ NextDeliveryId(d)
              /\ \A c \in DeliveryId \ {d} : delivery'[c] = delivery[c]
              /\ delivery'[d].state = "stored" /\ delivery'[d].key = KeyOf(r, q)
              /\ delivery'[d].endpoint \in Endpoints
<1>1. PICK n \in Endpoints, t \in Kinds : Ingest(n, KeyOf(r, q), t)
  BY DEF Receive, Ingest
<1>2. KeyOf(r, q) \in Keys \cup {NoKey}
  BY KeyTypes DEF ReceiptInv, Receipts, KeyOf
<1>3. InboxNext
  BY <1>1, <1>2 DEF InboxNext
<1>4. PICK e : InsertDelivery(n, e, KeyOf(r, q), t)
  BY <1>1 DEF Ingest, IngestInvalid, IngestDuplicate, IngestNew
<1>5. delivery \in [DeliveryId -> DeliveryRow]
  BY DEF ReceiptInv, LinkInv, TablesOK, InboxTypeOK
<1>6. QED
  BY <1>3, <1>4, <1>5 DEF InsertDelivery

\* The delivery of a request is remembered with the event the request means.
LEMMA ReceiveKeeps ==
  ASSUME ReceiptInv, NEW r \in Receivers, NEW q \in wire, Receive(r, q)
  PROVE  LinkInv' /\ Receipts'
<1>a. IngressInv /\ LinkInv /\ Receipts
  BY DEF ReceiptInv
<1>1. LinkInv'
  BY <1>a, ReceiveStores, OperatorTypes, OperatorNames, OperatorKeeps DEF LinkInv, Kept
<1>2. PICK d \in DeliveryId :
        /\ NextDeliveryId(d)
        /\ \A c \in DeliveryId \ {d} : delivery'[c] = delivery[c]
        /\ delivery'[d].state = "stored" /\ delivery'[d].key = KeyOf(r, q)
        /\ delivery'[d].endpoint \in Endpoints
  BY ReceiveStores
<1>3. \A c \in DeliveryId : NextDeliveryId(c) <=> c = d
  BY <1>2 DEF NextDeliveryId, DeliveryId
<1>4. origin' = [c \in DeliveryId |-> IF c = d THEN q.of ELSE origin[c]]
  BY <1>3 DEF Receive
<1>5. UNCHANGED <<provider, wire, now>>
  BY DEF Receive, providerVars
<1>6. KeyOf(r, q) = KeyAsSent(q)
  BY <1>a, ReceiverKey DEF Receive
<1>7. q.of \in Happening /\ q.of # NoOrigin
  BY <1>a, MeantIsKnown DEF Receipts, Request
<1>8. origin' \in [DeliveryId -> Happening \cup {NoOrigin}]
  BY <1>a, <1>4, <1>7 DEF Receipts
<1>9. \A c \in DeliveryId \ {d} : Stored(c)' = Stored(c) /\ origin'[c] = origin[c]
  BY <1>2, <1>4 DEF Stored
<1>10. Stored(d)' /\ origin'[d] = q.of
  BY <1>2, <1>4 DEF Stored
<1>11. \A c \in DeliveryId : Stored(c)' <=> origin'[c] # NoOrigin
  BY <1>a, <1>7, <1>9, <1>10 DEF Receipts
<1>12. ASSUME NEW c \in DeliveryId, Stored(c)'
       PROVE  /\ delivery'[c].endpoint \in Endpoints
              /\ \E p \in wire :
                   /\ p.of = origin'[c]
                   /\ delivery'[c].key = KeyAsSent(p)
  BY <1>a, <1>2, <1>6, <1>9, <1>10, <1>12 DEF Receipts
<1>13. QED
  BY <1>a, <1>1, <1>5, <1>8, <1>11, <1>12, KeyStays DEF Receipts

\* A request that is sent again has the shape it had.
LEMMA SendReceipts ==
  ASSUME ReceiptInv, NEW h \in Happening, Send(h)
  PROVE  Receipts'
<1>a. IngressInv /\ IngressTypes /\ Receipts
  BY DEF ReceiptInv, IngressInv
<1>1. PICK stamp \in StampsSent, shape \in ShapesSent[provider] :
        /\ \A q \in wire : q.of = h => q.shape = shape
        /\ wire' = wire \cup {[of |-> h, proofs |-> signing, stamp |-> stamp, shape |-> shape]}
  BY DEF Send
<1>2. UNCHANGED <<provider, now, delivery, origin>>
  BY DEF Send, inboxVars
<1> DEFINE sent == [of |-> h, proofs |-> signing, stamp |-> stamp, shape |-> shape]
<1>3. sent \in Request
  <2>1. shape \in Shapes
    BY <1>1, <1>a, IngressAssumption, ShapesKnown DEF IngressTypes
  <2>2. stamp \in {NoStamp} \cup (0..MaxTime)
    BY <1>1, <1>a, StampsKnown DEF Receipts, IngressTypes
  <2>3. QED
    BY <1>a, <2>1, <2>2 DEF IngressTypes, Request
<1>4. sent.of = h /\ sent.shape = shape /\ wire' = wire \cup {sent}
  BY <1>1
<1> HIDE DEF sent
<1>5. wire' \subseteq Request /\ \A p, q \in wire' : p.of = q.of => p.shape = q.shape
  BY <1>1, <1>3, <1>4, <1>a DEF Receipts
<1>6. QED
  BY <1>2, <1>4, <1>5, <1>a, KeyStays DEF Receipts, Stored

\* Every step of a process, the provider or the clock keeps what the receipts say.
LEMMA ReceiptStep ==
  ASSUME ReceiptInv, [IngressNext]_ingressVars
  PROVE  ReceiptInv'
<1>a. IngressInv /\ IngressTypes /\ LinkInv /\ Receipts
  BY DEF ReceiptInv, IngressInv
<1>b. IngressInv'
  BY <1>a, IngressStep
<1>c. UNCHANGED <<provider, wire, now, delivery, origin>> => Receipts'
  BY <1>a, KeyStays DEF Receipts, Stored
<1>1. ASSUME NEW r \in Receivers, Configure(r)
      PROVE  ReceiptInv'
  <2>1. PICK n \in Endpoints : EndpointUpsert(n, TRUE)
    BY <1>1 DEF Configure, AddEndpoint
  <2>2. InboxNext
    BY <2>1 DEF InboxNext
  <2>3. LinkInv'
    BY <1>a, <2>2, OperatorTypes, OperatorNames, OperatorKeeps DEF LinkInv, Kept
  <2>4. UNCHANGED <<provider, wire, now, delivery, origin>>
    BY <1>1, <2>1 DEF Configure, AddEndpoint, providerVars, EndpointUpsert
  <2>5. QED
    BY <1>b, <1>c, <2>3, <2>4 DEF ReceiptInv
<1>2. ASSUME NEW r \in Receivers, NEW q \in wire, Receive(r, q)
      PROVE  ReceiptInv'
  BY <1>2, <1>b, ReceiveKeeps DEF ReceiptInv
<1>3. ASSUME NEW h \in Happening, Send(h)
      PROVE  ReceiptInv'
  BY <1>3, <1>a, <1>b, SendReceipts, LinksIfUnchanged DEF Send, ReceiptInv
<1>4. CASE SwitchSecret
  BY <1>4, <1>a, <1>b, <1>c, LinksIfUnchanged DEF SwitchSecret, ReceiptInv, inboxVars
<1>5. CASE Tick
  <2>1. now' \in 0..MaxTime /\ UNCHANGED <<inboxVars, provider, wire, origin>>
    BY <1>5, <1>a, IngressAssumption DEF Tick, Receipts, providerVars
  <2>2. Receipts'
    BY <1>a, <2>1, KeyStays DEF Receipts, Stored, inboxVars
  <2>3. QED
    BY <1>a, <1>b, <2>1, <2>2, LinksIfUnchanged DEF ReceiptInv
<1>6. CASE UNCHANGED ingressVars
  BY <1>6, <1>a, <1>b, <1>c, LinksIfUnchanged DEF ingressVars, providerVars, ReceiptInv, inboxVars
<1>7. QED
  BY <1>1, <1>2, <1>3, <1>4, <1>5, <1>6 DEF IngressNext

\* The receipts say so throughout.
LEMMA ReceiptInvariant == IngressSpec => []ReceiptInv
<1>1. IngressInit => ReceiptInv
  <2>1. SUFFICES ASSUME IngressInit PROVE ReceiptInv
    OBVIOUS
  <2>2. LinkInv
    BY <2>1, TablesInit, LinksInit DEF IngressInit, LinkInv
  <2>3. now \in 0..MaxTime /\ wire = {}
    BY <2>1, IngressAssumption DEF IngressInit
  <2>4. \A d \in DeliveryId : ~Stored(d) /\ origin[d] = NoOrigin
    BY <2>1 DEF IngressInit, InboxInit, Stored, EmptyDelivery
  <2>5. origin \in [DeliveryId -> Happening \cup {NoOrigin}]
    BY <2>1 DEF IngressInit
  <2>6. QED
    BY <2>1, <2>2, <2>3, <2>4, <2>5, RotationStarts DEF ReceiptInv, Receipts
<1>2. ReceiptInv /\ [IngressNext]_ingressVars => ReceiptInv'
  BY ReceiptStep
<1>3. QED
  BY <1>1, <1>2, PTL DEF IngressSpec

\* The variables of the receivers keep their types: what is read of a request can be
\* stored as a key, and every delivery that is stored has the event it was sent for.
THEOREM IngressTypesHold == IngressSpec => []IngressTypeOK
<1>1. ReceiptInv => IngressTypeOK
  BY DEF ReceiptInv, IngressInv, IngressTypes, LinkInv, TablesOK, Receipts, IngressTypeOK
<1>2. QED
  BY <1>1, ReceiptInvariant, PTL

\* Provider retries do not duplicate work: whoever receives an event that has an id, with
\* whatever secrets, and however often it is sent, one event is stored for it.
THEOREM RetriesMeet == IngressSpec => []RetriesConverge
<1>1. ASSUME ReceiptInv, NEW c \in DeliveryId, NEW d \in DeliveryId,
             Linked(c), Linked(d), origin[c] = origin[d], delivery[c].key # NoKey
      PROVE  delivery[c].event = delivery[d].event
  <2>1. DedupeConverges
    BY <1>1, LinksConverge DEF ReceiptInv, LinkInv
  <2>2. delivery[c].key = delivery[d].key
    <3>1. PICK p \in wire : p.of = origin[c]
                           /\ delivery[c].key = KeyAsSent(p)
      BY <1>1 DEF ReceiptInv, Receipts, Linked
    <3>2. PICK q \in wire : q.of = origin[d]
                           /\ delivery[d].key = KeyAsSent(q)
      BY <1>1 DEF ReceiptInv, Receipts, Linked
    <3>3. p.shape = q.shape
      BY <1>1, <3>1, <3>2 DEF ReceiptInv, Receipts
    <3>4. QED
      BY <1>1, <3>1, <3>2, <3>3, SameRead DEF KeyAsSent
  <2>3. delivery[c].endpoint = delivery[d].endpoint
    <3>1. delivery[c].endpoint \in Endpoints /\ delivery[d].endpoint \in Endpoints
      BY <1>1 DEF ReceiptInv, Receipts, Linked
    <3>2. QED
      BY <3>1, EndpointAssumption
  <2>4. QED
    BY <1>1, <2>1, <2>2, <2>3 DEF DedupeConverges, Linked
<1>2. ReceiptInv => RetriesConverge
  BY <1>1 DEF RetriesConverge
<1>3. QED
  BY <1>2, ReceiptInvariant, PTL
=============================================================================
