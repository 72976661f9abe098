-------------------------- MODULE ProviderSchemes --------------------------
(***************************************************************************)
(* How the 21 curated providers sign and name what they send, as the two   *)
(* implementations of the checks see it: the verify_* functions of         *)
(* knocker_ops.rs (reached by knocker_receive, so by every binding but     *)
(* Python), and the Provider classes of the Python binding; and the other  *)
(* ways to set up an endpoint that only the Python binding has.            *)
(*                                                                         *)
(* A scheme keeps what decides whether a request is accepted and which     *)
(* event it is taken for.  HMAC, Ed25519, ECDSA, bearer and basic secrets  *)
(* are one thing here: a request carries a list of proofs, each made with  *)
(* one secret.  Event types and error texts are left out.                  *)
(***************************************************************************)
EXTENDS Integers, Sequences, FiniteSets

\* What can be irregular about a genuine request: nothing; no delivery header; the
\* signature lacks its prefix; a form parameter is blank; the body is not JSON.
Shapes == {"documented", "noDelivery", "unprefixed", "blankParameter", "notJson"}

\* event, delivery  where provider_event_id and provider_delivery_id are looked for, the
\*                  first that is there counting
\* clock            "none": no timestamp is looked at
\*                  "present": there must be one, of any age
\*                  "required": there must be one, and it must be fresh
\*                  "ifReadable": one that can be read must be fresh
\* reads            which proofs of the list are tried
\* shapes           the shapes that can be accepted
Scheme == [event |-> <<>>, delivery |-> <<>>, clock |-> "none", reads |-> "every",
           shapes |-> {"documented"}]

\* The body's own id, and nothing about time.
BodyId == [Scheme EXCEPT !.event = <<"id">>]

-----------------------------------------------------------------------------
(* knocker_ops.rs.                                                         *)

CoreGithub == [Scheme EXCEPT !.delivery = <<"x-github-delivery">>,
                             !.shapes = {"documented", "noDelivery"}]
CoreStripe == [BodyId EXCEPT !.clock = "required"]
CoreShopify == [Scheme EXCEPT !.event = <<"x-shopify-event-id">>,
                              !.delivery = <<"x-shopify-webhook-id">>]
CoreSlack == [Scheme EXCEPT !.event = <<"event_id">>, !.clock = "required"]
CorePostmark == [Scheme EXCEPT !.event = <<"MessageID">>]
CoreResend == [Scheme EXCEPT !.event = <<"data.email_id">>, !.delivery = <<"svix-id">>,
                             !.clock = "required"]
\* The header is read into a map, in which the last h1 replaces the ones before it.
CorePaddle == [Scheme EXCEPT !.event = <<"event_id">>, !.clock = "required",
                             !.reads = "last"]
CoreLemonSqueezy == [Scheme EXCEPT !.event = <<"data.attributes.identifier", "data.id">>]
CoreStandardWebhooks == [Scheme EXCEPT !.event = <<"id", "data.id">>,
                                       !.delivery = <<"webhook-id", "webhooks-id", "svix-id">>,
                                       !.clock = "required"]
CoreTwilio == [Scheme EXCEPT !.event = <<"CallSid", "MessageSid", "SmsSid">>,
                             !.shapes = {"documented", "blankParameter"}]
CoreSendgrid == [Scheme EXCEPT !.event = <<"sg_event_id", "sg_message_id">>,
                               !.clock = "required", !.shapes = {"documented", "notJson"}]
CoreLinear == [Scheme EXCEPT !.event = <<"data.id">>, !.clock = "ifReadable",
                             !.shapes = {"documented", "notJson"}]
CoreMeta == Scheme
CoreDiscord == [BodyId EXCEPT !.clock = "present"]
CoreZendesk == [Scheme EXCEPT !.event = <<"ticket_id", "id">>, !.clock = "ifReadable"]
CoreIntercom == BodyId
CoreHubspot == [Scheme EXCEPT !.event = <<"eventId", "objectId">>, !.clock = "required",
                              !.shapes = {"documented", "notJson"}]
CoreTokenHeader == BodyId
CoreBearerToken == BodyId
CoreBasicAuth == BodyId

CoreScheme ==
  [github |-> CoreGithub, stripe |-> CoreStripe, shopify |-> CoreShopify,
   slack |-> CoreSlack, postmark |-> CorePostmark, resend |-> CoreResend,
   paddle |-> CorePaddle, lemon_squeezy |-> CoreLemonSqueezy,
   standard_webhooks |-> CoreStandardWebhooks, clerk |-> CoreStandardWebhooks,
   twilio |-> CoreTwilio, sendgrid |-> CoreSendgrid, linear |-> CoreLinear,
   meta |-> CoreMeta, discord |-> CoreDiscord, zendesk |-> CoreZendesk,
   intercom |-> CoreIntercom, hubspot |-> CoreHubspot,
   token_header |-> CoreTokenHeader, bearer_token |-> CoreBearerToken,
   basic_auth |-> CoreBasicAuth]

-----------------------------------------------------------------------------
(* The Python binding.  What is written as an EXCEPT of the other          *)
(* implementation shows in what the two differ.                            *)

PyGithub == [CoreGithub EXCEPT !.shapes = {"documented"}]
PyStripe == CoreStripe
PyShopify == CoreShopify
PySlack == CoreSlack
PyPostmark == CorePostmark
PyResendByDelivery ==     \* fault: svix-id is what identifies the event
  [CoreResend EXCEPT !.event = <<"svix-id">>]
PyResend == CoreResend
PyPaddleTimeless ==       \* fault: the timestamp is signed but not compared
  [CorePaddle EXCEPT !.reads = "every", !.clock = "present"]
PyPaddle == [CorePaddle EXCEPT !.reads = "every"]
PyLemonSqueezy == CoreLemonSqueezy
PyStandardWebhooks == CoreStandardWebhooks
\* parse_qsl drops blank parameters, so the payload that was signed is not rebuilt.
PyTwilio == [CoreTwilio EXCEPT !.shapes = {"documented"}]
\* request.json() raises on these bodies, which _ProviderVerifier turns into a refusal.
PySendgrid == [CoreSendgrid EXCEPT !.shapes = {"documented"}]
PyLinear == [CoreLinear EXCEPT !.shapes = {"documented"}]
PyHubspot == [CoreHubspot EXCEPT !.shapes = {"documented"}]
PyMeta == CoreMeta
PyDiscord == CoreDiscord
PyZendesk == CoreZendesk
PyIntercom == [CoreIntercom EXCEPT !.shapes = {"documented", "unprefixed"}]
PyTokenHeader == CoreTokenHeader
PyBearerToken == CoreBearerToken
PyBasicAuth == CoreBasicAuth

\* _LegacyHmacVerifier: one signature over the body, and no fields.
LegacyHmac == [Scheme EXCEPT !.shapes = {"documented", "noDelivery"}]

\* An app-local Provider instance.  What verify raises, _ProviderVerifier refuses.
AppLocal == BodyId

\* Endpoints set up with verification={...} under a provider name: stripe_legacy is
\* kind "stripe", the others are kind "hmac-sha256".  acme is a Provider instance.
PythonVerifier ==
  [github |-> PyGithub, stripe |-> PyStripe, shopify |-> PyShopify, slack |-> PySlack,
   postmark |-> PyPostmark, resend |-> PyResend, paddle |-> PyPaddle,
   lemon_squeezy |-> PyLemonSqueezy, standard_webhooks |-> PyStandardWebhooks,
   clerk |-> PyStandardWebhooks, twilio |-> PyTwilio, sendgrid |-> PySendgrid,
   linear |-> PyLinear, meta |-> PyMeta, discord |-> PyDiscord, zendesk |-> PyZendesk,
   intercom |-> PyIntercom, hubspot |-> PyHubspot, token_header |-> PyTokenHeader,
   bearer_token |-> PyBearerToken, basic_auth |-> PyBasicAuth,
   stripe_legacy |-> PyStripe, stripe_hmac |-> LegacyHmac, github_hmac |-> LegacyHmac,
   acme_hmac |-> LegacyHmac, acme |-> AppLocal]

NoFields == [event |-> <<>>, delivery |-> <<>>]

\* _legacy_preset, by the provider name of the endpoint.
Preset(p) ==
  CASE p \in {"stripe", "stripe_legacy", "stripe_hmac"} -> [NoFields EXCEPT !.event = <<"id">>]
    [] p \in {"github", "github_hmac"} -> [NoFields EXCEPT !.delivery = <<"x-github-delivery">>]
    [] OTHER -> NoFields

\* The event_key and delivery_key given to add_endpoint, as the guide gives them.
OwnKeys(p) ==
  IF p = "acme_hmac"
  THEN [event |-> <<"x-acme-event-id">>, delivery |-> <<"x-acme-delivery-id">>]
  ELSE NoFields

\* The preset is asked for what the verifier has not found; an extractor given to
\* add_endpoint replaces them both, also where it finds nothing.
MergedFields(found, preset, own) == IF own # <<>> THEN own ELSE found \o preset

\* _verify_and_extract: what an endpoint of the Python binding makes of a request.
PythonScheme ==
  [p \in DOMAIN PythonVerifier |->
     [PythonVerifier[p] EXCEPT
        !.event = MergedFields(@, Preset(p).event, OwnKeys(p).event),
        !.delivery = MergedFields(@, Preset(p).delivery, OwnKeys(p).delivery)]]

-----------------------------------------------------------------------------
(* The providers themselves, as the fixtures under providers/ show them.   *)

\* The identity fields of a documented request.
Carries ==
  [github |-> {"x-github-delivery"}, stripe |-> {"id"},
   shopify |-> {"x-shopify-event-id", "x-shopify-webhook-id"}, slack |-> {"event_id"},
   postmark |-> {"MessageID"}, resend |-> {"data.email_id", "svix-id"},
   paddle |-> {"event_id"}, lemon_squeezy |-> {"data.attributes.identifier"},
   standard_webhooks |-> {"id", "webhook-id"}, clerk |-> {"data.id", "svix-id"},
   twilio |-> {"CallSid"}, sendgrid |-> {"sg_event_id", "sg_message_id"},
   linear |-> {"data.id"}, meta |-> {}, discord |-> {"id"}, zendesk |-> {"ticket_id"},
   intercom |-> {"id"}, hubspot |-> {"eventId", "objectId"}, token_header |-> {"id"},
   bearer_token |-> {"id"}, basic_auth |-> {"id"},
   stripe_legacy |-> {"id"}, stripe_hmac |-> {"id"}, github_hmac |-> {"x-github-delivery"},
   acme_hmac |-> {"x-acme-event-id", "x-acme-delivery-id"}, acme |-> {"id"}]

\* Fields that name the user, mail, call, order, issue or ticket an event is about.  All
\* others name the event, and are the same each time it is sent.
ObjectFields == {"data.id", "data.email_id", "data.attributes.identifier", "MessageID",
                 "CallSid", "ticket_id", "objectId", "sg_message_id"}

\* The irregular requests that are known of a provider.
ShapesSent ==
  [p \in DOMAIN Carries |->
     {"documented"} \cup
     CASE p \in {"github", "github_hmac"} -> {"noDelivery"}
       [] p = "intercom" -> {"unprefixed"}
       [] p = "twilio" -> {"blankParameter"}
       [] p \in {"sendgrid", "linear", "hubspot", "acme"} -> {"notJson"}
       [] OTHER -> {}]

\* Those that put a proof for each of their secrets into one header.
SendsSeveralProofs == {"stripe", "stripe_legacy", "paddle", "resend", "standard_webhooks", "clerk"}
=============================================================================
