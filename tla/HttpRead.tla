------------------------------- MODULE HttpRead -------------------------------
(***************************************************************************)
(* One read through the hardened HTTP client: HardenedHttpClient::new, get *)
(* and prepare_get, the endpoint policy they ask, the BoundedBody the      *)
(* response goes through, and the state classify_status makes of it. The   *)
(* upstream is anybody: it may redirect, declare one length and send       *)
(* another, or break off.                                                  *)
(***************************************************************************)
EXTENDS Integers, Sequences, SequencesExt

CONSTANTS
  HttpPolicies,        \* the policies a client is made with
  HttpReads,           \* the calls of get: endpoint, allowed hosts, headers, credentials
  Statuses,            \* the statuses upstream answers with
  MinLimit, MaxLimit,  \* the range of BoundedBytes (1 KiB to 16 MiB)
  MaxTimeout,          \* the longest deadline (60 s)
  Loopback,            \* the hosts is_loopback recognises
  Absent               \* an absent value

ASSUME HttpConstants ==
  /\ MinLimit \in Nat \ {0} /\ MaxLimit \in Nat /\ MinLimit <= MaxLimit
  /\ MaxTimeout \in Nat /\ Statuses \subseteq Nat
  /\ Absent \notin {"ready", "unauthorized", "forbidden", "degraded",
                   "declared_too_large", "streamed_too_large"}

VARIABLES
  stage,    \* how far the read is
  client,   \* the policy of the client, once it was accepted
  read,     \* the call
  sent,     \* history: the request as it left, if it did
  reply,    \* status and declared length of the response
  body,     \* the bytes retained
  arrived,  \* history: the bytes that arrived
  outcome   \* what get returned

httpVars == <<stage, client, read, sent, reply, body, arrived, outcome>>

HttpInit ==
  /\ stage = "new" /\ client = Absent /\ read = Absent /\ sent = Absent
  /\ reply = Absent /\ body = 0 /\ arrived = 0 /\ outcome = Absent

Return(how) == stage' = "done" /\ outcome' = how

-----------------------------------------------------------------------------
(* The client *)

(* BoundedBytes::new *)
ValidLimit(limit) == limit \in MinLimit..MaxLimit

NewClient ==
  /\ stage = "new"
  /\ \E p \in HttpPolicies :
       IF p.redirects \/ p.timeout = 0 \/ p.timeout > MaxTimeout \/ ~ValidLimit(p.limit)
       THEN Return("invalid_policy") /\ UNCHANGED client
       ELSE client' = p /\ stage' = "ready" /\ UNCHANGED outcome
  /\ UNCHANGED <<read, sent, reply, body, arrived>>

-----------------------------------------------------------------------------
(* Preparing the request *)

(* parse_endpoint's complaint about an endpoint, or None *)
EndpointFault(e) ==
  IF e.form = "malformed" THEN "malformed"
  ELSE IF e.user THEN "credentials_in_url"
  ELSE IF e.fragment THEN "fragment"
  ELSE IF e.scheme \notin {"http", "https"} THEN "unsupported_scheme"
  ELSE IF e.scheme = "http" /\ ~(client.loopback /\ e.host \in Loopback) THEN "insecure"
  ELSE "none"

(* parse_bearer_endpoint: a whole host of the list; a blank entry is none. *)
HostListed(r) == r.endpoint.host \in ToSet(r.allowed) \ {Absent}

(* is_credential_header, valid_header_value *)
HeaderOk(h) == h.name = "public" /\ h.value = "printable"

(* bearer_header and secret_header take graphic ASCII of a bounded length. *)
CredentialOk(c) == c = "graphic"

Prepare ==
  /\ stage = "ready"
  /\ read' \in HttpReads
  /\ CASE EndpointFault(read'.endpoint) # "none" ->
            Return(EndpointFault(read'.endpoint)) /\ UNCHANGED sent
       [] EndpointFault(read'.endpoint) = "none" /\ ~HostListed(read') ->
            Return("host_not_allowed") /\ UNCHANGED sent
       [] OTHER ->
            IF \E h \in ToSet(read'.headers) : ~HeaderOk(h)
            THEN Return("invalid_public_header") /\ UNCHANGED sent
            ELSE IF \E c \in ToSet(read'.credentials) : ~CredentialOk(c)
            THEN Return("invalid_credential") /\ UNCHANGED sent
            ELSE /\ stage' = "sent"
                 /\ sent' = [endpoint |-> read'.endpoint, secrets |-> read'.credentials]
                 /\ UNCHANGED outcome
  /\ UNCHANGED <<client, reply, body, arrived>>

-----------------------------------------------------------------------------
(* The response *)

(* DNS, connection, TLS or the deadline, before the head or in the body    *)
TransportFails ==
  /\ stage \in {"sent", "streaming"}
  /\ Return("transport")
  /\ UNCHANGED <<client, read, sent, reply, body, arrived>>

(* The head. A redirect is a response like another; a declared length past *)
(* the limit is refused before any byte is read, and so is the status.     *)
Respond ==
  /\ stage = "sent"
  /\ \E status \in Statuses, declared \in {Absent} \cup 0..(MaxLimit + 1) :
       /\ reply' = [status |-> status, declared |-> declared]
       /\ IF declared # Absent /\ declared > client.limit
          THEN Return("declared_too_large")
          ELSE stage' = "streaming" /\ UNCHANGED outcome
  /\ UNCHANGED <<client, read, sent, body, arrived>>

(* BoundedBytes::extend_from_slice: a chunk fits whole or not at all.      *)
Fits_Late(n) == body <= client.limit
Fits(n) == body + n <= client.limit

(* A chunk. The transport lets no more through than was declared.          *)
ChunkArrives ==
  /\ stage = "streaming"
  /\ \E n \in 0..(MaxLimit + 1) :
       /\ arrived + n <= IF reply.declared = Absent THEN MaxLimit + 1 ELSE reply.declared
       /\ arrived' = arrived + n
       /\ IF Fits(n)
          THEN body' = body + n /\ UNCHANGED <<stage, outcome>>
          ELSE Return("streamed_too_large") /\ UNCHANGED body
  /\ UNCHANGED <<client, read, sent, reply>>

(* classify_status *)
StateOf(status) ==
  CASE status \in 200..299 -> "ready"
    [] status = 401 -> "unauthorized"
    [] status = 403 -> "forbidden"
    [] OTHER -> "degraded"

(* The end of the body; the transport takes a short one for a failure.     *)
BodyEnds ==
  /\ stage = "streaming"
  /\ reply.declared \in {Absent, arrived}
  /\ Return(StateOf(reply.status))
  /\ UNCHANGED <<client, read, sent, reply, body, arrived>>

HttpNext ==
  \/ NewClient \/ Prepare
  \/ TransportFails \/ Respond \/ ChunkArrives \/ BodyEnds

HttpSpec == HttpInit /\ [][HttpNext]_httpVars

-----------------------------------------------------------------------------
States == {"ready", "unauthorized", "forbidden", "degraded"}

(* What leaves the process goes, with its secrets, to a host the caller    *)
(* named and over TLS, or to this very machine (lib.rs 92-117).            *)
SecretsGoWhereTold ==
  sent # Absent =>
    /\ sent.endpoint.form # "malformed" /\ ~sent.endpoint.user
    /\ sent.endpoint.host \in ToSet(read.allowed)
    /\ sent.endpoint.scheme = "https" \/ sent.endpoint.host \in Loopback

(* What the caller is told of a state is a whole answer: every byte that   *)
(* was sent, no more than the policy allows (client.rs 92-96).             *)
AnswersAreWhole ==
  outcome \in States =>
    /\ body = arrived /\ body <= client.limit
    /\ reply.declared # Absent => body = reply.declared

(* A refusal is read as one unless its own body hides it: it is reported   *)
(* otherwise only when it was too large for the limit or broke off         *)
(* (client.rs 171-185, where the body is bounded before the status is      *)
(* classified); a redirect never reads as an answer of its target.         *)
RefusalsAreRead ==
  /\ stage = "done" /\ reply # Absent /\ reply.status \in {401, 403} =>
       \/ outcome = IF reply.status = 401 THEN "unauthorized" ELSE "forbidden"
       \/ outcome = "transport"
       \/ outcome = "declared_too_large" /\ reply.declared > client.limit
       \/ outcome = "streamed_too_large" /\ arrived > client.limit
  /\ outcome = "ready" => reply.status \notin 300..399

(* The two overflows are told apart by whether the length was announced,   *)
(* and an announced one costs no byte (body.rs 30-61).                     *)
OverflowIsTrue ==
  /\ outcome = "declared_too_large" => arrived = 0 /\ reply.declared > client.limit
  /\ outcome = "streamed_too_large" =>
       arrived > client.limit /\ body <= client.limit /\ reply.declared = Absent

(* A read returns what happened: the four above. *)
HttpReadIsTrue ==
  SecretsGoWhereTold /\ AnswersAreWhole /\ RefusalsAreRead /\ OverflowIsTrue
=============================================================================
