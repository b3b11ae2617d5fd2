---------------------------- MODULE RemoteAdmission ----------------------------
(***************************************************************************)
(* What a request to a remote server must be before the product sees it:   *)
(* the policy of RemoteAuthPolicy::new and RemoteMcpConfig::new, and the   *)
(* layers protected_mcp_router puts around /mcp, outermost first: the      *)
(* inbound authority and origin, the bearer token and its claims, the      *)
(* session, the bound on the body. The key cache (JwksVerifier) and the    *)
(* session table (RemoteSessions) answer here as they may.                 *)
(*                                                                         *)
(* A host, a client, a scope or a role is a value; Bad is one that is      *)
(* empty, too long or of forbidden characters. A spelling is a way to      *)
(* write an authority: plain; with a dot at its end; in Unicode (idn); or  *)
(* as something that is no authority (junk).                               *)
(***************************************************************************)
EXTENDS Integers, Sequences, SequencesExt

CONSTANTS
  Policies,     \* the configurations tried
  Requests(_),  \* the requests tried under each
  Own,       \* the host of the protected resource
  None,      \* an absent claim, header or authority
  Bad,       \* a malformed one
  Now, Skew, \* the clock, and CLOCK_SKEW_SECONDS
  MaxItems,  \* the bound on lists
  MaxBody    \* request_body_max_bytes

ASSUME AdmissionConstants ==
  /\ Now \in Nat /\ Skew \in Nat /\ MaxItems \in Nat \ {0} /\ MaxBody \in Nat
  /\ None # Bad /\ Own \notin {None, Bad}
  /\ None \notin {"served", "missing", "invalid", "forbidden", "unavailable", "capacity"}

(* A client is named, and an assurance level is one of three. *)
ASSUME PoliciesOK ==
  \A p \in Policies : None \notin ToSet(p.clients) /\ p.assurance \in 1..3

VARIABLES
  layer,    \* where the request is
  policy,   \* the accepted configuration
  request,  \* the request
  answer,   \* what became of either
  looked    \* history: what was looked at for the request

admissionVars == <<layer, policy, request, answer, looked>>

AdmissionInit ==
  /\ layer = "new" /\ policy = None /\ request = None /\ answer = None
  /\ looked = {}

-----------------------------------------------------------------------------
(* Configuration *)

Port(sp) == IF sp.port = None THEN 443 ELSE sp.port

(* policy.rs normalized_host: Url reads Unicode hosts.                     *)
UrlAuthority(sp) == IF sp.form = "junk" THEN None ELSE <<sp.host, Port(sp)>>

(* router.rs normalized_authority: an http Authority is ASCII.             *)
Ascii(sp) == sp.form \notin {"junk", "idn"}
HeaderAuthority(sp) == IF Ascii(sp) THEN <<sp.host, Port(sp)>> ELSE None

(* validated_set, claim_set: some valid items, none of them twice.         *)
ValidSet(list) ==
  /\ list # <<>> /\ Len(list) <= MaxItems
  /\ Bad \notin ToSet(list) /\ IsInjective(list)

ValidHosts(hosts) ==
  /\ hosts # <<>> /\ Len(hosts) <= MaxItems
  /\ LET names == [i \in DOMAIN hosts |-> UrlAuthority(hosts[i])] IN
       /\ IsInjective(names)
       /\ <<Own, 443>> \in ToSet(names) /\ None \notin ToSet(names)

(* What RemoteAuthPolicy::new, RemoteMcpConfig::new and the two setters    *)
(* complain of, in this order.                                             *)
Complaints ==
  <<"InvalidResource", "InvalidIssuer", "InvalidJwksUrl", "AuthorityHostMismatch",
    "InvalidAuthorizedClients", "InvalidRequiredScopes", "InvalidRoles", "InvalidRealm",
    "InvalidAllowedHosts", "InvalidAllowedOrigins", "InvalidBodyLimit", "InvalidSessionLimit">>

SatisfiedBy(p, complaint) ==
  CASE complaint = "InvalidResource"          -> p.resource = "mcp"
    [] complaint = "InvalidIssuer"            -> p.issuer # Bad
    [] complaint = "InvalidJwksUrl"           -> p.jwks # Bad
    [] complaint = "AuthorityHostMismatch"    -> p.issuer = p.jwks
    [] complaint = "InvalidAuthorizedClients" -> ValidSet(p.clients)
    [] complaint = "InvalidRequiredScopes"    -> ValidSet(p.scopes)
    [] complaint = "InvalidRoles"             -> ValidSet(p.roles)
    [] complaint = "InvalidRealm"             -> p.realm # Bad
    [] complaint = "InvalidAllowedHosts"      -> ValidHosts(p.hosts)
    [] complaint = "InvalidAllowedOrigins"    -> ValidSet(p.origins)
    [] complaint = "InvalidBodyLimit"         -> p.limits
    [] complaint = "InvalidSessionLimit"      -> p.sessions

ASSUME ComplaintsSaySomething == \A i \in 1..12 : Complaints[i] # None

(* The first complaint, or None.                                           *)
Complaint(p) ==
  LET failed == {i \in 1..12 : ~SatisfiedBy(p, Complaints[i])}
  IN  IF failed = {} THEN None
      ELSE Complaints[CHOOSE i \in failed : \A j \in failed : i <= j]

Configure ==
  /\ layer = "new"
  /\ \E p \in Policies :
       /\ answer' = Complaint(p)
       /\ IF answer' = None
          THEN policy' = p /\ layer' = "listening"
          ELSE UNCHANGED policy /\ layer' = "answered"
  /\ UNCHANGED <<request, looked>>

-----------------------------------------------------------------------------
(* The layers. A request passes one or is answered by it. *)

Pass(next) == layer' = next /\ UNCHANGED <<policy, request, answer>>
Refuse(how) == layer' = "answered" /\ answer' = how /\ UNCHANGED <<policy, request>>
Look(what) == looked' = looked \cup {what}

(* A public path has no layers; readiness is the state of the key cache.   *)
Receive ==
  /\ layer = "listening"
  /\ request' \in Requests(policy)
  /\ IF request'.path = "mcp"
     THEN layer' = "authority" /\ UNCHANGED answer
     ELSE /\ layer' = "answered"
          /\ answer' \in IF request'.path = "ready" THEN {"public", "not_ready"} ELSE {"public"}
  /\ UNCHANGED <<policy, looked>>

(* The Host header, once, or without one the target of the request.        *)
InboundAuthority ==
  CASE Len(request.host) = 1 -> HeaderAuthority(request.host[1])
    [] request.host = <<>> /\ request.uri # None -> HeaderAuthority(request.uri)
    [] OTHER -> None

AllowedAuthorities == {HeaderAuthority(sp) : sp \in {h \in ToSet(policy.hosts) : Ascii(h)}}

CheckAuthority ==
  /\ layer = "authority"
  /\ IF InboundAuthority = None THEN Refuse("invalid_authority")
     ELSE IF InboundAuthority \in AllowedAuthorities THEN Pass("origin")
     ELSE Refuse("forbidden_authority")
  /\ UNCHANGED looked

(* A request without an Origin is a server's and goes on.                  *)
CheckOrigin ==
  /\ layer = "origin"
  /\ CASE request.origin = <<>> -> Pass("bearer")
       [] Len(request.origin) > 1 \/ Bad \in ToSet(request.origin) -> Refuse("invalid_origin")
       [] OTHER -> IF request.origin[1] \in ToSet(policy.origins)
                   THEN Pass("bearer") ELSE Refuse("forbidden_origin")
  /\ UNCHANGED looked

(* bearer_token, valid_access_token and the header of the token.           *)
CheckBearer ==
  /\ layer = "bearer"
  /\ CASE request.authorization = <<>> -> Refuse("missing")
       [] request.authorization = <<"bearer">> /\ request.token = "es256" -> Pass("keys")
       [] OTHER -> Refuse("invalid")
  /\ UNCHANGED looked

(* verify_with_keys: the signature under the cached key, claims of the     *)
(* types SharedAuthClaims declares, and what jsonwebtoken validates.       *)
Decodes(q) ==
  /\ q.signed /\ q.typed /\ q.issuer = "ours"
  /\ q.aud \in {"exact", "several"}
  /\ q.exp >= Now - Skew /\ q.nbf <= Now + Skew

(* The key is known to the cache, published (a refresh brings it), unknown *)
(* for good, or rekeyed: upstream published other material under its id,   *)
(* and as the id is known the keys are not asked for again. They may also  *)
(* be out of reach, now or when they are asked for again.                  *)
CheckKey ==
  /\ layer = "keys"
  /\ Look("keys")
  /\ \/ Refuse("unavailable")
     \/ /\ request.key = "unknown"
        /\ Refuse("invalid")
     \/ /\ request.key \in {"known", "published"} /\ Decodes(request)
        /\ Pass("claims")
     \/ /\ request.key \in {"known", "published", "rekeyed"}
        /\ request.key = "rekeyed" \/ ~Decodes(request)
        /\ Refuse("invalid")

-----------------------------------------------------------------------------
(* Claims *)

(* AudienceClaim::is_exact: jsonwebtoken is content with one of several.   *)
ExactAudience_One(q) == q.aud \in {"exact", "several"}
ExactAudience(q) == q.aud = "exact"

Coherent(q) ==
  ExactAudience(q) /\ q.iat <= Now + Skew /\ q.iat <= q.exp /\ q.nbf <= q.exp

(* azp and client_id, of which one may be absent but none may differ.      *)
AuthorizedClient(q) ==
  IF q.azp # None /\ q.client_id # None /\ q.azp # q.client_id THEN None
  ELSE IF q.azp # None THEN q.azp ELSE q.client_id

(* aal and acr; what is not a level counts as absent.                      *)
AssuranceLevel(q) ==
  LET fromAal == IF q.aal \in 1..3 THEN q.aal ELSE 0
      fromAcr == IF q.acr \in 1..3 THEN q.acr ELSE 0
  IN  IF fromAal # 0 /\ fromAcr # 0 /\ fromAal # fromAcr THEN 0
      ELSE IF fromAal # 0 THEN fromAal ELSE fromAcr

Entitling(q) ==
  /\ AuthorizedClient(q) \in ToSet(policy.clients)
  /\ q.sid = "valid"
  /\ q.realms[policy.realm_claim] = policy.realm
  /\ AssuranceLevel(q) >= policy.assurance
  /\ q.scope # None /\ ValidSet(q.scope) /\ ToSet(policy.scopes) \subseteq ToSet(q.scope)
  /\ ValidSet(q.roles) /\ ToSet(policy.roles) \cap ToSet(q.roles) # {}
  /\ ValidSet(q.amr)

AuthorizeClaims ==
  /\ layer = "claims"
  /\ \/ request.sub = Bad /\ Refuse("forbidden")
     \/ request.sub # Bad /\ ~Coherent(request) /\ Refuse("invalid")
     \/ /\ request.sub # Bad /\ Coherent(request)
        /\ IF Entitling(request) THEN Pass("session") ELSE Refuse("forbidden")
  /\ UNCHANGED looked

(* The Mcp-Session-Id, and the session table, which may refuse a session   *)
(* of another principal or one too many.                                   *)
CheckSession ==
  /\ layer = "session"
  /\ IF Len(request.session) > 1 \/ Bad \in ToSet(request.session)
     THEN Refuse("forbidden")
     ELSE \/ Pass("body")
          \/ request.session # <<>> /\ Refuse("forbidden")
          \/ request.session = <<>> /\ Refuse("capacity")
  /\ UNCHANGED looked

(* to_bytes reads the body up to the bound.                                *)
BoundBody ==
  /\ layer = "body"
  /\ Look("body")
  /\ IF request.body <= MaxBody THEN Refuse("served") ELSE Refuse("too_large")

AdmissionNext ==
  \/ Configure \/ Receive
  \/ CheckAuthority \/ CheckOrigin \/ CheckBearer
  \/ CheckKey \/ AuthorizeClaims \/ CheckSession \/ BoundBody

AdmissionSpec == AdmissionInit /\ [][AdmissionNext]_admissionVars

-----------------------------------------------------------------------------
(* What a token says, regardless of the order in which it is read. *)

Verified(q) == q.authorization = <<"bearer">> /\ q.token = "es256" /\ Decodes(q)

Genuine(q) ==
  /\ Verified(q) /\ q.aud = "exact"
  /\ q.iat <= Now + Skew /\ q.exp >= q.iat /\ q.exp >= q.nbf

Entitled(q) ==
  /\ q.sub # Bad /\ q.sid = "valid"
  /\ \E c \in ToSet(policy.clients) : {q.azp, q.client_id} \ {None} = {c}
  /\ \E n \in policy.assurance..3 : {q.aal, q.acr} \cap 1..3 = {n}
  /\ q.realms[policy.realm_claim] = policy.realm
  /\ \E wanted \in ToSet(policy.roles) : wanted \in ToSet(q.roles)
  /\ q.scope # None /\ \A s \in ToSet(policy.scopes) : s \in ToSet(q.scope)
  /\ ValidSet(q.scope) /\ ValidSet(q.roles) /\ ValidSet(q.amr)

FromInside(q) ==
  /\ LET named == IF q.host = <<>> /\ q.uri # None THEN <<q.uri>> ELSE q.host IN
       Len(named) = 1 /\ HeaderAuthority(named[1]) \in AllowedAuthorities
  /\ ToSet(q.origin) \subseteq ToSet(policy.origins)

(* The product sees a request of an allowed authority and origin whose     *)
(* token is genuine and entitles its bearer, and no other.                 *)
ServedIsEntitled ==
  answer = "served" =>
    FromInside(request) /\ Genuine(request) /\ Entitled(request) /\ request.body <= MaxBody

(* Nothing is looked at before its turn: no key is asked for on behalf of  *)
(* a foreign site or of what is no token, and no body is read of a caller  *)
(* who is not entitled (router.rs 140-150, verifier.rs 205-217).           *)
LookedInTurn ==
  /\ "keys" \in looked =>
       /\ FromInside(request)
       /\ request.authorization = <<"bearer">> /\ request.token = "es256"
  /\ "body" \in looked => Genuine(request) /\ Entitled(request)

(* The blame is true: forbidden is said only of a token the authority      *)
(* signed for this resource, invalid never of a genuine one of a key id    *)
(* that still stands for its key, and unavailable of no token at fault     *)
(* before the keys (verifier.rs 190-200).                                  *)
BlameIsTrue ==
  /\ answer = "forbidden" => Verified(request)
  /\ answer = "invalid" =>
       ~Genuine(request) \/ request.key \in {"unknown", "rekeyed"}
  /\ answer = "missing" => request.authorization = <<>>
  /\ answer \in {"unavailable", "capacity"} => FromInside(request) /\ request.token = "es256"

(* A server that was configured serves its own resource: its authority is  *)
(* allowed, unless the allowlist spells it in Unicode only, which a Host   *)
(* header cannot match (policy.rs 543-587, router.rs 182-190).             *)
ServesItself ==
  policy # None =>
    \/ <<Own, 443>> \in AllowedAuthorities
    \/ \A sp \in ToSet(policy.hosts) : UrlAuthority(sp) = <<Own, 443>> => sp.form = "idn"

AdmissionIsEntitled == ServedIsEntitled /\ LookedInTurn /\ BlameIsTrue /\ ServesItself
=============================================================================
