----------------------------- MODULE ServerStartup -----------------------------
(***************************************************************************)
(* How a product server gets from its command line to a listener: the      *)
(* contract of its options is located (resolve_config_path), audited,      *)
(* parsed and used to coerce (StrictConfig, which reads the file anew each *)
(* time), telemetry is described (TelemetryConfig) and the remote side is  *)
(* launched (run_augmented_http). The parser flags2env is external: what   *)
(* it makes of a contract and an argv is Parsed, and somebody may edit     *)
(* the contract between any two of its uses.                               *)
(***************************************************************************)
EXTENDS RemoteAdmission, Lists

CONSTANTS
  Deployments,     \* how the server is started: override, argv, environment, ...
  Contracts,       \* what a contract file may hold
  Situations,      \* the contracts present at first, by place
  MaxContractEdits,
  EnvironmentOnly, \* the keys is_environment_only_key names
  MaxAttributes, MaxPairs, \* MAX_RESOURCE_ATTRIBUTES, MAX_RESOURCE_ATTRIBUTE_PAIRS
  DefaultClients, DefaultOrigins

VARIABLES
  progress,   \* what is done next
  deployment, \* how the server was started
  contracts,  \* the contract at each place, if any
  edits,      \* how often somebody edited one
  path,       \* the place that was chosen
  audited,    \* history: the contract the audit read
  resolved,   \* the resolved values, by key
  described,  \* the attributes of the telemetry resource
  launch,     \* the policy of the remote side
  warm,       \* whether the key set was fetched
  report      \* the failure: its code and the names it mentions

configVars == <<path, audited, resolved>>
launchVars == <<described, launch, warm>>
startupVars == <<progress, deployment, contracts, edits, configVars, launchVars, report>>

Places == {"override", "share", "beside", "cwd"}
StandardKeys == <<"deployment", "namespace", "pod", "node", "host">>
Options(argv) == {argv[i] : i \in {j \in DOMAIN argv : argv[j].option # None}}

(* Of a deployment: its parts are of their kinds, a value is no name, and  *)
(* no contract takes two of its arguments for one key.                     *)
Ordinary(d) ==
  /\ d.standard \subseteq ToSet(StandardKeys) /\ d.raw \in Seq(ToSet(d.raw))
  /\ \A list \in {d.remote.clients, d.remote.origins} \ {None} : list \in Seq(ToSet(list))
  /\ ({a.option : a \in Options(d.argv)} \cup EnvironmentOnly \cup {"log"})
       \cap ({a.value : a \in Options(d.argv)} \cup {"good", "bad"}) = {}
  /\ \A c \in Contracts, a, b \in Options(d.argv) :
       {a.option, b.option} \subseteq DOMAIN c.options /\ c.options[a.option] = c.options[b.option]
         => a = b

ASSUME StartupConstants ==
  /\ MaxContractEdits \in Nat /\ MaxAttributes \in Nat /\ MaxPairs \in Nat
  /\ None \notin Contracts /\ Situations \subseteq [Places -> Contracts \cup {None}]
  /\ \A d \in Deployments : Ordinary(d)
  /\ DefaultClients \in Seq(ToSet(DefaultClients)) /\ DefaultOrigins \in Seq(ToSet(DefaultOrigins))
  /\ "blank" \notin ToSet(DefaultClients) \cup ToSet(DefaultOrigins)

StartupFrom(d, c) ==
  /\ progress = "locate" /\ deployment = d /\ contracts = c
  /\ edits = 0 /\ path = None /\ audited = None /\ resolved = None
  /\ described = None /\ launch = None /\ warm = FALSE /\ report = None

StartupInit == \E d \in Deployments, c \in Situations : StartupFrom(d, c)

GiveUp(code, names) == progress' = "failed" /\ report' = [code |-> code, names |-> names]
Proceed(next) == progress' = next /\ UNCHANGED report
Require(ok, code, next) == IF ok THEN Proceed(next) ELSE GiveUp(code, {})

Rewrite ==
  /\ progress \in {"locate", "audit", "parse", "coerce"} /\ edits < MaxContractEdits
  /\ \E where \in IF path = None THEN Places ELSE {path}, c \in Contracts \cup {None} :
       contracts' = [contracts EXCEPT ![where] = c]
  /\ edits' = edits + 1
  /\ UNCHANGED <<progress, deployment, configVars, launchVars, report>>

-----------------------------------------------------------------------------
(* The contract *)

(* An explicit override stands alone; else the first of the executable's   *)
(* own files. The working directory is never looked at.                    *)
Candidates ==
  IF deployment.override THEN <<"override">>
  ELSE IF deployment.owned THEN <<"share", "beside">> ELSE <<>>

Locate ==
  /\ progress = "locate"
  /\ LET found == Sifted(Candidates, {where \in Places : contracts[where] # None}) IN
       IF found = <<>>
       THEN /\ GiveUp(IF deployment.override THEN "OverrideMissing" ELSE "NotFound", {})
            /\ UNCHANGED path
       ELSE path' = found[1] /\ Proceed("snapshot")
  /\ UNCHANGED <<deployment, contracts, edits, audited, resolved, launchVars>>

(* resolve_process takes the whole environment or none of it.              *)
Snapshot ==
  /\ progress = "snapshot"
  /\ Require(deployment.unicode, "NonUnicodeEnvironment", "audit")
  /\ UNCHANGED <<deployment, contracts, edits, configVars, launchVars>>

Audit ==
  /\ progress = "audit"
  /\ audited' = contracts[path]
  /\ Require(contracts[path] # None /\ contracts[path].sound, "AuditFailed", "parse")
  /\ UNCHANGED <<deployment, contracts, edits, path, resolved, launchVars>>

-----------------------------------------------------------------------------
(* The arguments. An argument is an option with a value, or a value alone; *)
(* a value is tagged with where it comes from. No key is given twice.      *)

Parsed(c, argv) ==
  LET known == {a \in Options(argv) : a.option \in DOMAIN c.options} IN
  [errors   |-> {a \in known : a.value = None},
   unknown  |-> Options(argv) \ known,
   extras   |-> {i \in DOMAIN argv : argv[i].option = None},
   provided |-> [k \in {c.options[a.option] : a \in known} |->
                   <<"argv", (CHOOSE a \in known : c.options[a.option] = k).value>>],
   dotenv   |-> [k \in c.dotenv |-> <<"dotenv", "good">>],
   overrides |-> [k \in c.overrides |-> <<"overrides", "good">>]]

(* Which keys of the parse may not come from argv. It is asked of the keys *)
(* that this parse delivered, whatever the audit saw.                      *)
Sensitive_Audited(p) ==
  DOMAIN p.provided \cap EnvironmentOnly \cap {audited.options[o] : o \in DOMAIN audited.options}
Sensitive(p) == DOMAIN p.provided \cap EnvironmentOnly

(* validate_structured: the first complaint, with names and counts only.   *)
Acceptable(p) == p.errors = {} /\ p.unknown = {} /\ p.extras = {} /\ Sensitive(p) = {}
Objection(p) ==
  CASE p.errors # {} -> [code |-> "ParserErrors", names |-> {}]
    [] p.errors = {} /\ p.unknown # {} ->
         [code |-> "UnknownOptions", names |-> {a.option : a \in p.unknown}]
    [] p.errors = {} /\ p.unknown = {} /\ p.extras # {} ->
         [code |-> "UnexpectedPositionals", names |-> {}]
    [] OTHER -> [code |-> "SensitiveCliKeys", names |-> Sensitive(p)]

(* merge_structured: each source over the one before.                      *)
MergeSources(p) ==
  LET env == DOMAIN deployment.env
  IN  [k \in DOMAIN p.provided \cup DOMAIN p.overrides \cup env \cup DOMAIN p.dotenv |->
         IF k \in DOMAIN p.provided THEN p.provided[k]
         ELSE IF k \in DOMAIN p.overrides THEN p.overrides[k]
         ELSE IF k \in env THEN <<"env", deployment.env[k]>> ELSE p.dotenv[k]]

(* The parser may refuse: a contract that is gone since the audit, or one  *)
(* it cannot read or apply, sound or not (config lib.rs 92-94).            *)
ParseArguments ==
  /\ progress = "parse"
  /\ LET c == contracts[path] IN
       \/ GiveUp("ParseFailed", {}) /\ UNCHANGED resolved
       \/ /\ c # None
          /\ LET p == Parsed(c, deployment.argv) IN
               IF Acceptable(p) THEN resolved' = MergeSources(p) /\ Proceed("coerce")
               ELSE GiveUp(Objection(p).code, Objection(p).names) /\ UNCHANGED resolved
  /\ UNCHANGED <<deployment, contracts, edits, path, audited, launchVars>>

(* Coercion takes the values as resolved and the types of the file as is.  *)
Coerce ==
  /\ progress = "coerce"
  /\ LET c == contracts[path] IN
       Require(c # None /\ \A k \in c.numbers \cap DOMAIN resolved : resolved[k][2] = "good",
               "CoercionFailed", "describe")
  /\ UNCHANGED <<deployment, contracts, edits, configVars, launchVars>>

-----------------------------------------------------------------------------
(* Telemetry *)

OwnedKeys == {"service", "transport"} \cup ToSet(StandardKeys)

(* resource_attribute_pairs: what is well-formed, not secret and does not  *)
(* rename the service, up to a number of pairs.                            *)
Pairs(raw) ==
  LET good == Sifted(raw, {a \in ToSet(raw) : a.valid /\ ~a.secret /\ a.key # "service"})
  IN  SubSeq(good, 1, IF Len(good) < MaxPairs THEN Len(good) ELSE MaxPairs)

(* The pushes, one after the other: each key once, the first time it comes, *)
(* while there is room.                                                    *)
Gathered(attributes) ==
  LET Add(list, a) ==
        IF Len(list) >= MaxAttributes \/ a.key \in {list[i].key : i \in DOMAIN list}
        THEN list ELSE Append(list, a)
  IN  FoldLeft(Add, <<>>, attributes)

(* resource_attributes_from_snapshot: the standard ones come first.        *)
Attributes(standard, raw) ==
  LET own == [i \in DOMAIN standard |-> [key |-> standard[i], by |-> "env"]]
      custom == Sifted(Pairs(raw), {a \in ToSet(raw) : a.key \notin OwnedKeys})
  IN  Gathered(own \o [i \in DOMAIN custom |-> [key |-> custom[i].key, by |-> "claim"]])

Resolved(key) == IF key \in DOMAIN resolved THEN resolved[key][2] ELSE None

(* ServerIdentity::new *)
ValidIdentity == deployment.identity

(* validated_log_filter: what is absent or blank is the default, valid.    *)
ValidFilter == Resolved("log") # "bad"

(* OtlpEndpoint::parse, of one that is given                               *)
ValidCollector == Resolved("endpoint") # "bad"

(* TelemetryConfig::new, with_otlp_endpoint and with_resource_snapshot     *)
Describe ==
  /\ progress = "describe"
  /\ described' = Attributes(Sifted(StandardKeys, deployment.standard), deployment.raw)
  /\ CASE ~ValidIdentity                    -> GiveUp("InvalidIdentity", {})
       [] ValidIdentity /\ ~ValidFilter     -> GiveUp("InvalidLogFilter", {"log"})
       [] OTHER -> Require(ValidCollector, "InvalidEndpoint", "launch")
  /\ UNCHANGED <<deployment, contracts, edits, configVars, launch, warm>>

-----------------------------------------------------------------------------
(* The remote side *)

(* env_value: a variable that is blank counts as absent. So would one that *)
(* is not Unicode (remote.rs 189), but an environment with one has been    *)
(* refused whole (Snapshot).                                               *)
EnvValue(setting) == IF setting = <<"blank">> THEN None ELSE setting

(* csv: a list without its blanks, not empty. A setting that is absent is  *)
(* the default; one of blanks between commas is an error.                  *)
Csv(setting, default) ==
  IF EnvValue(setting) = None THEN default ELSE Sifted(setting, ToSet(setting) \ {"blank"})

PolicyOf(r) ==
  [resource |-> r.resource, issuer |-> r.issuer, jwks |-> r.jwks,
   clients |-> Csv(r.clients, DefaultClients), origins |-> Csv(r.origins, DefaultOrigins),
   scopes |-> <<"read", "inspect">>, roles |-> <<"viewer", "operator">>,
   realm |-> "ours", realm_claim |-> "project", assurance |-> 2,
   hosts |-> <<[host |-> Own, port |-> None, form |-> "plain"]>>,
   limits |-> TRUE, sessions |-> TRUE]

(* validate_spec and remote_launch: the first complaint, or None.          *)
LaunchFaults ==
  <<"identity", "graph", "missing", "invalid clients", "invalid origins", "policy", "invalid bind",
    "collision">>
ASSUME FaultsSaySomething == None \notin ToSet(LaunchFaults)

PassedBy(d, fault) ==
  LET r == d.remote
      p == PolicyOf(r)
  IN  CASE fault = "identity"        -> d.identity
        [] fault = "graph"           -> d.graph
        [] fault = "missing"         -> None \notin {r.resource, r.issuer, r.jwks}
        [] fault = "invalid clients" -> p.clients # <<>>
        [] fault = "invalid origins" -> p.origins # <<>>
        [] fault = "policy"          -> Complaint(p) = None
        [] fault = "invalid bind"    -> r.bind # Bad
        [] fault = "collision"       -> ~d.collides

LaunchFault(d) ==
  LET failed == Sifted(LaunchFaults, {f \in ToSet(LaunchFaults) : ~PassedBy(d, f)})
  IN  IF failed = <<>> THEN None ELSE failed[1]

Launch ==
  /\ progress = "launch"
  /\ IF LaunchFault(deployment) = None
     THEN launch' = PolicyOf(deployment.remote) /\ Proceed("warm")
     ELSE GiveUp(LaunchFault(deployment), {}) /\ UNCHANGED launch
  /\ UNCHANGED <<deployment, contracts, edits, configVars, described, warm>>

(* SharedAuthVerifier::new and warm: the fetch of JwksVerifier.            *)
Warm ==
  /\ progress = "warm"
  /\ warm' \in BOOLEAN
  /\ Require(warm', "jwks", "bind")
  /\ UNCHANGED <<deployment, contracts, edits, configVars, described, launch>>

(* The port may be taken.                                                  *)
Bind ==
  /\ progress = "bind"
  /\ \E free \in BOOLEAN : Require(free, "bind", "serving")
  /\ UNCHANGED <<deployment, contracts, edits, configVars, launchVars>>

StartupNext ==
  \/ Rewrite
  \/ Locate \/ Snapshot \/ Audit \/ ParseArguments \/ Coerce
  \/ Describe \/ Launch \/ Warm \/ Bind

StartupSpec == StartupInit /\ [][StartupNext]_startupVars

-----------------------------------------------------------------------------
(* No value of a secret key comes from argv, although the contract that    *)
(* names the keys may be another at the audit, at the parse and at the     *)
(* coercion (config lib.rs 85-97, 133-143), and no argument is dropped on  *)
(* the way: a server whose configuration resolved took every one.          *)
SecretsStayOutOfArgv ==
  resolved # None =>
    /\ \A k \in DOMAIN resolved : resolved[k][1] = "argv" => k \notin EnvironmentOnly
    /\ \A i \in DOMAIN deployment.argv :
         deployment.argv[i].value \in {resolved[k][2] : k \in
            {key \in DOMAIN resolved : resolved[key][1] = "argv"}}

(* The environment is under the overrides and over the dotenv file, and    *)
(* every key of it has a value.                                            *)
RanksAreKept ==
  resolved # None =>
    \A k \in DOMAIN deployment.env :
      /\ k \in DOMAIN resolved /\ resolved[k][1] # "dotenv"
      /\ resolved[k][1] = "env" => resolved[k][2] = deployment.env[k]

(* The contract in use is the override, or one of the executable's own,    *)
(* and an override that vanishes is not replaced (bootstrap 169-196).      *)
OwnedContract ==
  path # None => path \in IF deployment.override THEN {"override"} ELSE {"share", "beside"}

(* A failure mentions names, never a value (config lib.rs 287-331).        *)
DiagnosticsHoldNames ==
  report # None =>
    report.names \cap ({a.value : a \in Options(deployment.argv)} \cup {"good", "bad"}) = {}

(* The resource says what the environment says of pod, node and host,      *)
(* whatever the caller's list claims; nothing twice, and a claim is left   *)
(* out only for a reason (telemetry resource.rs 28-59).                    *)
AttributesAreOwned ==
  described # None =>
    /\ Len(described) <= MaxAttributes
    /\ \A i, j \in DOMAIN described : described[i].key = described[j].key => i = j
    /\ \A i \in DOMAIN described :
         described[i].key \in OwnedKeys <=> described[i].by = "env"
    /\ Len(described) < MaxAttributes =>
         {described[i].key : i \in DOMAIN described}
           = deployment.standard
             \cup ({Pairs(deployment.raw)[i].key : i \in DOMAIN Pairs(deployment.raw)} \ OwnedKeys)

(* A listener is bound only behind a complete policy, with the keys at     *)
(* hand, and then the server answers to the host of its own resource       *)
(* (remote.rs 56-61); what it lets in was set, unless nothing was: blanks  *)
(* among commas never open the defaults, though a blank variable does.     *)
BoundBehindPolicy ==
  progress = "serving" =>
    /\ warm /\ Complaint(launch) = None
    /\ {HeaderAuthority(sp) : sp \in ToSet(launch.hosts)} = {<<Own, 443>>}
    /\ deployment.remote.clients \notin {None, <<"blank">>} =>
         ToSet(launch.clients) \subseteq ToSet(deployment.remote.clients)
    /\ deployment.remote.origins \notin {None, <<"blank">>} =>
         ToSet(launch.origins) \subseteq ToSet(deployment.remote.origins)
    /\ "blank" \notin ToSet(launch.clients) \cup ToSet(launch.origins)

StartupIsTrue ==
  /\ SecretsStayOutOfArgv /\ RanksAreKept /\ OwnedContract
  /\ DiagnosticsHoldNames /\ AttributesAreOwned /\ BoundBehindPolicy
=============================================================================
