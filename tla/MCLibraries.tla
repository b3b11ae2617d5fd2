------------------------------ MODULE MCLibraries ------------------------------
(***************************************************************************)
(* The parts that work on one call at a time. They do not touch each       *)
(* other's state, so each behaviour is one of one of them: subject.        *)
(***************************************************************************)
EXTENDS RemoteAdmission, HttpRead, AugmentedCatalog, ConformanceRun, ServerStartup,
        Audits

VARIABLE subject

vars == <<subject, admissionVars, httpVars, catalogVars, conformanceVars, startupVars, auditVars>>

-----------------------------------------------------------------------------
(* Records that deviate from a good one in at most two or one fields. *)
Near(good, values, n) ==
  LET one == UNION {{[good EXCEPT ![f] = v] : v \in values[f]} : f \in DOMAIN values}
  IN  IF n = 1 THEN one
      ELSE UNION {UNION {{[r EXCEPT ![f] = v] : v \in values[f]} : f \in DOMAIN values} : r \in one}

Plain(h) == [host |-> h, port |-> None, form |-> "plain"]
Spelled(h) ==
  {Plain(h), [Plain(h) EXCEPT !.form = "dot"], [Plain(h) EXCEPT !.form = "idn"],
   [Plain(h) EXCEPT !.form = "junk"], [Plain(h) EXCEPT !.port = 443],
   [Plain(h) EXCEPT !.port = 8443]}
Lists == {<<>>, <<"a">>, <<"b">>, <<"b", "a">>, <<"a", "a">>, <<"a", Bad>>, <<"a", "b", "c">>}

GoodPolicy ==
  [resource |-> "mcp", issuer |-> "auth", jwks |-> "auth", clients |-> <<"a">>,
   scopes |-> <<"a">>, roles |-> <<"a">>, realm |-> "ours", realm_claim |-> "project",
   assurance |-> 2, hosts |-> <<Plain(Own)>>, origins |-> <<"a">>,
   limits |-> TRUE, sessions |-> TRUE]
PolicyValues ==
  [resource |-> {"other"}, issuer |-> {Bad, "else"}, jwks |-> {Bad, "else"}, clients |-> Lists,
   scopes |-> Lists, roles |-> Lists, realm |-> {Bad},
   realm_claim |-> {"realm", "tenant_id"}, assurance |-> {1, 3},
   hosts |-> {<<>>} \cup {<<sp>> : sp \in Spelled(Own) \cup {Plain("else")}}
             \cup {<<Plain("else"), sp>> : sp \in Spelled(Own) \cup {Plain("else")}}
             \cup {<<Plain(Own), sp>> : sp \in Spelled(Own)},
   origins |-> Lists, limits |-> {FALSE}, sessions |-> {FALSE}]
SomePolicies == {GoodPolicy} \cup Near(GoodPolicy, PolicyValues, 1)

Realms == [{"realm", "project", "tenant_id"} -> {None, "ours", "else"}]
GoodRequest ==
  [path |-> "mcp", host |-> <<Plain(Own)>>, uri |-> None, origin |-> <<>>,
   authorization |-> <<"bearer">>, token |-> "es256", key |-> "known", signed |-> TRUE, typed |-> TRUE,
   issuer |-> "ours", aud |-> "exact", iat |-> Now, nbf |-> Now, exp |-> Now + 1,
   sub |-> "user", azp |-> "a", client_id |-> None, sid |-> "valid",
   realms |-> [c \in {"realm", "project", "tenant_id"} |-> IF c = "project" THEN "ours" ELSE None],
   aal |-> 2, acr |-> None, scope |-> <<"a">>, roles |-> <<"a">>, amr |-> <<"a">>,
   session |-> <<>>, body |-> MaxBody]
RequestValues ==
  [path |-> {"metadata", "live", "ready"},
   host |-> {<<>>, <<Plain(Own), Plain(Own)>>} \cup {<<sp>> : sp \in Spelled(Own) \cup {Plain("else")}},
   uri |-> {Plain(Own), Plain("else")},
   origin |-> {<<"a">>, <<"b">>, <<Bad>>, <<"a", "a">>},
   authorization |-> {<<>>, <<"basic">>, <<"bearer", "bearer">>},
   token |-> {"malformed", "other_alg", "no_kid"},
   key |-> {"published", "unknown", "rekeyed"}, signed |-> {FALSE}, typed |-> {FALSE}, issuer |-> {"else"},
   aud |-> {"several", "other"}, iat |-> 0..(2 * Now), nbf |-> 0..(2 * Now), exp |-> 0..(2 * Now),
   sub |-> {Bad}, azp |-> {None, "b", Bad}, client_id |-> {"a", "b", Bad}, sid |-> {Bad},
   realms |-> Realms, aal |-> {None, 1, 3, Bad}, acr |-> {1, 2, 3, Bad},
   scope |-> Lists \cup {None}, roles |-> Lists, amr |-> Lists,
   session |-> {<<"s">>, <<Bad>>, <<"s", "s">>}, body |-> 0..(MaxBody + 1)]
SomeRequests(p) == Near(GoodRequest, RequestValues, IF p = GoodPolicy THEN 2 ELSE 1)

-----------------------------------------------------------------------------
SomeHttpPolicies ==
  [redirects : BOOLEAN, timeout : 0..(MaxTimeout + 1), limit : (MinLimit - 1)..(MaxLimit + 1),
   loopback : BOOLEAN]
GoodRead ==
  [endpoint |-> [form |-> "ok", user |-> FALSE, fragment |-> FALSE, scheme |-> "https",
                 host |-> "api"],
   allowed |-> <<"api">>, headers |-> <<>>, credentials |-> <<"graphic">>]
Endpoints ==
  [form : {"ok", "malformed"}, user : BOOLEAN, fragment : BOOLEAN,
   scheme : {"https", "http", "ftp"}, host : {"api", "local", "else"}]
HeadersTried == [name : {"public", "credential", "malformed"}, value : {"printable", "other"}]
ReadValues ==
  [endpoint |-> Endpoints, allowed |-> {<<>>, <<None>>, <<"else">>, <<"api", "local">>},
   headers |-> {<<h>> : h \in HeadersTried}
               \cup {<<[name |-> "public", value |-> "printable"], h>> : h \in HeadersTried},
   credentials |-> {<<>>, <<"other">>, <<"graphic", "graphic">>, <<"graphic", "other">>}]
SomeReads == Near(GoodRead, ReadValues, 2)

-----------------------------------------------------------------------------
(* Two names of the fleet's, one more in its scope, two of nobody's. *)
SharedNames(k) == {2, 3}
ScopeOf(k) == IF k = "resources" THEN {2, 3, 4} ELSE {2, 3}
AllNames == 1..5
SomePages == {<<>>, <<1>>, <<2>>, <<4>>, <<5, 1>>, <<4, 2>>, <<3, 1>>, <<2, 3>>, <<1, 1>>}
SomeLists == {<<p>> : p \in SomePages} \cup {<<p, q>> : p \in SomePages, q \in SomePages}
Listed(pages) == UNION {ToSet(pages[n]) : n \in DOMAIN pages}
SomePrimaries ==
  UNION {[kind : {k}, valid : {TRUE}, pages : {pages},
          knows : {Listed(pages), Listed(pages) \ {2, 3}},
          serves : {Listed(pages), Listed(pages) \ {2}, {}}] : k \in Kinds, pages \in SomeLists}
  \cup {[kind |-> "tools", valid |-> FALSE, pages |-> <<<<>>>>, knows |-> ks, serves |-> {}] :
         ks \in {{}, {2}}}

-----------------------------------------------------------------------------
Text(v) == [form |-> "json", size |-> 1, depth |-> 1, twice |-> FALSE, value |-> v]
TextValues ==
  [form |-> {"junk"}, size |-> {MaxReply + 1}, depth |-> {MaxDepth + 1}, twice |-> {TRUE}]
Operation(n) ==
  [name |-> n, surface |-> "regular", encoding |-> "json_text", declared |-> TRUE,
   valid |-> <<"good">>, invalid |-> <<"bad">>, expected |-> "us"]
OperationValues ==
  [name |-> {Nil}, surface |-> {Nil, "admin"}, encoding |-> {Nil, "structured"},
   declared |-> {FALSE}, valid |-> {<<>>, <<"bad">>, <<"split">>, <<"good", "good">>},
   invalid |-> {<<>>, <<"good">>, <<"split">>}, expected |-> {Nil}]
Manifest(tools) ==
  [version |-> "2025-11-25", coverage |-> "exact-tools", class |-> "regular", tools |-> tools]
ManifestValues ==
  [version |-> {Nil}, coverage |-> {Nil, "declared-tools-only"}, class |-> {Nil, "admin"},
   tools |-> {<<>>, <<Operation(1), Operation(2)>>, <<Operation(1), Operation(1)>>}
             \cup {<<op>> : op \in Near(Operation(1), OperationValues, 1)}]
SomeManifests ==
  {Text(m) : m \in {Manifest(<<Operation(1)>>)} \cup Near(Manifest(<<Operation(1)>>), ManifestValues, 2)}
  \cup Near(Text(Manifest(<<Operation(1)>>)), TextValues, 1)

Tool(n) == [name |-> n, input |-> "admitted", output |-> Nil]
SomeCatalogs(m) ==
  LET good == [cursor |-> FALSE, tools |-> [i \in DOMAIN m.tools |-> Tool(m.tools[i].name)]]
      more == good.tools
  IN  {good, [good EXCEPT !.cursor = TRUE],
       [good EXCEPT !.tools = Append(more, Tool(9))],
       [good EXCEPT !.tools = Append(more, Tool(1))],
       [good EXCEPT !.tools = Tail(more)],
       [good EXCEPT !.tools[1].input = "drifted"],
       [good EXCEPT !.tools[1].output = "admitted"],
       [good EXCEPT !.tools[1].output = "drifted"]}

GoodResponse ==
  [error |-> Nil, isError |-> Nil, structured |-> Nil, text |-> Text("good"), identity |-> "us"]
ResponseValues ==
  [error |-> {-32602, -32603}, isError |-> BOOLEAN, structured |-> {"good", "bad", "split"},
   text |-> {Nil, Text("bad"), Text("split"), [Text("good") EXCEPT !.twice = TRUE]},
   identity |-> {Nil}]
SomeResponses ==
  {GoodResponse} \cup Near(GoodResponse, ResponseValues, 2)
  \cup {[GoodResponse EXCEPT !.text = t] : t \in Near(Text("good"), TextValues, 1)}

-----------------------------------------------------------------------------
(* Two contracts that give one option two meanings, and an unsound one.    *)
Contract(first, dotenvKeys, overrideKeys, sound) ==
  [sound |-> sound, options |-> [o \in {"one", "two"} |-> IF o = "one" THEN first ELSE "log"],
   dotenv |-> dotenvKeys, overrides |-> overrideKeys, numbers |-> {"port"}]
SomeContracts ==
  {Contract("port", {"log", "token"}, {}, TRUE), Contract("token", {"log"}, {"endpoint"}, TRUE),
   Contract("port", {}, {"port"}, FALSE)}
Sound == Contract("port", {"log", "token"}, {}, TRUE)
SomewhereSound == [where \in Places |-> Sound]
SomeSituations ==
  {[where \in Places |-> IF where \in present THEN Sound ELSE None] :
     present \in {{"cwd", "share"}, {"cwd", "beside"}, {"override", "cwd", "share"}, {"cwd"}}}

Option(o, v) == [option |-> o, value |-> v]
GoodRemote ==
  [resource |-> "mcp", issuer |-> "auth", jwks |-> "auth", clients |-> None, origins |-> None,
   bind |-> None]
RemoteValues ==
  [resource |-> {None, "other"}, issuer |-> {None, Bad, "else"}, jwks |-> {None, "else"},
   clients |-> {<<"blank">>, <<"blank", "blank">>, <<"blank", "a", "b">>, <<"a", "b", "c">>, <<"a", "a">>},
   origins |-> {<<"blank">>, <<"blank", "blank">>, <<"blank", "a">>, <<"a", Bad>>}, bind |-> {Bad, "own"}]
TwoClients == <<"a", "b">>
OneOrigin == <<"a">>
Claim(k) == [key |-> k, valid |-> TRUE, secret |-> FALSE]
GoodDeployment ==
  [override |-> FALSE, owned |-> TRUE, unicode |-> TRUE, argv |-> <<Option("one", "eighty")>>,
   env |-> [k \in {"log", "token"} |-> "good"], identity |-> TRUE, graph |-> TRUE,
   standard |-> {"pod"}, raw |-> <<Claim("pod"), Claim("team")>>, remote |-> GoodRemote,
   collides |-> FALSE]
DeploymentValues ==
  [override |-> {TRUE}, owned |-> {FALSE}, unicode |-> {FALSE},
   argv |-> {<<>>, <<Option(None, "word")>>, <<Option("one", None)>>, <<Option("three", "word")>>,
             <<Option("one", "eighty"), Option("two", "bad")>>, <<Option("two", "debug")>>},
   env |-> {[k \in {} |-> "good"], [k \in {"log"} |-> "bad"], [k \in {"log", "endpoint"} |-> "bad"],
            [k \in {"port"} |-> "bad"]},
   identity |-> {FALSE}, graph |-> {FALSE}, standard |-> {{}, {"pod", "host"}},
   raw |-> {<<>>, <<Claim("service"), Claim("team"), Claim("team"), Claim("zone")>>,
            <<[Claim("team") EXCEPT !.secret = TRUE], Claim("zone"), Claim("host")>>,
            <<Claim("pod"), Claim("node"), Claim("host"), Claim("team")>>},
   remote |-> Near(GoodRemote, RemoteValues, 1), collides |-> {TRUE}]
SomeDeployments == {GoodDeployment} \cup Near(GoodDeployment, DeploymentValues, 2)

-----------------------------------------------------------------------------
Exhibit(j, head, list) == [judge |-> j, head |-> head, parts |-> list]
UpTo(n, S) == UNION {[1..k -> S] : k \in 0..n}

Envelope ==
  [size |-> 1, form |-> "object", version |-> TRUE, id |-> TRUE, has |-> {"result"},
   protocol |-> "allowed", identity |-> TRUE, capabilities |-> TRUE, flag |-> "absent"]
EnvelopeValues ==
  [size |-> {MaxText + 1}, form |-> {"bytes", "junk", "array"}, version |-> {FALSE},
   id |-> {FALSE}, has |-> SUBSET {"result", "error"}, protocol |-> {"other"},
   identity |-> {FALSE}, capabilities |-> {FALSE}, flag |-> {"true", "other"}]
Envelopes == {Envelope} \cup Near(Envelope, EnvelopeValues, 2)

Line(f, v, m, i, h) == [form |-> f, version |-> v, method |-> m, id |-> i, has |-> h]
Lines ==
  {Line(f, TRUE, FALSE, FALSE, {}) : f \in {"blank", "nul", "junk", "array"}}
  \cup {Line("object", v, m, i, h) : v \in BOOLEAN, m \in BOOLEAN, i \in BOOLEAN,
          h \in {{}, {"result"}, {"result", "error"}}}
Outputs == {Exhibit("stdout", e, lines) : e \in Envelopes, lines \in UpTo(1, Lines)}
           \cup {Exhibit("stdout", Envelope, lines) : lines \in UpTo(3, Lines)}

GoodTool == [object |-> TRUE, name |-> 1, described |-> TRUE, schema |-> "closed"]
ToolValues ==
  [object |-> {FALSE}, name |-> {2, Nobody}, described |-> {FALSE}, schema |-> {"none", "open"}]
Sessions ==
  {Exhibit("initialize", e, <<>>) : e \in Envelopes}
  \cup {Exhibit("catalog", e, list) : e \in Envelopes, list \in {<<>>, <<GoodTool>>}}
  \cup {Exhibit("catalog", Envelope, list) : list \in UpTo(3, {GoodTool} \cup Near(GoodTool, ToolValues, 1))}
Results ==
  {Exhibit("result", e, list) : e \in Envelopes, list \in UpTo(2, [text : BOOLEAN, size : 0..MaxText])}

GraphHead == [organization |-> 1, owner |-> 1, package |-> 1]
GraphExhibit(list) == Exhibit("graph", GraphHead, list)
Graphs ==
  {GraphExhibit(list) : list \in UpTo(4, {1, 2, 3, Nobody})}
  \cup {Exhibit("graph", [organization |-> o, owner |-> w, package |-> p], <<1>>) :
          o \in {1, Nobody}, w \in {1, 2, Nobody}, p \in {1, Nobody}}

Source(r, s, k, e, d) ==
  [readable |-> r, schema |-> s, secret |-> k, execution |-> e, denies |-> d]
SourcesTried ==
  {Source(r, s, k, FALSE, d) : r \in BOOLEAN, s \in {"none", "open", "closed"}, k \in BOOLEAN, d \in BOOLEAN}
  \cup {Source(r, "none", FALSE, TRUE, FALSE) : r \in BOOLEAN}
AllClaims == [closed : BOOLEAN, secrets : BOOLEAN, execution : BOOLEAN]
Repositories ==
  {Exhibit("fleet", [manifest |-> m, walk |-> w, claims |-> c, cargo |-> g], list) :
     m \in BOOLEAN, w \in BOOLEAN, c \in AllClaims, g \in {"shared", "rmcp", "other"},
     list \in UpTo(1, SourcesTried)}
  \cup {Exhibit("fleet", [manifest |-> TRUE, walk |-> TRUE, claims |-> c, cargo |-> g], list) :
     c \in {[closed |-> TRUE, secrets |-> FALSE, execution |-> FALSE]},
     g \in {"shared", "rmcp", "other"}, list \in UpTo(2, SourcesTried)}

(* Texts that begin with an object, and others                             *)
Pieces ==
  {<<>>, <<<<"quote", "close", "quote">>>>, <<<<"quote", "escape", "quote", "open", "quote">>>>,
   <<<<"quote", "escape", "escape", "quote">>>>, <<<<"open">>, <<"close">>>>, <<<<"other">>>>,
   <<<<"open">>, <<"quote", "open", "quote">>, <<"close">>>>}
Objects == {<<<<"open">>>> \o p \o q \o <<<<"close">>>> : p \in Pieces, q \in Pieces}
Braces ==
  {Exhibit("braces", [object |-> o], FlattenSeq(o) \o tail) :
     o \in Objects, tail \in {<<>>, <<"close">>, <<"quote">>, <<"escape", "open", "close">>}}
  \cup {Exhibit("braces", [object |-> Nobody], <<"open">> \o t) :
     t \in UpTo(4, {"open", "close", "quote", "escape", "other"})}

SecretLists ==
  {<<>>, <<<<>>>>, <<<<"a">>>>, <<<<"a", "a">>, <<"a", "b">>>>, <<<<"a", "b">>, <<"b">>>>,
   <<<<"a", "control">>>>, <<<<"a", "blank">>, <<"wide">>>>}
Texts ==
  {Exhibit("text", [secrets |-> list], t) :
     list \in SecretLists, t \in UpTo(4, {"a", "b", "wide", "control"})}

SomeExhibits(j) ==
  CASE j = "stdout" -> Outputs [] j = "graph" -> Graphs [] j = "fleet" -> Repositories
    [] j = "braces" -> Braces [] j = "text" -> Texts [] j = "result" -> Results
    [] OTHER -> {e \in Sessions : e.judge = j}

-----------------------------------------------------------------------------
Init ==
  /\ subject \in {"admission", "http", "catalog", "conformance", "startup", "audit"}
  /\ AdmissionInit /\ HttpInit /\ CatalogInit /\ ConformanceInit
  /\ IF subject = "startup" THEN StartupInit ELSE StartupFrom(GoodDeployment, SomewhereSound)
  /\ IF subject = "audit" THEN AuditInit ELSE AuditOf(GraphExhibit(<<1>>))

Next ==
  /\ UNCHANGED subject
  /\ \/ subject = "admission" /\ AdmissionNext
     \/ subject # "admission" /\ UNCHANGED admissionVars
  /\ \/ subject = "http" /\ HttpNext
     \/ subject # "http" /\ UNCHANGED httpVars
  /\ \/ subject = "catalog" /\ CatalogNext
     \/ subject # "catalog" /\ UNCHANGED catalogVars
  /\ \/ subject = "conformance" /\ ConformanceNext
     \/ subject # "conformance" /\ UNCHANGED conformanceVars
  /\ \/ subject = "startup" /\ StartupNext
     \/ subject # "startup" /\ UNCHANGED startupVars
  /\ \/ subject = "audit" /\ AuditNext
     \/ subject # "audit" /\ UNCHANGED auditVars

Spec == Init /\ [][Next]_vars
=============================================================================
