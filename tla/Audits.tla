--------------------------------- MODULE Audits ---------------------------------
(***************************************************************************)
(* The judges of the tool kits: the audits of stdio output and of session  *)
(* frames (ore-mcp-testkit), the dependency graph (ore-mcp-zed-graph), the *)
(* audit of a repository's claims and its scanner of braces                *)
(* (ore-mcp-fleet-audit), and the redaction of external texts              *)
(* (ore-mcp-safety). Each checks the head of what it is given, then walks  *)
(* through it once, up to the first complaint. What it rules is compared   *)
(* with a definition that looks at the whole at once.                      *)
(***************************************************************************)
EXTENDS Lists, FiniteSets

CONSTANTS
  Exhibits(_), \* what each judge is given: a head and parts
  MaxParts,   \* the bound on frames, tools or dependencies
  MaxText,    \* the bound on the bytes of a text
  Nobody      \* an absent value

Judges == {"stdout", "initialize", "catalog", "result", "graph", "fleet", "braces", "text"}

ASSUME AuditConstants == MaxParts \in Nat \ {0} /\ MaxText \in Nat

(* A text of bytes that is an object of JSON, read as its tokens: single   *)
(* bytes, and strings, which end at the first quote no escape hides. The   *)
(* braces among the tokens match at the last of them, and not before.      *)
Bytes == {"open", "close", "quote", "escape", "other"}

IsString(token) ==
  /\ Len(token) >= 2 /\ token[1] = "quote"
  /\ \E hidden \in [1..Len(token) -> BOOLEAN] :
       /\ \A i \in 1..Len(token) : hidden[i] <=> i > 1 /\ token[i - 1] = "escape" /\ ~hidden[i - 1]
       /\ \A i \in 2..Len(token) : token[i] = "quote" /\ ~hidden[i] <=> i = Len(token)

OpenAfter(tokens, n) ==
  Cardinality({i \in 1..n : tokens[i] = <<"open">>})
  - Cardinality({i \in 1..n : tokens[i] = <<"close">>})

IsObject(tokens) ==
  /\ tokens \in Seq(Seq(Bytes)) /\ tokens # <<>>
  /\ \A i \in DOMAIN tokens :
       tokens[i] \in {<<"open">>, <<"close">>, <<"other">>} \/ IsString(tokens[i])
  /\ \A n \in 1..Len(tokens) : OpenAfter(tokens, n) >= 0 /\ (OpenAfter(tokens, n) = 0 <=> n = Len(tokens))

ASSUME ExhibitsAreTyped ==
  \A j \in Judges : \A e \in Exhibits(j) :
    /\ e.judge = j /\ e.parts \in Seq(ToSet(e.parts))
    /\ j = "result" => \A c \in ToSet(e.parts) : c.size \in Nat
    /\ j = "fleet" => \A f \in ToSet(e.parts) : f.schema \in {"none", "open", "closed"}
    /\ j = "braces" =>
         /\ e.parts # <<>> /\ e.parts[1] = "open"
         /\ e.head.object # Nobody =>
              /\ IsObject(e.head.object)
              /\ IsPrefix(FlattenSeq(e.head.object), e.parts)
    /\ j = "text" =>
         /\ e.head.secrets \in Seq(ToSet(e.head.secrets))
         /\ \A secret \in ToSet(e.head.secrets) :
              secret \in Seq(ToSet(secret)) /\ {"REDACTED", "more"} \cap ToSet(secret) = {}

(* What a judge may say                                                    *)
Words ==
  {"FrameTooLarge", "NonUtf8", "InvalidJson", "NonObject", "MissingJsonRpcVersion", "IdMismatch",
   "ErrorResponse", "MissingResult", "OutputTooLarge", "InvalidProtocolVersion",
   "InvalidServerInfo", "InvalidCapabilities", "InvalidToolCatalog", "TooManyTools",
   "InvalidToolResult", "organization", "repository", "owner", "package", "manifest", "walk",
   "NulByte", "NonJsonObject", "InvalidEnvelopeShape", "TooManyFrames", "InvalidToolName",
   "InvalidToolDescription", "InvalidInputSchema", "OpenInputSchema", "DuplicateToolName",
   "TextOutputTooLarge", "maximum", "coordinate", "repeats", "1", "0", "end", "none", "ok",
   "Empty", "empty"}
ASSUME NobodyIsNoWord == Nobody \notin Words

VARIABLES
  exhibit,  \* what is judged
  place,    \* the part that is next; 0 before the head was judged
  tally,    \* what was counted and collected so far
  ruling    \* the verdict on the part at place

auditVars == <<exhibit, place, tally, ruling>>

parts == exhibit.parts

AuditOf(e) ==
  /\ exhibit = e /\ place = 0 /\ ruling = Nobody
  /\ tally = [frames |-> 0, responses |-> 0, seen |-> {}, bytes |-> 0, findings |-> <<>>,
              schemas |-> 0, denies |-> FALSE, depth |-> 0, quoted |-> FALSE, escaped |-> FALSE,
              pass |-> 0, text |-> <<>>, out |-> <<>>]

AuditInit == \E j \in Judges : \E e \in Exhibits(j) : AuditOf(e)

(* The first of some checks that does not hold, or Nobody.                 *)
FirstFault(checks) ==
  LET failed == {i \in DOMAIN checks : ~checks[i][1]}
  IN  IF failed = {} THEN Nobody ELSE checks[Min(failed)][2]

RuleOut(what) == ruling' = what /\ UNCHANGED place
Advance == place' = place + 1 /\ UNCHANGED ruling

-----------------------------------------------------------------------------
(* The head *)

(* parse_success_result *)
EnvelopeChecks(h) ==
  << <<h.size <= MaxText, "FrameTooLarge">>, <<h.form # "bytes", "NonUtf8">>,
     <<h.form # "junk", "InvalidJson">>, <<h.form # "array", "NonObject">>,
     <<h.version, "MissingJsonRpcVersion">>, <<h.id, "IdMismatch">>,
     <<"error" \notin h.has, "ErrorResponse">>, <<"result" \in h.has, "MissingResult">> >>

StdoutChecks(h) ==
  << <<h.size <= MaxText, "OutputTooLarge">>, <<h.form # "bytes", "NonUtf8">> >>

InitializeChecks(h) ==
  EnvelopeChecks(h) \o
  << <<h.protocol = "allowed", "InvalidProtocolVersion">>,
     <<h.identity, "InvalidServerInfo">>, <<h.capabilities, "InvalidCapabilities">> >>

CatalogChecks(h) ==
  EnvelopeChecks(h) \o
  << <<parts # <<>>, "InvalidToolCatalog">>, <<Len(parts) <= MaxParts, "TooManyTools">> >>

ResultChecks(h) ==
  EnvelopeChecks(h) \o
  << <<parts # <<>>, "InvalidToolResult">>, <<h.flag # "other", "InvalidToolResult">> >>

(* is_component, coordinate_parts: Nobody is what is malformed.            *)
WellFormed(name) == name # Nobody

GraphChecks(h) ==
  << <<WellFormed(h.organization), "organization">>, <<WellFormed(h.owner), "repository">>,
     <<h.owner = h.organization, "owner">>, <<WellFormed(h.package), "package">> >>

(* A manifest with the three claims, and a tree that can be walked         *)
FleetChecks(h) == << <<h.manifest, "manifest">>, <<h.walk, "walk">> >>

HeadChecks(h) ==
  CASE exhibit.judge = "stdout"     -> StdoutChecks(h)
    [] exhibit.judge = "initialize" -> InitializeChecks(h)
    [] exhibit.judge = "catalog"    -> CatalogChecks(h)
    [] exhibit.judge = "result"     -> ResultChecks(h)
    [] exhibit.judge = "graph"      -> GraphChecks(h)
    [] exhibit.judge = "fleet"      -> FleetChecks(h)
    [] OTHER                        -> <<>>

JudgeHead ==
  /\ place = 0 /\ ruling = Nobody /\ exhibit.judge # "text"
  /\ LET fault == FirstFault(HeadChecks(exhibit.head)) IN
       IF fault = Nobody THEN Advance ELSE RuleOut(fault)
  /\ UNCHANGED <<exhibit, tally>>

-----------------------------------------------------------------------------
(* The parts *)

(* audit_stdio_stdout: a blank line is none; a frame with a method is a    *)
(* notification, whatever else it has; another answers with one outcome.   *)
FrameFault(l) ==
  FirstFault(<< <<l.form # "nul", "NulByte">>, <<l.form = "object", "NonJsonObject">>,
                <<l.version, "MissingJsonRpcVersion">>,
                <<l.method \/ (l.id /\ l.has \in {{"result"}, {"error"}}), "InvalidEnvelopeShape">> >>)

WalkFrame(l) ==
  IF l.form = "blank" THEN Advance /\ UNCHANGED tally
  ELSE IF FrameFault(l) # Nobody THEN RuleOut(FrameFault(l)) /\ UNCHANGED tally
  ELSE /\ tally' = [tally EXCEPT !.frames = @ + 1, !.responses = @ + IF l.method THEN 0 ELSE 1]
       /\ IF tally'.frames > MaxParts THEN RuleOut("TooManyFrames") ELSE Advance

(* audit_closed_world_tool_catalog_response *)
ToolFault(t) ==
  FirstFault(<< <<t.object, "InvalidToolCatalog">>, <<t.name # Nobody, "InvalidToolName">>,
                <<t.described, "InvalidToolDescription">>,
                <<t.schema # "none", "InvalidInputSchema">>,
                <<t.schema = "closed", "OpenInputSchema">>,
                <<t.name \notin tally.seen, "DuplicateToolName">> >>)

WalkTool(t) ==
  IF ToolFault(t) # Nobody THEN RuleOut(ToolFault(t)) /\ UNCHANGED tally
  ELSE Advance /\ tally' = [tally EXCEPT !.seen = @ \cup {t.name}]

(* audit_text_tool_result_response *)
WalkContent(c) ==
  IF ~c.text THEN RuleOut("InvalidToolResult") /\ UNCHANGED tally
  ELSE /\ tally' = [tally EXCEPT !.bytes = @ + c.size]
       /\ IF tally'.bytes > MaxText THEN RuleOut("TextOutputTooLarge") ELSE Advance

(* DependencyGraph::new: the count comes before the coordinate.            *)
TooMany == place > MaxParts

DependencyFault(d) ==
  FirstFault(<< <<~TooMany, "maximum">>, <<WellFormed(d), "coordinate">>,
                <<d \notin tally.seen, "repeats">> >>)

WalkDependency(d) ==
  IF DependencyFault(d) # Nobody THEN RuleOut(DependencyFault(d)) /\ UNCHANGED tally
  ELSE Advance /\ tally' = [tally EXCEPT !.seen = @ \cup {d}]

(* audit and audit_text, one file of the tree: what cannot be read is      *)
(* passed over; the findings are those of the claims that are made.        *)
FindingsOf(f) ==
  LET claims == exhibit.head.claims
      of(claim, made, here) == IF made /\ here THEN <<[file |-> place, claim |-> claim]>> ELSE <<>>
  IN  of("closedToolSchemas", claims.closed, f.schema = "open")
      \o of("secretToolArguments", ~claims.secrets, f.schema # "none" /\ f.secret)
      \o of("genericExecutionAllowed", ~claims.execution, f.execution)

WalkSource(f) ==
  /\ Advance
  /\ IF ~f.readable THEN UNCHANGED tally
     ELSE tally' = [tally EXCEPT !.findings = @ \o FindingsOf(f),
                                 !.schemas = @ + IF f.schema = "none" THEN 0 ELSE 1,
                                 !.denies = @ \/ f.denies]

(* Inside a string a backslash hides the byte behind it.                   *)
Escapes_Never(b) == FALSE
Escapes(b) == b = "escape"

(* balanced_object_end, one byte of a text that begins with a brace        *)
WalkByte(b) ==
  CASE tally.quoted ->
         /\ Advance
         /\ tally' = IF tally.escaped THEN [tally EXCEPT !.escaped = FALSE]
                     ELSE IF Escapes(b) THEN [tally EXCEPT !.escaped = TRUE]
                     ELSE [tally EXCEPT !.quoted = b # "quote"]
    [] ~tally.quoted /\ b = "close" ->
         /\ tally' = [tally EXCEPT !.depth = @ - 1]
         /\ IF tally'.depth = 0 THEN RuleOut("end") ELSE Advance
    [] OTHER ->
         /\ Advance
         /\ tally' = IF b = "quote" THEN [tally EXCEPT !.quoted = TRUE]
                     ELSE IF b = "open" THEN [tally EXCEPT !.depth = @ + 1] ELSE tally

Walk ==
  /\ place \in DOMAIN parts /\ ruling = Nobody
  /\ \/ exhibit.judge = "stdout" /\ WalkFrame(parts[place])
     \/ exhibit.judge = "catalog" /\ WalkTool(parts[place])
     \/ exhibit.judge = "result" /\ WalkContent(parts[place])
     \/ exhibit.judge = "graph" /\ WalkDependency(parts[place])
     \/ exhibit.judge = "fleet" /\ WalkSource(parts[place])
     \/ exhibit.judge = "braces" /\ WalkByte(parts[place])
  /\ UNCHANGED exhibit

-----------------------------------------------------------------------------
(* Redaction: sanitize_external_message. The controls become blanks; then, *)
(* secret by secret, its occurrences go, from the left.                    *)

Blanked(text) == [i \in DOMAIN text |-> IF text[i] = "control" THEN "blank" ELSE text[i]]
OccursAt(secret, text, i) ==
  i + Len(secret) - 1 <= Len(text) /\ SubSeq(text, i, i + Len(secret) - 1) = secret
Secrets == Sifted(exhibit.head.secrets, ToSet(exhibit.head.secrets) \ {<<>>})

BeginText ==
  /\ exhibit.judge = "text" /\ place = 0
  /\ tally' = [tally EXCEPT !.pass = 1, !.text = Blanked(parts)]
  /\ Advance /\ UNCHANGED exhibit

Redact ==
  /\ exhibit.judge = "text" /\ tally.pass \in DOMAIN Secrets /\ UNCHANGED <<exhibit, ruling>>
  /\ IF place > Len(tally.text)
     THEN /\ tally' = [tally EXCEPT !.pass = @ + 1, !.text = tally.out, !.out = <<>>]
          /\ place' = 1
     ELSE IF OccursAt(Secrets[tally.pass], tally.text, place)
     THEN /\ tally' = [tally EXCEPT !.out = Append(@, "REDACTED")]
          /\ place' = place + Len(Secrets[tally.pass])
     ELSE /\ tally' = [tally EXCEPT !.out = Append(@, tally.text[place])]
          /\ place' = place + 1

(* truncate_utf8: what is too long ends before a whole character, and says *)
(* so when there is room to. A width is the bytes a character takes.       *)
Width(character) == CASE character = "wide" -> 2 [] character = "REDACTED" -> 3 [] OTHER -> 1
WidthOf(text) == SumSeq([i \in DOMAIN text |-> Width(text[i])])

Truncated(text, max) ==
  IF WidthOf(text) <= max THEN text
  ELSE IF max < Width("more") THEN <<>>
  ELSE LET room == {prefix \in Prefixes(text) : WidthOf(prefix) <= max - Width("more")}
       IN  Append(CHOOSE prefix \in room : \A other \in room : Len(other) <= Len(prefix), "more")

EndText ==
  /\ exhibit.judge = "text" /\ tally.pass > Len(Secrets) /\ ruling = Nobody
  /\ ruling' = Truncated(tally.text, MaxText)
  /\ UNCHANGED <<exhibit, place, tally>>

-----------------------------------------------------------------------------
(* The end *)

(* unverified_surface_in: why the closure of the schemas is not evident.   *)
Unverified ==
  /\ tally.schemas = 0 /\ exhibit.head.cargo # "shared"
  /\ exhibit.head.cargo = "rmcp" => ~tally.denies

(* The exit code of the program: 0, 1 with findings.                       *)
FleetRuling ==
  IF tally.findings # <<>> \/ (exhibit.head.claims.closed /\ Unverified) THEN "1" ELSE "0"

Conclude ==
  /\ place > Len(parts) /\ ruling = Nobody /\ exhibit.judge # "text"
  /\ CASE exhibit.judge = "stdout" -> RuleOut(IF tally.frames = 0 THEN "Empty" ELSE "ok")
       [] exhibit.judge = "graph"  -> RuleOut(IF parts = <<>> THEN "empty" ELSE "ok")
       [] exhibit.judge = "fleet"  -> RuleOut(FleetRuling)
       [] exhibit.judge = "braces" -> RuleOut("none")
       [] OTHER                    -> RuleOut("ok")
  /\ UNCHANGED <<exhibit, tally>>

AuditNext == JudgeHead \/ Walk \/ Conclude \/ BeginText \/ Redact \/ EndText

AuditSpec == AuditInit /\ [][AuditNext]_auditVars

-----------------------------------------------------------------------------
Ruled(judge) == exhibit.judge = judge /\ ruling # Nobody
HeadFault == FirstFault(HeadChecks(exhibit.head))
Total(f(_), n) == SumSeq([i \in 1..n |-> f(parts[i])])

(* A stdout passes exactly when every line of it is blank or a frame and   *)
(* the frames are some, not too many; else the line that is named is the   *)
(* first that spoils it (testkit lib.rs 84-138).                           *)
StdoutIsJudged ==
  Ruled("stdout") =>
    LET Sound(l) == l.form = "blank" \/ FrameFault(l) = Nobody
        frames(n) == Total(LAMBDA l : IF l.form = "blank" THEN 0 ELSE 1, n)
    IN  CASE place = 0 -> ruling = HeadFault
          [] place # 0 /\ ruling = "ok" ->
               /\ \A i \in DOMAIN parts : Sound(parts[i])
               /\ frames(Len(parts)) \in 1..MaxParts
               /\ tally.responses = Total(LAMBDA l : IF l.form # "blank" /\ ~l.method THEN 1 ELSE 0,
                                          Len(parts))
          [] place # 0 /\ ruling = "Empty" -> frames(Len(parts)) = 0
          [] OTHER -> /\ \A i \in 1..(place - 1) : Sound(parts[i])
                      /\ frames(place - 1) <= MaxParts
                      /\ ruling = "TooManyFrames" <=> Sound(parts[place])

(* A catalog passes exactly when it is a closed world of distinct tools; a *)
(* result when it is text within the bound (session.rs 160-270).           *)
SessionIsJudged ==
  /\ Ruled("catalog") /\ place # 0 =>
       LET Closed(n) ==
             /\ \A i \in 1..n : parts[i].object /\ parts[i].described /\ parts[i].schema = "closed"
             /\ \A i \in 1..n : parts[i].name # Nobody
             /\ \A i, j \in 1..n : parts[i].name = parts[j].name => i = j
       IN  IF ruling = "ok" THEN Closed(Len(parts))
           ELSE Closed(place - 1) /\ ~Closed(place)
  /\ Ruled("result") /\ place # 0 =>
       LET Within(n) == (\A i \in 1..n : parts[i].text) /\ Total(LAMBDA c : c.size, n) <= MaxText
       IN  IF ruling = "ok" THEN Within(Len(parts)) ELSE Within(place - 1) /\ ~Within(place)
  /\ exhibit.judge \in {"initialize", "catalog", "result"} /\ ruling # Nobody =>
       (place = 0 <=> HeadFault # Nobody)

(* A graph is accepted exactly when it is some distinct coordinates, no    *)
(* more than the bound, in a repository of the organization's.             *)
GraphIsJudged ==
  Ruled("graph") =>
    (ruling = "ok" <=>
      /\ exhibit.head.organization # Nobody /\ exhibit.head.owner = exhibit.head.organization
      /\ exhibit.head.package # Nobody
      /\ Len(parts) \in 1..MaxParts /\ Nobody \notin ToSet(parts) /\ IsInjective(parts))

(* The audit exits with 0 exactly when no source that can be read          *)
(* contradicts a claim and the closure of the schemas has evidence: a      *)
(* literal schema, a shared runtime, or derived ones with unknown fields   *)
(* denied (fleet-audit lib.rs 174-252).                                    *)
FleetIsJudged ==
  Ruled("fleet") /\ place # 0 =>
    LET read == {f \in ToSet(parts) : f.readable}
        claims == exhibit.head.claims
    IN  ruling = "0" <=>
          /\ claims.closed =>
               /\ \A f \in read : f.schema # "open"
               /\ \/ \E f \in read : f.schema = "closed"
                  \/ exhibit.head.cargo = "shared"
                  \/ exhibit.head.cargo = "rmcp" /\ \E f \in read : f.denies
          /\ ~claims.secrets => \A f \in read : f.schema = "none" \/ ~f.secret
          /\ ~claims.execution => \A f \in read : ~f.execution

(* The scanner never counts below zero (its depth is unsigned), and of a   *)
(* text that begins with an object it takes that object (383-412).         *)
BracesAreMatched ==
  exhibit.judge = "braces" =>
    /\ tally.depth >= 0
    /\ ruling # Nobody /\ exhibit.head.object # Nobody => 
         ruling = "end" /\ place = Len(FlattenSeq(exhibit.head.object))

(* What leaves is bounded, without controls, as long as it can be, the     *)
(* text itself where no secret was in it, and no secret is in it, unless   *)
(* the secret holds a control itself: that one, with blanks for controls,  *)
(* is missed (safety lib.rs 145-160).                                      *)
NoSecretRemains ==
  Ruled("text") =>
    /\ WidthOf(ruling) <= MaxText /\ "control" \notin ToSet(ruling)
    /\ ruling # tally.text /\ ruling # <<>> =>
         \E n \in 0..Len(tally.text) :
           /\ ruling = Append(SubSeq(tally.text, 1, n), "more")
           /\ WidthOf(SubSeq(tally.text, 1, n + 1)) + Width("more") > MaxText
    /\ (\A k \in DOMAIN Secrets, i \in DOMAIN parts : ~OccursAt(Secrets[k], Blanked(parts), i)) =>
         tally.text = Blanked(parts)
    /\ \A k \in DOMAIN Secrets, i \in DOMAIN ruling :
         OccursAt(Blanked(Secrets[k]), ruling, i) => "control" \in ToSet(Secrets[k])

(* What a walk up to the first complaint rules is true of the whole.       *)
AuditsAgree ==
  /\ StdoutIsJudged /\ SessionIsJudged /\ GraphIsJudged /\ FleetIsJudged
  /\ BracesAreMatched /\ NoSecretRemains
=============================================================================
