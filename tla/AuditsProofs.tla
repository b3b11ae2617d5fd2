---------------------------- MODULE AuditsProofs ----------------------------
(***************************************************************************)
(* Proofs about the judges of the tool kits, for any exhibits and bounds.  *)
(* What all judges share comes first; then, judge by judge, what it has    *)
(* found out of the parts it has passed, and what follows when it rules.   *)
(***************************************************************************)
EXTENDS Audits, SequenceFacts

-----------------------------------------------------------------------------
(* Checks *)

(* The first check that does not hold names the fault.                     *)
LEMMA FirstFaultNames ==
  ASSUME NEW checks, DOMAIN checks \subseteq Nat,
         \A i \in DOMAIN checks : checks[i][2] \in Words
  PROVE  /\ FirstFault(checks) = Nobody <=> \A i \in DOMAIN checks : checks[i][1]
         /\ FirstFault(checks) # Nobody =>
              \E i \in DOMAIN checks :
                /\ FirstFault(checks) = checks[i][2] /\ ~checks[i][1]
                /\ \A j \in DOMAIN checks : j < i => checks[j][1]
<1> DEFINE failed == {i \in DOMAIN checks : ~checks[i][1]}
<1>1. CASE failed = {}
  BY <1>1 DEF FirstFault
<1>2. CASE failed # {}
  <2>1. failed \in SUBSET Nat
    OBVIOUS
  <2>2. \E x \in failed : \A y \in failed : x <= y
    <3> HIDE DEF failed
    <3> QED BY <1>2, <2>1, LeastOfSome
  <2>3. Min(failed) \in failed /\ \A y \in failed : Min(failed) <= y
    BY <2>2 DEF Min
  <2>4. FirstFault(checks) = checks[Min(failed)][2]
    BY <1>2 DEF FirstFault
  <2>5. checks[Min(failed)][2] # Nobody /\ Min(failed) \in DOMAIN checks /\ ~checks[Min(failed)][1]
    BY <2>3, NobodyIsNoWord
  <2>6. \A j \in DOMAIN checks : j < Min(failed) => checks[j][1]
    <3> SUFFICES ASSUME NEW j \in DOMAIN checks, j < Min(failed), ~checks[j][1] PROVE FALSE
      OBVIOUS
    <3>1. j \in failed
      OBVIOUS
    <3> HIDE DEF failed
    <3>2. Min(failed) <= j /\ Min(failed) \in Nat /\ j \in Nat
      BY <2>1, <2>3, <3>1
    <3> QED BY <3>2
  <2> HIDE DEF failed
  <2> QED
    BY <2>4, <2>5, <2>6
<1> QED
  BY <1>1, <1>2

(* What a frame, a tool, a dependency and the head of a graph are faulted  *)
(* for                                                                     *)
LEMMA FrameFaultIs ==
  ASSUME NEW l
  PROVE  /\ FrameFault(l) = Nobody <=>
              /\ l.form # "nul"
              /\ l.form = "object"
              /\ l.version
              /\ (l.method \/ (l.id /\ l.has \in {{"result"}, {"error"}}))
         /\ FrameFault(l) # Nobody =>
              FrameFault(l) \in {"NulByte", "NonJsonObject",
                                 "MissingJsonRpcVersion", "InvalidEnvelopeShape"}
         /\ FrameFault(l) # Nobody => FrameFault(l) \in Words
<1> DEFINE checks ==
          << <<l.form # "nul", "NulByte">>,
             <<l.form = "object", "NonJsonObject">>,
             <<l.version, "MissingJsonRpcVersion">>,
             <<l.method \/ (l.id /\ l.has \in {{"result"}, {"error"}}), "InvalidEnvelopeShape">> >>
<1>1. /\ DOMAIN checks = 1..4
      /\ \A i \in DOMAIN checks :
           checks[i][2] \in {"NulByte", "NonJsonObject",
                            "MissingJsonRpcVersion", "InvalidEnvelopeShape"}
  OBVIOUS
<1>2. checks[1][1] <=> l.form # "nul"
  OBVIOUS
<1>3. checks[2][1] <=> l.form = "object"
  OBVIOUS
<1>4. checks[3][1] <=> l.version
  OBVIOUS
<1>5. checks[4][1] <=> (l.method \/ (l.id /\ l.has \in {{"result"}, {"error"}}))
  OBVIOUS
<1>6. FrameFault(l) = FirstFault(checks)
  BY DEF FrameFault
<1> HIDE DEF checks
<1>7. \A i \in DOMAIN checks : checks[i][2] \in Words
  BY <1>1 DEF Words
<1>8. /\ FirstFault(checks) = Nobody <=> \A i \in DOMAIN checks : checks[i][1]
      /\ FirstFault(checks) # Nobody => \E i \in DOMAIN checks : FirstFault(checks) = checks[i][2]
  BY <1>1, <1>7, FirstFaultNames
<1>9. (\A i \in 1..4 : checks[i][1]) <=>
        checks[1][1] /\ checks[2][1] /\ checks[3][1] /\ checks[4][1]
  OBVIOUS
<1> QED
  BY <1>1, <1>2, <1>3, <1>4, <1>5, <1>6, <1>7, <1>8, <1>9

LEMMA ToolFaultIs ==
  ASSUME NEW t
  PROVE  /\ ToolFault(t) = Nobody <=>
              /\ t.object
              /\ t.name # Nobody
              /\ t.described
              /\ t.schema # "none"
              /\ t.schema = "closed"
              /\ t.name \notin tally.seen
         /\ ToolFault(t) # Nobody =>
              ToolFault(t) \in {"InvalidToolCatalog", "InvalidToolName", "InvalidToolDescription",
                                "InvalidInputSchema", "OpenInputSchema", "DuplicateToolName"}
         /\ ToolFault(t) # Nobody => ToolFault(t) \in Words
<1> DEFINE checks ==
          << <<t.object, "InvalidToolCatalog">>,
             <<t.name # Nobody, "InvalidToolName">>,
             <<t.described, "InvalidToolDescription">>,
             <<t.schema # "none", "InvalidInputSchema">>,
             <<t.schema = "closed", "OpenInputSchema">>,
             <<t.name \notin tally.seen, "DuplicateToolName">> >>
<1>1. /\ DOMAIN checks = 1..6
      /\ \A i \in DOMAIN checks :
           checks[i][2] \in {"InvalidToolCatalog", "InvalidToolName", "InvalidToolDescription",
                            "InvalidInputSchema", "OpenInputSchema", "DuplicateToolName"}
  OBVIOUS
<1>2. checks[1][1] <=> t.object
  OBVIOUS
<1>3. checks[2][1] <=> t.name # Nobody
  OBVIOUS
<1>4. checks[3][1] <=> t.described
  OBVIOUS
<1>5. checks[4][1] <=> t.schema # "none"
  OBVIOUS
<1>6. checks[5][1] <=> t.schema = "closed"
  OBVIOUS
<1>7. checks[6][1] <=> t.name \notin tally.seen
  OBVIOUS
<1>8. ToolFault(t) = FirstFault(checks)
  BY DEF ToolFault
<1> HIDE DEF checks
<1>9. \A i \in DOMAIN checks : checks[i][2] \in Words
  BY <1>1 DEF Words
<1>10. /\ FirstFault(checks) = Nobody <=> \A i \in DOMAIN checks : checks[i][1]
       /\ FirstFault(checks) # Nobody => \E i \in DOMAIN checks : FirstFault(checks) = checks[i][2]
  BY <1>1, <1>9, FirstFaultNames
<1>11. (\A i \in 1..6 : checks[i][1]) <=> checks[1][1] /\ checks[2][1] /\ checks[3][1]
                                      /\ checks[4][1] /\ checks[5][1] /\ checks[6][1]
  OBVIOUS
<1>12. FirstFault(checks) = Nobody <=>
         /\ t.object
         /\ t.name # Nobody
         /\ t.described
         /\ t.schema # "none"
         /\ t.schema = "closed"
         /\ t.name \notin tally.seen
  BY <1>1, <1>2, <1>3, <1>4, <1>5, <1>6, <1>7, <1>10, <1>11
<1>13. FirstFault(checks) # Nobody =>
         FirstFault(checks) \in {checks[i][2] : i \in DOMAIN checks}
  BY <1>10
<1> QED
  BY <1>1, <1>8, <1>9, <1>12, <1>13

LEMMA DependencyFaultIs ==
  ASSUME NEW d
  PROVE  /\ DependencyFault(d) = Nobody <=>
              /\ ~TooMany
              /\ WellFormed(d)
              /\ d \notin tally.seen
         /\ DependencyFault(d) # Nobody =>
              DependencyFault(d) \in {"maximum", "coordinate", "repeats"}
         /\ DependencyFault(d) # Nobody => DependencyFault(d) \in Words
<1> DEFINE checks ==
          << <<~TooMany, "maximum">>,
             <<WellFormed(d), "coordinate">>,
             <<d \notin tally.seen, "repeats">> >>
<1>1. /\ DOMAIN checks = 1..3
      /\ \A i \in DOMAIN checks :
           checks[i][2] \in {"maximum", "coordinate", "repeats"}
  OBVIOUS
<1>2. checks[1][1] <=> ~TooMany
  OBVIOUS
<1>3. checks[2][1] <=> WellFormed(d)
  OBVIOUS
<1>4. checks[3][1] <=> d \notin tally.seen
  OBVIOUS
<1>5. DependencyFault(d) = FirstFault(checks)
  BY DEF DependencyFault
<1> HIDE DEF checks
<1>6. \A i \in DOMAIN checks : checks[i][2] \in Words
  BY <1>1 DEF Words
<1>7. /\ FirstFault(checks) = Nobody <=> \A i \in DOMAIN checks : checks[i][1]
      /\ FirstFault(checks) # Nobody => \E i \in DOMAIN checks : FirstFault(checks) = checks[i][2]
  BY <1>1, <1>6, FirstFaultNames
<1>8. (\A i \in 1..3 : checks[i][1]) <=> checks[1][1] /\ checks[2][1] /\ checks[3][1]
  OBVIOUS
<1> QED
  BY <1>1, <1>2, <1>3, <1>4, <1>5, <1>6, <1>7, <1>8

LEMMA GraphFaultIs ==
  ASSUME NEW h
  PROVE  /\ FirstFault(GraphChecks(h)) = Nobody <=>
              /\ WellFormed(h.organization)
              /\ WellFormed(h.owner)
              /\ h.owner = h.organization
              /\ WellFormed(h.package)
         /\ FirstFault(GraphChecks(h)) # Nobody =>
              FirstFault(GraphChecks(h)) \in {"organization", "repository", "owner", "package"}
         /\ FirstFault(GraphChecks(h)) # Nobody => FirstFault(GraphChecks(h)) \in Words
<1> DEFINE checks ==
          << <<WellFormed(h.organization), "organization">>,
             <<WellFormed(h.owner), "repository">>,
             <<h.owner = h.organization, "owner">>,
             <<WellFormed(h.package), "package">> >>
<1>1. /\ DOMAIN checks = 1..4
      /\ \A i \in DOMAIN checks :
           checks[i][2] \in {"organization", "repository", "owner", "package"}
  OBVIOUS
<1>2. checks[1][1] <=> WellFormed(h.organization)
  OBVIOUS
<1>3. checks[2][1] <=> WellFormed(h.owner)
  OBVIOUS
<1>4. checks[3][1] <=> h.owner = h.organization
  OBVIOUS
<1>5. checks[4][1] <=> WellFormed(h.package)
  OBVIOUS
<1>6. FirstFault(GraphChecks(h)) = FirstFault(checks)
  BY DEF GraphChecks
<1> HIDE DEF checks
<1>7. \A i \in DOMAIN checks : checks[i][2] \in Words
  BY <1>1 DEF Words
<1>8. /\ FirstFault(checks) = Nobody <=> \A i \in DOMAIN checks : checks[i][1]
      /\ FirstFault(checks) # Nobody => \E i \in DOMAIN checks : FirstFault(checks) = checks[i][2]
  BY <1>1, <1>7, FirstFaultNames
<1>9. (\A i \in 1..4 : checks[i][1]) <=>
        checks[1][1] /\ checks[2][1] /\ checks[3][1] /\ checks[4][1]
  OBVIOUS
<1> QED
  BY <1>1, <1>2, <1>3, <1>4, <1>5, <1>6, <1>7, <1>8, <1>9

-----------------------------------------------------------------------------
(* What all judges share *)

Fields == {"frames", "responses", "seen", "bytes", "findings", "schemas", "denies", "depth",
           "quoted", "escaped", "pass", "text", "out"}

BasicInv ==
  /\ exhibit.judge \in Judges /\ exhibit \in Exhibits(exhibit.judge)
  /\ DOMAIN tally = Fields
  /\ exhibit.judge # "text" =>
       /\ place \in Nat /\ place <= Len(parts) + 1
       /\ place # 0 => HeadFault = Nobody
       /\ place = 0 /\ ruling # Nobody => ruling = HeadFault

LEMMA PartsAreList ==
  ASSUME BasicInv
  PROVE  /\ parts \in Seq(ToSet(parts)) /\ Len(parts) \in Nat /\ DOMAIN parts = 1..Len(parts)
         /\ exhibit.judge = "result" => \A i \in 1..Len(parts) : parts[i].size \in Nat
<1>1. /\ exhibit.parts \in Seq(ToSet(exhibit.parts))
      /\ exhibit.judge = "result" => \A c \in ToSet(exhibit.parts) : c.size \in Nat
  BY ExhibitsAreTyped DEF BasicInv
<1>2. DOMAIN parts = 1..Len(parts) /\ Len(parts) \in Nat
  BY <1>1 DEF parts
<1> QED
  BY <1>1, <1>2 DEF parts, ToSet

LEMMA StepsOfJudges ==
  ASSUME AuditNext, exhibit.judge # "text"
  PROVE  /\ ruling = Nobody /\ UNCHANGED exhibit
         /\ JudgeHead \/ Walk \/ Conclude
BY DEF AuditNext, JudgeHead, Walk, Conclude, BeginText, Redact, EndText

(* What is done with a part either rules on it or passes to the next.      *)
LEMMA WalkMoves ==
  ASSUME BasicInv, Walk
  PROVE  /\ place \in 1..Len(parts) /\ DOMAIN tally' = Fields
         /\ \/ place' = place /\ ruling' \in Words
            \/ place' = place + 1 /\ ruling' = ruling
<1>1. place \in 1..Len(parts)
  BY PartsAreList DEF Walk
<1>2. DOMAIN tally = Fields
  BY DEF BasicInv
<1> DEFINE l == parts[place]
<1>3. CASE WalkFrame(l)
  BY <1>1, <1>2, <1>3, FrameFaultIs DEF WalkFrame, RuleOut, Advance, Words
<1>4. CASE WalkTool(l)
  BY <1>1, <1>2, <1>4, ToolFaultIs DEF WalkTool, RuleOut, Advance
<1>5. CASE WalkContent(l)
  BY <1>1, <1>2, <1>5 DEF WalkContent, RuleOut, Advance, Words
<1>6. CASE WalkDependency(l)
  BY <1>1, <1>2, <1>6, DependencyFaultIs DEF WalkDependency, RuleOut, Advance
<1>7. CASE WalkSource(l)
  BY <1>1, <1>2, <1>7 DEF WalkSource, Advance
<1>8. CASE WalkByte(l)
  BY <1>1, <1>2, <1>8 DEF WalkByte, RuleOut, Advance, Words
<1> QED
  BY <1>3, <1>4, <1>5, <1>6, <1>7, <1>8 DEF Walk

(* A judge that is past the head found no fault in it, and one that ruled  *)
(* there rules what the head is faulted for.                               *)
THEOREM BasicInvariance == AuditSpec => []BasicInv
<1>1. AuditInit => BasicInv
  <2> SUFFICES ASSUME NEW j \in Judges, NEW e \in Exhibits(j), AuditOf(e) PROVE BasicInv
    BY DEF AuditInit
  <2>1. e.judge = j /\ e.parts \in Seq(ToSet(e.parts))
    BY ExhibitsAreTyped
  <2>2. Len(e.parts) \in Nat
    BY <2>1
  <2> QED
    BY <2>1, <2>2 DEF AuditOf, BasicInv, Fields, parts
<1>2. BasicInv /\ [AuditNext]_auditVars => BasicInv'
  <2> SUFFICES ASSUME BasicInv, [AuditNext]_auditVars PROVE BasicInv'
    OBVIOUS
  <2>1. CASE UNCHANGED auditVars
    BY <2>1 DEF auditVars, BasicInv, HeadFault, HeadChecks, parts, CatalogChecks, ResultChecks
  <2>2. CASE AuditNext /\ exhibit.judge = "text"
    BY <2>2
    DEF AuditNext, BasicInv, JudgeHead, Walk, Conclude, BeginText, Redact, EndText, Advance
  <2>3. CASE AuditNext /\ exhibit.judge # "text"
    <3>1. ruling = Nobody /\ UNCHANGED exhibit /\ (JudgeHead \/ Walk \/ Conclude)
      BY <2>3, StepsOfJudges
    <3>2. HeadFault' = HeadFault /\ parts' = parts
      BY <3>1 DEF HeadFault, HeadChecks, parts, CatalogChecks, ResultChecks
    <3>3. Len(parts) \in Nat
      BY PartsAreList
    <3>4. CASE JudgeHead
      BY <3>1, <3>2, <3>3, <3>4 DEF JudgeHead, BasicInv, RuleOut, Advance, HeadFault
    <3>5. CASE Walk
      <4>1. /\ place \in 1..Len(parts) /\ DOMAIN tally' = Fields
            /\ place' = place \/ place' = place + 1
        BY <3>5, WalkMoves
      <4>2. place' \in Nat /\ place' <= Len(parts) + 1 /\ place' # 0 /\ place # 0
        BY <3>3, <4>1
      <4> QED
        BY <3>1, <3>2, <4>1, <4>2 DEF BasicInv
    <3>6. CASE Conclude
      BY <3>1, <3>2, <3>3, <3>6 DEF Conclude, BasicInv, RuleOut
    <3> QED
      BY <3>1, <3>4, <3>5, <3>6
  <2> QED
    BY <2>1, <2>2, <2>3
<1> QED
  BY <1>1, <1>2, PTL DEF AuditSpec

-----------------------------------------------------------------------------
(* The dependency graph *)

GraphInv ==
  exhibit.judge = "graph" =>
    /\ tally.seen = {parts[i] : i \in 1..(place - 1)} /\ Nobody \notin tally.seen
    /\ \A i, j \in 1..(place - 1) : parts[i] = parts[j] => i = j
    /\ place - 1 <= MaxParts
    /\ place # 0 /\ ruling # Nobody =>
         \/ place <= Len(parts) /\ ruling = DependencyFault(parts[place])
         \/ place = Len(parts) + 1 /\ ruling = IF parts = <<>> THEN "empty" ELSE "ok"

LEMMA GraphStep ==
  ASSUME BasicInv, GraphInv, AuditNext PROVE GraphInv'
<1> SUFFICES ASSUME exhibit.judge = "graph", exhibit'.judge = "graph" PROVE GraphInv'
  BY DEF GraphInv, AuditNext, JudgeHead, Walk, Conclude, BeginText, Redact, EndText
<1>1. ruling = Nobody /\ UNCHANGED exhibit /\ (JudgeHead \/ Walk \/ Conclude)
  BY StepsOfJudges
<1>2. parts' = parts /\ Len(parts) \in Nat /\ DOMAIN parts = 1..Len(parts) /\ MaxParts \in Nat \ {0}
  BY <1>1, PartsAreList, AuditConstants DEF parts
<1>3. place \in Nat /\ place <= Len(parts) + 1 /\ DOMAIN tally = Fields
  BY DEF BasicInv
<1>4. CASE JudgeHead
  <2>1. place = 0 /\ (place' = 0 \/ (place' = 1 /\ ruling' = Nobody)) /\ tally' = tally
    BY <1>1, <1>4 DEF JudgeHead, Advance, RuleOut
  <2>2. 1..(place - 1) = {} /\ 1..(place' - 1) = {}
    BY <2>1
  <2>3. tally.seen = {}
    BY <2>2 DEF GraphInv
  <2>4. place' - 1 <= MaxParts
    BY <1>2, <2>1
  <2> QED
    BY <1>1, <1>2, <2>1, <2>2, <2>3, <2>4 DEF GraphInv
<1>5. CASE Walk
  <2> DEFINE d == parts[place]
  <2>1. place \in 1..Len(parts) /\ place # 0 /\ WalkDependency(d)
    BY <1>2, <1>5 DEF Walk
  <2>2. CASE DependencyFault(d) # Nobody
    <3>1. ruling' = DependencyFault(d) /\ place' = place /\ tally' = tally
      BY <2>1, <2>2 DEF WalkDependency, RuleOut
    <3> QED
      BY <1>1, <1>2, <2>1, <3>1 DEF GraphInv, DependencyFault, TooMany
  <2>3. CASE DependencyFault(d) = Nobody
    <3>1. /\ ruling' = Nobody /\ place' = place + 1
          /\ tally'.seen = tally.seen \cup {d}
      BY <1>1, <1>3, <2>1, <2>3 DEF WalkDependency, Advance, Fields
    <3>2. ~TooMany /\ WellFormed(d) /\ d \notin tally.seen
      BY <2>3, DependencyFaultIs
    <3>3. place <= MaxParts /\ d # Nobody
      BY <1>2, <1>3, <3>2 DEF TooMany, WellFormed
    <3>4. 1..(place' - 1) = 1..(place - 1) \cup {place}
      BY <1>3, <2>1, <3>1
    <3>5. \A i \in 1..(place - 1) : parts[i] # d
      BY <3>2 DEF GraphInv
    <3>6. \A i, j \in 1..(place' - 1) : parts[i] = parts[j] => i = j
      BY <3>4, <3>5 DEF GraphInv
    <3>7. tally'.seen = {parts[i] : i \in 1..(place' - 1)} /\ Nobody \notin tally'.seen
      BY <1>3, <3>1, <3>3, <3>4 DEF GraphInv
    <3> QED
      BY <1>1, <1>2, <1>3, <3>1, <3>3, <3>6, <3>7 DEF GraphInv
  <2> QED
    BY <2>2, <2>3
<1>6. CASE Conclude
  <2>1. place = Len(parts) + 1 /\ place' = place /\ tally' = tally
        /\ ruling' = IF parts = <<>> THEN "empty" ELSE "ok"
    BY <1>2, <1>3, <1>6 DEF Conclude, RuleOut
  <2> QED
    BY <1>1, <1>2, <2>1 DEF GraphInv
<1> QED
  BY <1>1, <1>4, <1>5, <1>6

LEMMA GraphJudged ==
  ASSUME BasicInv, GraphInv PROVE GraphIsJudged
<1> SUFFICES ASSUME Ruled("graph") PROVE GraphIsJudged
  BY DEF GraphIsJudged
<1>1. exhibit.judge = "graph" /\ ruling # Nobody
  BY DEF Ruled
<1>2. Len(parts) \in Nat /\ DOMAIN parts = 1..Len(parts) /\ MaxParts \in Nat
  BY PartsAreList, AuditConstants
<1> DEFINE h == exhibit.head
<1>3. HeadFault = FirstFault(GraphChecks(h))
  BY <1>1 DEF HeadFault, HeadChecks
<1>4. HeadFault = Nobody <=>
        h.organization # Nobody /\ h.owner = h.organization /\ h.package # Nobody
  BY <1>3, GraphFaultIs DEF WellFormed
<1>5. CASE place = 0
  <2>1. ruling = HeadFault /\ HeadFault # Nobody
    BY <1>1, <1>5 DEF BasicInv
  <2>2. ruling # "ok"
    BY <1>3, <2>1, GraphFaultIs
  <2> QED
    BY <1>4, <2>1, <2>2 DEF GraphIsJudged
<1>6. CASE place # 0 /\ place <= Len(parts) /\ ruling = DependencyFault(parts[place])
  <2>1. ruling # "ok"
    BY <1>1, <1>6, DependencyFaultIs
  <2>2. TooMany \/ ~WellFormed(parts[place]) \/ parts[place] \in tally.seen
    BY <1>1, <1>6, DependencyFaultIs
  <2>3. CASE TooMany
    BY <1>1, <1>2, <1>6, <2>1, <2>3 DEF TooMany, GraphIsJudged, BasicInv
  <2>4. CASE ~WellFormed(parts[place])
    BY <1>1, <1>2, <1>6, <2>1, <2>4 DEF WellFormed, GraphIsJudged, ToSet, BasicInv
  <2>5. CASE parts[place] \in tally.seen
    <3>1. PICK i \in 1..(place - 1) : parts[i] = parts[place]
      BY <1>1, <1>6, <2>5 DEF GraphInv
    <3>2. i \in DOMAIN parts /\ place \in DOMAIN parts /\ i # place
      BY <1>1, <1>2, <1>6, <3>1 DEF BasicInv
    <3> QED
      BY <2>1, <3>1, <3>2 DEF GraphIsJudged, IsInjective
  <2> QED
    BY <2>2, <2>3, <2>4, <2>5
<1>7. CASE place = Len(parts) + 1 /\ ruling = IF parts = <<>> THEN "empty" ELSE "ok"
  <2>1. place # 0 /\ HeadFault = Nobody /\ 1..(place - 1) = DOMAIN parts
    BY <1>1, <1>2, <1>7 DEF BasicInv
  <2>2. ToSet(parts) = tally.seen /\ Nobody \notin tally.seen /\ IsInjective(parts) /\ Len(parts) <= MaxParts
    BY <1>1, <1>2, <1>7, <2>1 DEF GraphInv, ToSet, IsInjective
  <2>3. parts = <<>> <=> Len(parts) = 0
    BY <1>2, PartsAreList
  <2> QED
    BY <1>2, <1>4, <1>7, <2>1, <2>2, <2>3 DEF GraphIsJudged
<1> QED
  BY <1>1, <1>5, <1>6, <1>7 DEF GraphInv

-----------------------------------------------------------------------------
(* The fleet audit *)

Contradicts(f) ==
  LET claims == exhibit.head.claims
  IN  \/ claims.closed /\ f.schema = "open"
      \/ ~claims.secrets /\ f.schema # "none" /\ f.secret
      \/ ~claims.execution /\ f.execution

Claims == {"closedToolSchemas", "secretToolArguments", "genericExecutionAllowed"}
Findings == [file : Nat, claim : Claims]

(* What the audit collected of the files before the place, and what it     *)
(* rules from that                                                         *)
FleetInv ==
  exhibit.judge = "fleet" =>
    /\ tally.findings \in Seq(Findings) /\ tally.schemas \in Nat
    /\ tally.findings = <<>> <=>
         \A i \in 1..(place - 1) : parts[i].readable => ~Contradicts(parts[i])
    /\ tally.schemas = 0 <=>
         \A i \in 1..(place - 1) : parts[i].readable => parts[i].schema = "none"
    /\ tally.denies <=> \E i \in 1..(place - 1) : parts[i].readable /\ parts[i].denies
    /\ place # 0 /\ ruling # Nobody => place = Len(parts) + 1 /\ ruling = FleetRuling

LEMMA FindingsAre ==
  ASSUME NEW f, place \in Nat
  PROVE  FindingsOf(f) \in Seq(Findings) /\ (FindingsOf(f) = <<>> <=> ~Contradicts(f))
<1> DEFINE of(claim, made, here) ==
             IF made /\ here THEN <<[file |-> place, claim |-> claim]>> ELSE <<>>
           closed == of("closedToolSchemas", exhibit.head.claims.closed, f.schema = "open")
           secret == of("secretToolArguments", ~exhibit.head.claims.secrets,
                        f.schema # "none" /\ f.secret)
           execution == of("genericExecutionAllowed", ~exhibit.head.claims.execution, f.execution)
<1>0. \A claim \in Claims :
        LET told == <<[file |-> place, claim |-> claim]>>
        IN  told \in Seq(Findings) /\ told # <<>>
  BY DEF Findings
<1>1. /\ closed \in Seq(Findings)
      /\ closed = <<>> <=> ~(exhibit.head.claims.closed /\ f.schema = "open")
  <2>1. CASE exhibit.head.claims.closed /\ f.schema = "open"
    <3>1. closed = <<[file |-> place, claim |-> "closedToolSchemas"]>>
      BY <2>1
    <3> HIDE DEF closed, Findings
    <3> QED
      BY <1>0, <2>1, <3>1 DEF Claims
  <2>2. CASE ~(exhibit.head.claims.closed /\ f.schema = "open")
    <3>1. closed = <<>>
      BY <2>2
    <3> QED
      BY <2>2, <3>1
  <2> QED
    BY <2>1, <2>2
<1>2. /\ secret \in Seq(Findings)
      /\ secret = <<>> <=> ~(~exhibit.head.claims.secrets /\ f.schema # "none" /\ f.secret)
  <2>1. CASE ~exhibit.head.claims.secrets /\ f.schema # "none" /\ f.secret
    <3>1. secret = <<[file |-> place, claim |-> "secretToolArguments"]>>
      BY <2>1
    <3> HIDE DEF secret, Findings
    <3> QED
      BY <1>0, <2>1, <3>1 DEF Claims
  <2>2. CASE ~(~exhibit.head.claims.secrets /\ f.schema # "none" /\ f.secret)
    <3>1. secret = <<>>
      BY <2>2
    <3> QED
      BY <2>2, <3>1
  <2> QED
    BY <2>1, <2>2
<1>3. /\ execution \in Seq(Findings)
      /\ execution = <<>> <=> ~(~exhibit.head.claims.execution /\ f.execution)
  <2>1. CASE ~exhibit.head.claims.execution /\ f.execution
    <3>1. execution = <<[file |-> place, claim |-> "genericExecutionAllowed"]>>
      BY <2>1
    <3> HIDE DEF execution, Findings
    <3> QED
      BY <1>0, <2>1, <3>1 DEF Claims
  <2>2. CASE ~(~exhibit.head.claims.execution /\ f.execution)
    <3>1. execution = <<>>
      BY <2>2
    <3> QED
      BY <2>2, <3>1
  <2> QED
    BY <2>1, <2>2
<1>4. FindingsOf(f) = closed \o secret \o execution
  BY DEF FindingsOf
<1> HIDE DEF closed, secret, execution
<1>5. closed \o secret \o execution = <<>> <=> closed = <<>> /\ secret = <<>> /\ execution = <<>>
  BY <1>1, <1>2, <1>3
<1> QED
  BY <1>1, <1>2, <1>3, <1>4, <1>5 DEF Contradicts

LEMMA FleetStep ==
  ASSUME BasicInv, FleetInv, AuditNext PROVE FleetInv'
<1> SUFFICES ASSUME exhibit.judge = "fleet", exhibit'.judge = "fleet" PROVE FleetInv'
  BY DEF FleetInv, AuditNext, JudgeHead, Walk, Conclude, BeginText, Redact, EndText
<1>1. ruling = Nobody /\ UNCHANGED exhibit /\ (JudgeHead \/ Walk \/ Conclude)
  BY StepsOfJudges
<1>2. /\ parts' = parts /\ Len(parts) \in Nat /\ DOMAIN parts = 1..Len(parts)
      /\ \A i \in 1..Len(parts) : Contradicts(parts[i])' = Contradicts(parts[i])
  BY <1>1, PartsAreList DEF parts, Contradicts
<1>3. place \in Nat /\ place <= Len(parts) + 1 /\ DOMAIN tally = Fields
  BY DEF BasicInv
<1>4. CASE JudgeHead
  <2>1. place = 0 /\ (place' = 0 \/ (place' = 1 /\ ruling' = Nobody)) /\ tally' = tally
    BY <1>1, <1>4 DEF JudgeHead, Advance, RuleOut
  <2>2. 1..(place - 1) = {} /\ 1..(place' - 1) = {}
    BY <2>1
  <2> QED
    BY <1>1, <1>2, <2>1, <2>2 DEF FleetInv
<1>5. CASE Walk
  <2> DEFINE f == parts[place]
  <2>1. place \in 1..Len(parts) /\ WalkSource(f)
    BY <1>2, <1>5 DEF Walk
  <2>2. place' = place + 1 /\ ruling' = Nobody /\ 1..(place' - 1) = 1..(place - 1) \cup {place}
    BY <1>1, <2>1 DEF WalkSource, Advance
  <2>3. CASE ~f.readable
    BY <1>1, <1>2, <1>3, <2>1, <2>2, <2>3 DEF FleetInv, WalkSource
  <2>4. CASE f.readable
    <3>1. /\ tally'.findings = tally.findings \o FindingsOf(f)
          /\ tally'.schemas = tally.schemas + IF f.schema = "none" THEN 0 ELSE 1
          /\ tally'.denies = (tally.denies \/ f.denies)
      BY <1>3, <2>1, <2>4 DEF WalkSource, Fields
    <3>2. /\ FindingsOf(f) \in Seq(Findings) /\ (FindingsOf(f) = <<>> <=> ~Contradicts(f))
      BY <1>3, FindingsAre
    <3>3. /\ tally'.findings \in Seq(Findings)
          /\ tally'.findings = <<>> <=> tally.findings = <<>> /\ ~Contradicts(f)
      BY <3>1, <3>2 DEF FleetInv
    <3>4. /\ tally'.schemas \in Nat
          /\ tally'.schemas = 0 <=> tally.schemas = 0 /\ f.schema = "none"
      BY <3>1 DEF FleetInv
    <3>5. tally'.findings = <<>> <=>
            \A i \in 1..(place' - 1) : parts'[i].readable => ~Contradicts(parts[i])'
      BY <1>2, <1>3, <2>1, <2>2, <2>4, <3>3 DEF FleetInv
    <3>6. tally'.schemas = 0 <=>
            \A i \in 1..(place' - 1) : parts'[i].readable => parts'[i].schema = "none"
      BY <1>2, <2>2, <2>4, <3>4 DEF FleetInv
    <3>7. tally'.denies <=> \E i \in 1..(place' - 1) : parts'[i].readable /\ parts'[i].denies
      BY <1>2, <2>2, <2>4, <3>1 DEF FleetInv
    <3> QED
      BY <2>2, <3>3, <3>4, <3>5, <3>6, <3>7 DEF FleetInv
  <2> QED
    BY <2>3, <2>4
<1>6. CASE Conclude
  <2>1. /\ place = Len(parts) + 1 /\ place' = place /\ tally' = tally /\ ruling' = FleetRuling
    BY <1>2, <1>3, <1>6 DEF Conclude, RuleOut
  <2>2. FleetRuling' = FleetRuling
    BY <1>1, <2>1 DEF FleetRuling, Unverified
  <2> QED
    BY <1>1, <1>2, <2>1, <2>2 DEF FleetInv
<1> QED
  BY <1>1, <1>4, <1>5, <1>6

LEMMA FleetJudged ==
  ASSUME BasicInv, FleetInv PROVE FleetIsJudged
<1> SUFFICES ASSUME Ruled("fleet"), place # 0 PROVE FleetIsJudged
  BY DEF FleetIsJudged
<1> DEFINE read == {f \in ToSet(parts) : f.readable}
           claims == exhibit.head.claims
<1>1. exhibit.judge = "fleet" /\ ruling # Nobody
  BY DEF Ruled
<1>2. Len(parts) \in Nat /\ DOMAIN parts = 1..Len(parts)
  BY PartsAreList
<1>3. place = Len(parts) + 1 /\ ruling = FleetRuling /\ 1..(place - 1) = DOMAIN parts
  BY <1>1, <1>2 DEF FleetInv
<1>4. read = {parts[i] : i \in {n \in DOMAIN parts : parts[n].readable}}
  BY DEF ToSet
<1>5. /\ tally.findings = <<>> <=> \A f \in read : ~Contradicts(f)
      /\ tally.schemas = 0 <=> \A f \in read : f.schema = "none"
      /\ tally.denies <=> \E f \in read : f.denies
  <2>1. \A i \in DOMAIN parts : parts[i].readable => parts[i] \in read
    BY <1>4
  <2>2. \A f \in read : \E i \in DOMAIN parts : f = parts[i] /\ parts[i].readable
    BY <1>4
  <2> HIDE DEF read
  <2>3. tally.findings = <<>> <=> \A f \in read : ~Contradicts(f)
    BY <1>1, <1>3, <2>1, <2>2 DEF FleetInv
  <2>4. tally.schemas = 0 <=> \A f \in read : f.schema = "none"
    BY <1>1, <1>3, <2>1, <2>2 DEF FleetInv
  <2>5. tally.denies <=> \E f \in read : f.denies
    BY <1>1, <1>3, <2>1, <2>2 DEF FleetInv
  <2> QED
    BY <2>3, <2>4, <2>5
<1>6. \A f \in read : f.schema \in {"none", "open", "closed"}
  BY <1>1, ExhibitsAreTyped DEF BasicInv, parts
<1> HIDE DEF read
<1>7. ruling = "0" <=> tally.findings = <<>> /\ ~(claims.closed /\ Unverified)
  BY <1>3 DEF FleetRuling
<1>8. claims.closed /\ tally.findings = <<>> => \A f \in read : f.schema # "open"
  BY <1>5 DEF Contradicts
<1>9. claims.closed /\ tally.findings = <<>> =>
        (tally.schemas # 0 <=> \E f \in read : f.schema = "closed")
  BY <1>5, <1>6, <1>8
<1>10. ruling = "0" <=>
          /\ claims.closed =>
               /\ \A f \in read : f.schema # "open"
               /\ \/ \E f \in read : f.schema = "closed"
                  \/ exhibit.head.cargo = "shared"
                  \/ exhibit.head.cargo = "rmcp" /\ \E f \in read : f.denies
          /\ ~claims.secrets => \A f \in read : f.schema = "none" \/ ~f.secret
          /\ ~claims.execution => \A f \in read : ~f.execution
  BY <1>5, <1>7, <1>8, <1>9 DEF Contradicts, Unverified
<1> QED
  BY <1>10 DEF FleetIsJudged, read

-----------------------------------------------------------------------------
(* The session frames: the catalog, then the result *)

CatalogInv ==
  exhibit.judge = "catalog" =>
    /\ tally.seen = {parts[i].name : i \in 1..(place - 1)}
    /\ \A i \in 1..(place - 1) :
         /\ parts[i].object /\ parts[i].described /\ parts[i].schema = "closed"
         /\ parts[i].name # Nobody
    /\ \A i, j \in 1..(place - 1) : parts[i].name = parts[j].name => i = j
    /\ place # 0 /\ ruling # Nobody =>
         \/ place <= Len(parts) /\ ruling = ToolFault(parts[place])
         \/ place = Len(parts) + 1 /\ ruling = "ok"

LEMMA CatalogStep ==
  ASSUME BasicInv, CatalogInv, AuditNext PROVE CatalogInv'
<1> SUFFICES ASSUME exhibit.judge = "catalog", exhibit'.judge = "catalog" PROVE CatalogInv'
  BY DEF CatalogInv, AuditNext, JudgeHead, Walk, Conclude, BeginText, Redact, EndText
<1>1. ruling = Nobody /\ UNCHANGED exhibit /\ (JudgeHead \/ Walk \/ Conclude)
  BY StepsOfJudges
<1>2. parts' = parts /\ Len(parts) \in Nat /\ DOMAIN parts = 1..Len(parts)
  BY <1>1, PartsAreList DEF parts
<1>3. place \in Nat /\ place <= Len(parts) + 1 /\ DOMAIN tally = Fields
  BY DEF BasicInv
<1>4. CASE JudgeHead
  <2>1. place = 0 /\ (place' = 0 \/ (place' = 1 /\ ruling' = Nobody)) /\ tally' = tally
    BY <1>1, <1>4 DEF JudgeHead, Advance, RuleOut
  <2>2. 1..(place - 1) = {} /\ 1..(place' - 1) = {}
    BY <2>1
  <2> QED
    BY <1>1, <1>2, <2>1, <2>2 DEF CatalogInv
<1>5. CASE Walk
  <2> DEFINE t == parts[place]
  <2>1. place \in 1..Len(parts) /\ place # 0 /\ WalkTool(t)
    BY <1>2, <1>5 DEF Walk
  <2>2. CASE ToolFault(t) # Nobody
    <3>1. ruling' = ToolFault(t) /\ place' = place /\ tally' = tally
      BY <2>1, <2>2 DEF WalkTool, RuleOut
    <3> QED
      BY <1>1, <1>2, <2>1, <3>1 DEF CatalogInv, ToolFault
  <2>3. CASE ToolFault(t) = Nobody
    <3>1. /\ ruling' = Nobody /\ place' = place + 1
          /\ tally'.seen = tally.seen \cup {t.name}
      BY <1>1, <1>3, <2>1, <2>3 DEF WalkTool, Advance, Fields
    <3>2. t.object /\ t.described /\ t.schema = "closed" /\ t.name # Nobody /\ t.name \notin tally.seen
      BY <2>3, ToolFaultIs
    <3>3. 1..(place' - 1) = 1..(place - 1) \cup {place}
      BY <1>3, <2>1, <3>1
    <3>4. \A i \in 1..(place - 1) : parts[i].name # t.name
      BY <3>2 DEF CatalogInv
    <3>5. \A i, j \in 1..(place' - 1) : parts[i].name = parts[j].name => i = j
      BY <3>3, <3>4 DEF CatalogInv
    <3>6. tally'.seen = {parts[i].name : i \in 1..(place' - 1)}
      BY <1>3, <3>1, <3>3 DEF CatalogInv
    <3>7. \A i \in 1..(place' - 1) :
            /\ parts[i].object /\ parts[i].described /\ parts[i].schema = "closed"
            /\ parts[i].name # Nobody
      BY <3>2, <3>3 DEF CatalogInv
    <3>8. place' # 0 /\ parts'= parts
      BY <1>2, <1>3, <3>1
    <3> QED
      BY <3>1, <3>5, <3>6, <3>7, <3>8 DEF CatalogInv
  <2> QED
    BY <2>2, <2>3
<1>6. CASE Conclude
  <2>1. place = Len(parts) + 1 /\ place' = place /\ tally' = tally /\ ruling' = "ok"
    BY <1>2, <1>3, <1>6 DEF Conclude, RuleOut
  <2> QED
    BY <1>1, <1>2, <2>1 DEF CatalogInv
<1> QED
  BY <1>1, <1>4, <1>5, <1>6

(* The bytes of the first contents                                         *)
SizeOf(n) == SumSeq([i \in 1..n |-> parts[i].size])

ResultInv ==
  exhibit.judge = "result" =>
    /\ \A i \in 1..(place - 1) : parts[i].text
    /\ place = 0 => tally.bytes = 0
    /\ place # 0 => SizeOf(place - 1) <= MaxText
    /\ place # 0 /\ ruling = Nobody => tally.bytes = SizeOf(place - 1)
    /\ place # 0 /\ ruling # Nobody =>
         \/ place <= Len(parts) /\ ruling # "ok" /\ ~(parts[place].text /\ SizeOf(place) <= MaxText)
         \/ place = Len(parts) + 1 /\ ruling = "ok"

LEMMA SizeGrows ==
  ASSUME BasicInv, exhibit.judge = "result", NEW n \in 1..Len(parts)
  PROVE  /\ SizeOf(0) = 0 /\ SizeOf(n - 1) \in Nat
         /\ SizeOf(n) = SizeOf(n - 1) + parts[n].size /\ parts[n].size \in Nat
<1> DEFINE f == [i \in 1..Len(parts) |-> parts[i].size]
<1>1. f \in [1..Len(parts) -> Nat] /\ Len(parts) \in Nat
  BY PartsAreList
<1>2. n - 1 \in Nat /\ n - 1 < Len(parts) /\ (n - 1) + 1 = n
  BY <1>1
<1> HIDE DEF f
<1>3. /\ SumSeq([i \in 1..(n - 1) |-> f[i]]) \in Nat
      /\ SumSeq([i \in 1..((n - 1) + 1) |-> f[i]]) = SumSeq([i \in 1..(n - 1) |-> f[i]]) + f[(n - 1) + 1]
  BY <1>1, <1>2, SumGrows
<1>4. /\ [i \in 1..(n - 1) |-> f[i]] = [i \in 1..(n - 1) |-> parts[i].size]
      /\ [i \in 1..n |-> f[i]] = [i \in 1..n |-> parts[i].size]
      /\ f[n] = parts[n].size
  BY <1>1, <1>2 DEF f
<1>5. [i \in 1..0 |-> parts[i].size] = <<>>
  OBVIOUS
<1> QED
  BY <1>1, <1>2, <1>3, <1>4, <1>5, SumEmpty DEF SizeOf

LEMMA ResultStep ==
  ASSUME BasicInv, ResultInv, AuditNext PROVE ResultInv'
<1> SUFFICES ASSUME exhibit.judge = "result", exhibit'.judge = "result" PROVE ResultInv'
  BY DEF ResultInv, AuditNext, JudgeHead, Walk, Conclude, BeginText, Redact, EndText
<1>1. ruling = Nobody /\ UNCHANGED exhibit /\ (JudgeHead \/ Walk \/ Conclude)
  BY StepsOfJudges
<1>2. /\ parts' = parts /\ Len(parts) \in Nat /\ DOMAIN parts = 1..Len(parts)
      /\ MaxText \in Nat /\ \A n : SizeOf(n)' = SizeOf(n)
  BY <1>1, PartsAreList, AuditConstants DEF parts, SizeOf
<1>3. place \in Nat /\ place <= Len(parts) + 1 /\ DOMAIN tally = Fields
  BY DEF BasicInv
<1>4. CASE JudgeHead
  <2>1. place = 0 /\ (place' = 0 \/ (place' = 1 /\ ruling' = Nobody)) /\ tally' = tally
    BY <1>1, <1>4 DEF JudgeHead, Advance, RuleOut
  <2>2. 1..(place' - 1) = {} /\ SizeOf(0) = 0 /\ tally.bytes = 0
    <3>1. [i \in 1..0 |-> parts[i].size] = <<>>
      OBVIOUS
    <3> QED
      BY <2>1, <3>1, SumEmpty DEF SizeOf, ResultInv
  <2> QED
    BY <1>1, <1>2, <2>1, <2>2 DEF ResultInv
<1>5. CASE Walk
  <2> DEFINE c == parts[place]
  <2>1. place \in 1..Len(parts) /\ place # 0 /\ WalkContent(c)
    BY <1>2, <1>5 DEF Walk
  <2>2. /\ SizeOf(place) = SizeOf(place - 1) + c.size /\ SizeOf(place) \in Nat
        /\ SizeOf(place - 1) = tally.bytes /\ SizeOf(place - 1) <= MaxText
    BY <1>1, <2>1, SizeGrows DEF ResultInv
  <2>3. CASE ~c.text
    <3>1. ruling' = "InvalidToolResult" /\ place' = place
      BY <2>1, <2>3 DEF WalkContent, RuleOut
    <3>2. ruling' # Nobody
      BY <3>1, NobodyIsNoWord DEF Words
    <3> QED
      BY <1>1, <1>2, <2>1, <2>2, <2>3, <3>1, <3>2 DEF ResultInv
  <2>4. CASE c.text
    <3>1. tally'.bytes = SizeOf(place)
      BY <1>3, <2>1, <2>2, <2>4 DEF WalkContent, Fields
    <3>2. CASE SizeOf(place) > MaxText
      <4>1. ruling' = "TextOutputTooLarge" /\ place' = place
        BY <2>1, <2>4, <3>1, <3>2 DEF WalkContent, RuleOut
      <4>2. ruling' # Nobody
        BY <4>1, NobodyIsNoWord DEF Words
      <4> QED
        BY <1>1, <1>2, <2>1, <2>2, <3>2, <4>1, <4>2 DEF ResultInv
    <3>3. CASE ~(SizeOf(place) > MaxText)
      <4>1. ruling' = Nobody /\ place' = place + 1 /\ 1..(place' - 1) = 1..(place - 1) \cup {place}
        BY <1>1, <2>1, <2>4, <3>1, <3>3 DEF WalkContent, Advance
      <4>2. place' - 1 = place /\ SizeOf(place) <= MaxText
        BY <1>2, <2>1, <2>2, <3>3, <4>1
      <4> QED
        BY <1>1, <1>2, <2>1, <2>2, <2>4, <3>1, <4>1, <4>2 DEF ResultInv
    <3> QED
      BY <3>2, <3>3
  <2> QED
    BY <2>3, <2>4
<1>6. CASE Conclude
  <2>1. place = Len(parts) + 1 /\ place' = place /\ tally' = tally /\ ruling' = "ok"
    BY <1>2, <1>3, <1>6 DEF Conclude, RuleOut
  <2> QED
    BY <1>1, <1>2, <2>1 DEF ResultInv
<1> QED
  BY <1>1, <1>4, <1>5, <1>6

LEMMA SessionJudged ==
  ASSUME BasicInv, CatalogInv, ResultInv PROVE SessionIsJudged
<1> DEFINE Closed(n) ==
             /\ \A i \in 1..n : parts[i].object /\ parts[i].described /\ parts[i].schema = "closed"
             /\ \A i \in 1..n : parts[i].name # Nobody
             /\ \A i, j \in 1..n : parts[i].name = parts[j].name => i = j
           Within(n) == (\A i \in 1..n : parts[i].text) /\ SizeOf(n) <= MaxText
<1>1. Len(parts) \in Nat
  BY PartsAreList
<1>2. ASSUME Ruled("catalog"), place # 0
      PROVE  IF ruling = "ok" THEN Closed(Len(parts)) ELSE Closed(place - 1) /\ ~Closed(place)
  <2>1. exhibit.judge = "catalog" /\ ruling # Nobody /\ place \in Nat \ {0}
    BY <1>2 DEF Ruled, BasicInv
  <2>2. Closed(place - 1)
    BY <2>1 DEF CatalogInv
  <2>3. CASE place = Len(parts) + 1 /\ ruling = "ok"
    BY <1>1, <2>2, <2>3
  <2>4. CASE ruling = ToolFault(parts[place])
    <3> DEFINE t == parts[place]
    <3>1. ruling # "ok"
      BY <2>1, <2>4, ToolFaultIs
    <3>2. ~t.object \/ ~t.described \/ t.schema # "closed" \/ t.name = Nobody \/ t.name \in tally.seen
      BY <2>1, <2>4, ToolFaultIs
    <3>3. place \in 1..place
      BY <2>1
    <3>4. CASE t.name \in tally.seen
      <4>1. PICK i \in 1..(place - 1) : parts[i].name = t.name
        BY <2>1, <3>4 DEF CatalogInv
      <4>2. i \in 1..place /\ i # place
        BY <2>1, <4>1
      <4> QED
        BY <2>2, <3>1, <3>3, <4>1, <4>2
    <3> QED
      BY <2>2, <3>1, <3>2, <3>3, <3>4
  <2> QED
    BY <1>2, <2>1, <2>3, <2>4 DEF CatalogInv
<1>3. ASSUME Ruled("result"), place # 0
      PROVE  IF ruling = "ok" THEN Within(Len(parts)) ELSE Within(place - 1) /\ ~Within(place)
  <2>1. exhibit.judge = "result" /\ ruling # Nobody /\ place \in Nat \ {0}
    BY <1>3 DEF Ruled, BasicInv
  <2>2. Within(place - 1)
    BY <1>3, <2>1 DEF ResultInv
  <2>3. CASE place = Len(parts) + 1 /\ ruling = "ok"
    BY <1>1, <2>2, <2>3
  <2>4. CASE ruling # "ok" /\ ~(parts[place].text /\ SizeOf(place) <= MaxText)
    <3>1. place \in 1..place
      BY <2>1
    <3> QED
      BY <2>2, <2>4, <3>1
  <2> QED
    BY <1>3, <2>1, <2>3, <2>4 DEF ResultInv
<1>4. exhibit.judge \in {"initialize", "catalog", "result"} /\ ruling # Nobody =>
        (place = 0 <=> HeadFault # Nobody)
  BY DEF BasicInv
<1>5. \A n : Total(LAMBDA c : c.size, n) = SizeOf(n)
  BY DEF Total, SizeOf
<1> QED
  BY <1>2, <1>3, <1>4, <1>5 DEF SessionIsJudged

-----------------------------------------------------------------------------
(* The stdout of a server *)

Sound(l) == l.form = "blank" \/ FrameFault(l) = Nobody

(* How many of the first lines are frames, and how many of those answers   *)
FramesTo(n) == SumSeq([i \in 1..n |-> IF parts[i].form = "blank" THEN 0 ELSE 1])
AnswersTo(n) ==
  SumSeq([i \in 1..n |-> IF parts[i].form # "blank" /\ ~parts[i].method THEN 1 ELSE 0])

StdoutInv ==
  exhibit.judge = "stdout" =>
    /\ \A i \in 1..(place - 1) : Sound(parts[i])
    /\ place = 0 => tally.frames = 0 /\ tally.responses = 0
    /\ place # 0 => FramesTo(place - 1) <= MaxParts
    /\ place # 0 /\ (ruling = Nobody \/ place = Len(parts) + 1) =>
         tally.frames = FramesTo(place - 1) /\ tally.responses = AnswersTo(place - 1)
    /\ place # 0 /\ ruling # Nobody =>
         \/ place = Len(parts) + 1 /\ ruling = IF tally.frames = 0 THEN "Empty" ELSE "ok"
         \/ place <= Len(parts) /\ ~Sound(parts[place]) /\ ruling = FrameFault(parts[place])
         \/ place <= Len(parts) /\ Sound(parts[place]) /\ ruling = "TooManyFrames"

LEMMA FramesGrow ==
  ASSUME BasicInv, NEW n \in 1..Len(parts)
  PROVE  /\ FramesTo(n - 1) \in Nat /\ AnswersTo(n - 1) \in Nat
         /\ FramesTo(n) = FramesTo(n - 1) + IF parts[n].form = "blank" THEN 0 ELSE 1
         /\ AnswersTo(n) = AnswersTo(n - 1) +
                             IF parts[n].form # "blank" /\ ~parts[n].method THEN 1 ELSE 0
<1> DEFINE f == [i \in 1..Len(parts) |-> IF parts[i].form = "blank" THEN 0 ELSE 1]
           g == [i \in 1..Len(parts) |-> IF parts[i].form # "blank" /\ ~parts[i].method THEN 1 ELSE 0]
<1>1. Len(parts) \in Nat /\ f \in [1..Len(parts) -> Nat] /\ g \in [1..Len(parts) -> Nat]
  BY PartsAreList
<1>2. n - 1 \in Nat /\ n - 1 < Len(parts) /\ (n - 1) + 1 = n
  BY <1>1
<1>3. /\ [i \in 1..(n - 1) |-> f[i]] =
           [i \in 1..(n - 1) |-> IF parts[i].form = "blank" THEN 0 ELSE 1]
      /\ [i \in 1..n |-> f[i]] = [i \in 1..n |-> IF parts[i].form = "blank" THEN 0 ELSE 1]
      /\ f[n] = IF parts[n].form = "blank" THEN 0 ELSE 1
  BY <1>1, <1>2
<1>4. /\ [i \in 1..(n - 1) |-> g[i]] =
           [i \in 1..(n - 1) |-> IF parts[i].form # "blank" /\ ~parts[i].method THEN 1 ELSE 0]
      /\ [i \in 1..n |-> g[i]] =
           [i \in 1..n |-> IF parts[i].form # "blank" /\ ~parts[i].method THEN 1 ELSE 0]
      /\ g[n] = IF parts[n].form # "blank" /\ ~parts[n].method THEN 1 ELSE 0
  BY <1>1, <1>2
<1> HIDE DEF f, g
<1>5. /\ SumSeq([i \in 1..(n - 1) |-> f[i]]) \in Nat
      /\ SumSeq([i \in 1..((n - 1) + 1) |-> f[i]]) = SumSeq([i \in 1..(n - 1) |-> f[i]]) + f[(n - 1) + 1]
  BY <1>1, <1>2, SumGrows
<1>6. /\ SumSeq([i \in 1..(n - 1) |-> g[i]]) \in Nat
      /\ SumSeq([i \in 1..((n - 1) + 1) |-> g[i]]) = SumSeq([i \in 1..(n - 1) |-> g[i]]) + g[(n - 1) + 1]
  BY <1>1, <1>2, SumGrows
<1>7. FramesTo(n - 1) \in Nat /\ FramesTo(n) = FramesTo(n - 1) + IF parts[n].form = "blank" THEN 0 ELSE 1
  BY <1>2, <1>3, <1>5 DEF FramesTo
<1>8. /\ AnswersTo(n - 1) \in Nat
      /\ AnswersTo(n) = AnswersTo(n - 1) +
                          IF parts[n].form # "blank" /\ ~parts[n].method THEN 1 ELSE 0
  BY <1>2, <1>4, <1>6 DEF AnswersTo
<1> QED
  BY <1>7, <1>8

LEMMA NoFramesYet == FramesTo(0) = 0 /\ AnswersTo(0) = 0
<1>1. /\ [i \in 1..0 |-> IF parts[i].form = "blank" THEN 0 ELSE 1] = <<>>
      /\ [i \in 1..0 |-> IF parts[i].form # "blank" /\ ~parts[i].method THEN 1 ELSE 0] = <<>>
  OBVIOUS
<1> QED
  BY <1>1, SumEmpty DEF FramesTo, AnswersTo

LEMMA StdoutStep ==
  ASSUME BasicInv, StdoutInv, AuditNext PROVE StdoutInv'
<1> SUFFICES ASSUME exhibit.judge = "stdout", exhibit'.judge = "stdout" PROVE StdoutInv'
  BY DEF StdoutInv, AuditNext, JudgeHead, Walk, Conclude, BeginText, Redact, EndText
<1>1. ruling = Nobody /\ UNCHANGED exhibit /\ (JudgeHead \/ Walk \/ Conclude)
  BY StepsOfJudges
<1>2. /\ parts' = parts /\ Len(parts) \in Nat /\ DOMAIN parts = 1..Len(parts)
      /\ MaxParts \in Nat
      /\ \A n : FramesTo(n)' = FramesTo(n) /\ AnswersTo(n)' = AnswersTo(n)
      /\ \A l : Sound(l)' = Sound(l)
  BY <1>1, PartsAreList, AuditConstants DEF parts, FramesTo, AnswersTo, Sound, FrameFault
<1>3. place \in Nat /\ place <= Len(parts) + 1 /\ DOMAIN tally = Fields
  BY DEF BasicInv
<1>4. CASE JudgeHead
  <2>1. place = 0 /\ (place' = 0 \/ (place' = 1 /\ ruling' = Nobody)) /\ tally' = tally
    BY <1>1, <1>4 DEF JudgeHead, Advance, RuleOut
  <2>2. 1..(place' - 1) = {} /\ tally.frames = 0 /\ tally.responses = 0
    BY <2>1 DEF StdoutInv
  <2> QED
    BY <1>1, <1>2, <2>1, <2>2, NoFramesYet DEF StdoutInv
<1>5. CASE Walk
  <2> DEFINE l == parts[place]
  <2>1. place \in 1..Len(parts) /\ place # 0 /\ place # Len(parts) + 1 /\ WalkFrame(l)
    BY <1>2, <1>5 DEF Walk
  <2>2. /\ FramesTo(place - 1) \in Nat /\ AnswersTo(place - 1) \in Nat
        /\ FramesTo(place) = FramesTo(place - 1) + IF l.form = "blank" THEN 0 ELSE 1
        /\ AnswersTo(place) = AnswersTo(place - 1) + IF l.form # "blank" /\ ~l.method THEN 1 ELSE 0
    BY <2>1, FramesGrow
  <2>3. /\ tally.frames = FramesTo(place - 1) /\ tally.responses = AnswersTo(place - 1)
        /\ FramesTo(place - 1) <= MaxParts
    BY <1>1, <2>1 DEF StdoutInv
  <2>4. CASE l.form = "blank"
    <3>1. place' = place + 1 /\ ruling' = Nobody /\ tally' = tally
      BY <1>1, <2>1, <2>4 DEF WalkFrame, Advance
    <3>2. place' - 1 = place /\ place' # 0 /\ 1..(place' - 1) = 1..(place - 1) \cup {place}
      BY <2>1, <3>1
    <3>3. Sound(l)
      BY <2>4 DEF Sound
    <3> QED
      BY <1>2, <2>2, <2>3, <2>4, <3>1, <3>2, <3>3 DEF StdoutInv
  <2>5. CASE l.form # "blank" /\ FrameFault(l) # Nobody
    <3>1. place' = place /\ ruling' = FrameFault(l) /\ tally' = tally /\ ~Sound(l)
      BY <2>1, <2>5 DEF WalkFrame, RuleOut, Sound
    <3>2. FrameFault(parts[place])' = FrameFault(l)
      BY <1>2, <3>1 DEF FrameFault
    <3> QED
      BY <1>2, <2>1, <2>3, <2>5, <3>1, <3>2 DEF StdoutInv
  <2>6. CASE l.form # "blank" /\ FrameFault(l) = Nobody
    <3>1. /\ tally'.frames = FramesTo(place) /\ tally'.responses = AnswersTo(place)
      <4>1. /\ tally'.frames = tally.frames + 1
            /\ tally'.responses = tally.responses + IF l.method THEN 0 ELSE 1
        BY <1>3, <2>1, <2>6 DEF WalkFrame, Fields
      <4> QED
        BY <2>2, <2>3, <2>6, <4>1
    <3>2. Sound(l)
      BY <2>6 DEF Sound
    <3>3. CASE FramesTo(place) > MaxParts
      <4>1. ruling' = "TooManyFrames" /\ place' = place
        BY <2>1, <2>6, <3>1, <3>3 DEF WalkFrame, RuleOut
      <4>2. ruling' # Nobody
        BY <4>1, NobodyIsNoWord DEF Words
      <4> QED
        BY <1>2, <2>1, <2>3, <3>2, <4>1, <4>2 DEF StdoutInv
    <3>4. CASE ~(FramesTo(place) > MaxParts)
      <4>1. ruling' = Nobody /\ place' = place + 1
        BY <1>1, <2>1, <2>6, <3>1, <3>4 DEF WalkFrame, Advance
      <4>2. place' - 1 = place /\ place' # 0 /\ 1..(place' - 1) = 1..(place - 1) \cup {place}
            /\ FramesTo(place) <= MaxParts
        BY <1>2, <2>1, <2>2, <3>4, <4>1
      <4> QED
        BY <1>2, <3>1, <3>2, <4>1, <4>2 DEF StdoutInv
    <3> QED
      BY <3>3, <3>4
  <2> QED
    BY <2>4, <2>5, <2>6
<1>6. CASE Conclude
  <2>1. /\ place = Len(parts) + 1 /\ place' = place /\ tally' = tally
        /\ ruling' = IF tally.frames = 0 THEN "Empty" ELSE "ok"
    BY <1>2, <1>3, <1>6 DEF Conclude, RuleOut
  <2> QED
    BY <1>1, <1>2, <2>1 DEF StdoutInv
<1> QED
  BY <1>1, <1>4, <1>5, <1>6

LEMMA StdoutJudged ==
  ASSUME BasicInv, StdoutInv PROVE StdoutIsJudged
<1> SUFFICES ASSUME Ruled("stdout") PROVE StdoutIsJudged
  BY DEF StdoutIsJudged
<1>1. exhibit.judge = "stdout" /\ ruling # Nobody /\ place \in Nat /\ place <= Len(parts) + 1
  BY DEF Ruled, BasicInv
<1>2. Len(parts) \in Nat /\ DOMAIN parts = 1..Len(parts) /\ MaxParts \in Nat
  BY PartsAreList, AuditConstants
<1>3. /\ \A n : Total(LAMBDA l : IF l.form = "blank" THEN 0 ELSE 1, n) = FramesTo(n)
      /\ \A n : Total(LAMBDA l : IF l.form # "blank" /\ ~l.method THEN 1 ELSE 0, n) = AnswersTo(n)
  BY DEF Total, FramesTo, AnswersTo
<1>4. CASE place = 0
  <2>1. ruling = HeadFault
    BY <1>1, <1>4 DEF BasicInv
  <2> QED
    BY <1>4, <2>1 DEF StdoutIsJudged
<1>5. CASE place = Len(parts) + 1 /\ ruling = IF tally.frames = 0 THEN "Empty" ELSE "ok"
  <2>1. /\ tally.frames = FramesTo(Len(parts)) /\ tally.responses = AnswersTo(Len(parts))
        /\ FramesTo(Len(parts)) <= MaxParts /\ \A i \in DOMAIN parts : Sound(parts[i])
    BY <1>1, <1>2, <1>5 DEF StdoutInv
  <2>2. FramesTo(Len(parts)) \in Nat
    <3>1. CASE Len(parts) = 0
      BY <3>1, NoFramesYet
    <3>2. CASE Len(parts) # 0
      BY <1>2, <3>2, FramesGrow
    <3> QED
      BY <3>1, <3>2
  <2>3. CASE tally.frames = 0
    <3>1. place # 0 /\ ruling = "Empty" /\ FramesTo(Len(parts)) = 0
      BY <1>2, <1>5, <2>1, <2>3
    <3> QED
      BY <1>3, <3>1 DEF StdoutIsJudged
  <2>4. CASE tally.frames # 0
    <3>1. place # 0 /\ ruling = "ok" /\ FramesTo(Len(parts)) \in 1..MaxParts
      BY <1>2, <1>5, <2>1, <2>2, <2>4
    <3>2. tally.responses = AnswersTo(Len(parts)) /\ \A i \in DOMAIN parts : Sound(parts[i])
      BY <2>1
    <3> QED
      BY <1>3, <3>1, <3>2 DEF StdoutIsJudged, Sound
  <2> QED
    BY <2>3, <2>4
<1>6. CASE /\ place # 0 /\ place <= Len(parts)
           /\ \/ ~Sound(parts[place]) /\ ruling = FrameFault(parts[place])
              \/ Sound(parts[place]) /\ ruling = "TooManyFrames"
  <2>1. /\ \A i \in 1..(place - 1) : Sound(parts[i])
        /\ FramesTo(place - 1) <= MaxParts
    BY <1>1, <1>6 DEF StdoutInv
  <2>2. ruling = "TooManyFrames" <=> Sound(parts[place])
    BY <1>1, <1>6, FrameFaultIs
  <2>3. ruling \notin {"ok", "Empty"}
    BY <1>1, <1>6, FrameFaultIs
  <2> QED
    BY <1>3, <1>6, <2>1, <2>2, <2>3 DEF StdoutIsJudged, Sound
<1> QED
  BY <1>1, <1>4, <1>5, <1>6 DEF StdoutInv

-----------------------------------------------------------------------------
(* The scanner of braces *)

LEMMA CountGrows ==
  ASSUME NEW n \in Nat, NEW S
  PROVE  /\ Cardinality({i \in 1..0 : i \in S}) = 0
         /\ Cardinality({i \in 1..n : i \in S}) \in Nat
         /\ Cardinality({i \in 1..(n + 1) : i \in S}) =
              Cardinality({i \in 1..n : i \in S}) + IF n + 1 \in S THEN 1 ELSE 0
<1> DEFINE A == {i \in 1..n : i \in S}
           B == {i \in 1..(n + 1) : i \in S}
<1>1. IsFiniteSet(A) /\ n + 1 \notin A
  <2>1. IsFiniteSet(1..n) /\ A \in SUBSET (1..n)
    BY FS_Interval
  <2> QED
    BY <2>1, FS_Subset
<1>2. B = IF n + 1 \in S THEN A \cup {n + 1} ELSE A
  OBVIOUS
<1>3. {i \in 1..0 : i \in S} = {}
  OBVIOUS
<1> HIDE DEF A, B
<1>4. Cardinality(A) \in Nat /\ Cardinality(A \cup {n + 1}) = Cardinality(A) + 1
  BY <1>1, FS_CardinalityType, FS_AddElement
<1>5. Cardinality(B) = Cardinality(A) + IF n + 1 \in S THEN 1 ELSE 0
  BY <1>2, <1>4
<1>6. Cardinality({}) = 0
  BY FS_EmptySet
<1> QED
  BY <1>3, <1>4, <1>5, <1>6 DEF A, B

LEMMA OpenGrows ==
  ASSUME NEW tokens, NEW n \in Nat
  PROVE  /\ OpenAfter(tokens, 0) = 0 /\ OpenAfter(tokens, n) \in Int
         /\ OpenAfter(tokens, n + 1) =
              CASE tokens[n + 1] = <<"open">>  -> OpenAfter(tokens, n) + 1
                [] tokens[n + 1] = <<"close">> -> OpenAfter(tokens, n) - 1
                [] OTHER                       -> OpenAfter(tokens, n)
<1>1. PICK O, C : O = {i \in Nat : tokens[i] = <<"open">>} /\ C = {i \in Nat : tokens[i] = <<"close">>}
  OBVIOUS
<1>2. \A m \in Nat : /\ {i \in 1..m : tokens[i] = <<"open">>} = {i \in 1..m : i \in O}
                     /\ {i \in 1..m : tokens[i] = <<"close">>} = {i \in 1..m : i \in C}
  BY <1>1
<1>3. \A m \in Nat : OpenAfter(tokens, m) =
        Cardinality({i \in 1..m : i \in O}) - Cardinality({i \in 1..m : i \in C})
  BY <1>2 DEF OpenAfter
<1>4. <<"open">> # <<"close">>
  OBVIOUS
<1>5. /\ n + 1 \in O <=> tokens[n + 1] = <<"open">>
      /\ n + 1 \in C <=> tokens[n + 1] = <<"close">>
      /\ ~(n + 1 \in O /\ n + 1 \in C)
  BY <1>1, <1>4
<1>6. /\ Cardinality({i \in 1..0 : i \in O}) = 0 /\ Cardinality({i \in 1..0 : i \in C}) = 0
      /\ Cardinality({i \in 1..n : i \in O}) \in Nat /\ Cardinality({i \in 1..n : i \in C}) \in Nat
      /\ Cardinality({i \in 1..(n + 1) : i \in O}) =
           Cardinality({i \in 1..n : i \in O}) + IF n + 1 \in O THEN 1 ELSE 0
      /\ Cardinality({i \in 1..(n + 1) : i \in C}) =
           Cardinality({i \in 1..n : i \in C}) + IF n + 1 \in C THEN 1 ELSE 0
  BY CountGrows
<1> DEFINE o(m) == Cardinality({i \in 1..m : i \in O})
           c(m) == Cardinality({i \in 1..m : i \in C})
<1>7. /\ OpenAfter(tokens, 0) = o(0) - c(0) /\ OpenAfter(tokens, n) = o(n) - c(n)
      /\ OpenAfter(tokens, n + 1) = o(n + 1) - c(n + 1)
  BY <1>3
<1> HIDE DEF o, c
<1>8. /\ o(0) = 0 /\ c(0) = 0 /\ o(n) \in Nat /\ c(n) \in Nat
      /\ o(n + 1) = o(n) + (IF n + 1 \in O THEN 1 ELSE 0)
      /\ c(n + 1) = c(n) + (IF n + 1 \in C THEN 1 ELSE 0)
  BY <1>6 DEF o, c
<1> QED
  BY <1>5, <1>7, <1>8

IsHidden(hidden, token) ==
  /\ hidden \in [1..Len(token) -> BOOLEAN]
  /\ \A i \in 1..Len(token) : hidden[i] <=> i > 1 /\ token[i - 1] = "escape" /\ ~hidden[i - 1]
  /\ \A i \in 2..Len(token) : token[i] = "quote" /\ ~hidden[i] <=> i = Len(token)
Hidden(token) == CHOOSE hidden : IsHidden(hidden, token)

LEMMA StringIs ==
  ASSUME NEW token, IsString(token)
  PROVE  Len(token) >= 2 /\ token[1] = "quote" /\ IsHidden(Hidden(token), token)
BY DEF IsString, Hidden, IsHidden

object == exhibit.head.object

Places(at) ==
  /\ at \in [0..Len(object) -> Nat]
  /\ at[0] = 0 /\ at[Len(object)] = Len(FlattenSeq(object))
  /\ \A i \in 1..Len(object) : at[i] = at[i - 1] + Len(object[i]) /\ at[i] <= at[Len(object)]
  /\ \A i \in 1..Len(object) : \A j \in 1..Len(object[i]) :
       FlattenSeq(object)[at[i - 1] + j] = object[i][j]
At == CHOOSE at : Places(at)

(* How the text reads, token by token                                      *)
LEMMA ObjectText ==
  ASSUME BasicInv, exhibit.judge = "braces", object # Nobody
  PROVE  /\ object \in Seq(Seq(Bytes)) /\ Len(object) \in Nat \ {0} /\ Places(At)
         /\ At[Len(object)] <= Len(parts)
         /\ \A i \in 1..Len(object) :
              /\ object[i] \in {<<"open">>, <<"close">>, <<"other">>} \/ IsString(object[i])
              /\ Len(object[i]) \in Nat \ {0}
         /\ \A i \in 1..Len(object) : \A j \in 1..Len(object[i]) :
              parts[At[i - 1] + j] = object[i][j]
         /\ \A i \in 1..Len(object) : object[i] # <<"close">> => i # Len(object)
<1> DEFINE n == Len(object)
<1>1. /\ IsObject(object) /\ IsPrefix(FlattenSeq(object), parts) /\ parts[1] = "open" /\ parts # <<>>
  BY ExhibitsAreTyped DEF BasicInv, object, parts
<1>2. object \in Seq(Seq(Bytes)) /\ object # <<>>
  BY <1>1 DEF IsObject
<1>3. n \in Nat \ {0} /\ DOMAIN object = 1..n /\ \A i \in 1..n : object[i] \in Seq(Bytes)
  BY <1>2
<1>4. FlattenSeq(object) \in Seq(Bytes) /\ \E at : Places(at)
  BY <1>2, FlattenPlaces DEF Places
<1>5. Places(At)
  BY <1>4 DEF At
<1>6. ASSUME NEW i \in 1..n
      PROVE  /\ object[i] \in {<<"open">>, <<"close">>, <<"other">>} \/ IsString(object[i])
             /\ Len(object[i]) \in Nat \ {0}
  <2>1. object[i] \in {<<"open">>, <<"close">>, <<"other">>} \/ IsString(object[i])
    BY <1>1, <1>3 DEF IsObject
  <2>2. Len(object[i]) \in Nat
    BY <1>3, LenProperties
  <2>3. object[i] \in {<<"open">>, <<"close">>, <<"other">>} => Len(object[i]) # 0
    OBVIOUS
  <2>4. IsString(object[i]) => Len(object[i]) # 0
    BY <2>2 DEF IsString
  <2>5. Len(object[i]) # 0
    BY <2>1, <2>3, <2>4
  <2> QED
    BY <2>1, <2>2, <2>5
<1>7. /\ Len(FlattenSeq(object)) \in Nat /\ Len(parts) \in Nat
      /\ Len(FlattenSeq(object)) <= Len(parts)
      /\ \A p \in 1..Len(FlattenSeq(object)) : parts[p] = FlattenSeq(object)[p]
  <2> DEFINE flat == FlattenSeq(object)
  <2>1. flat \in Seq(Bytes) /\ parts \in Seq(ToSet(parts)) /\ Len(parts) \in Nat
    BY <1>4, PartsAreList
  <2>2. Len(flat) <= Len(parts) /\ SubSeq(flat, 1, Len(flat)) = SubSeq(parts, 1, Len(flat))
    BY <1>1 DEF IsPrefix
  <2> HIDE DEF flat
  <2>3. Len(flat) \in Nat
    BY <2>1
  <2>4. ASSUME NEW p \in 1..Len(flat) PROVE parts[p] = flat[p]
    <3>1. SubSeq(flat, 1, Len(flat))[p] = flat[p]
      BY <2>1, <2>3
    <3>2. SubSeq(parts, 1, Len(flat))[p] = parts[p]
      BY <2>1, <2>2, <2>3
    <3> QED
      BY <2>2, <3>1, <3>2
  <2> QED
    BY <2>1, <2>2, <2>3, <2>4 DEF flat
<1>8. ASSUME NEW i \in 1..n, NEW j \in 1..Len(object[i])
      PROVE  parts[At[i - 1] + j] = object[i][j]
  <2>1. FlattenSeq(object)[At[i - 1] + j] = object[i][j]
    BY <1>5 DEF Places
  <2>2. At[i - 1] \in Nat /\ At[i] = At[i - 1] + Len(object[i]) /\ At[i] <= Len(FlattenSeq(object))
    <3>1. i - 1 \in 0..n
      BY <1>3
    <3> QED
      BY <1>5, <3>1 DEF Places
  <2>3. At[i - 1] + j \in 1..Len(FlattenSeq(object))
    BY <1>6, <1>7, <2>2
  <2> QED
    BY <1>7, <2>1, <2>3
<1>9. ASSUME NEW i \in 1..n, object[i] # <<"close">>, i = n PROVE FALSE
  <2>1. i - 1 \in Nat /\ (i - 1) + 1 = i
    BY <1>3
  <2>2. /\ OpenAfter(object, 0) = 0 /\ OpenAfter(object, i - 1) \in Int
        /\ OpenAfter(object, (i - 1) + 1) =
              CASE object[(i - 1) + 1] = <<"open">>  -> OpenAfter(object, i - 1) + 1
                [] object[(i - 1) + 1] = <<"close">> -> OpenAfter(object, i - 1) - 1
                [] OTHER                       -> OpenAfter(object, i - 1)
    BY <2>1, OpenGrows
  <2>3. OpenAfter(object, n) = 0
    <3>1. n \in 1..n
      BY <1>3
    <3> QED
      BY <1>1, <3>1 DEF IsObject
  <2>4. OpenAfter(object, i - 1) <= 0 /\ (object[i] = <<"open">> => OpenAfter(object, i - 1) < 0)
    BY <1>9, <2>1, <2>2, <2>3
  <2>5. i # 1 => OpenAfter(object, i - 1) > 0
    <3> SUFFICES ASSUME i # 1 PROVE OpenAfter(object, i - 1) > 0
      OBVIOUS
    <3>1. i - 1 \in 1..n /\ i - 1 # n
      BY <1>3
    <3>2. OpenAfter(object, i - 1) >= 0 /\ OpenAfter(object, i - 1) # 0
      BY <1>1, <3>1 DEF IsObject
    <3> QED
      BY <2>2, <3>2
  <2>6. i = 1
    BY <2>2, <2>4, <2>5
  <2>7. object[1][1] = "open"
    <3>1. 1 \in 1..Len(object[1]) /\ 1 - 1 = 0 /\ At[0] = 0
      BY <1>5, <1>6, <2>6 DEF Places
    <3>2. parts[At[1 - 1] + 1] = object[1][1]
      BY <1>8, <2>6, <3>1
    <3> QED
      BY <1>1, <3>1, <3>2
  <2>8. object[1] = <<"open">>
    BY <1>6, <2>6, <2>7 DEF IsString
  <2> QED
    BY <2>2, <2>4, <2>6, <2>8
<1>10. At[n] <= Len(parts)
  BY <1>5, <1>7 DEF Places
<1> QED
  BY <1>2, <1>3, <1>5, <1>6, <1>8, <1>9, <1>10

-----------------------------------------------------------------------------
(* The scanner stands between two tokens, or within a string.              *)
Between(k) ==
  place = At[k] + 1 /\ ~tally.quoted /\ ~tally.escaped /\ tally.depth = OpenAfter(object, k)

Within(k, j) ==
  /\ IsString(object[k + 1]) /\ place = At[k] + j + 1
  /\ tally.quoted /\ tally.depth = OpenAfter(object, k)
  /\ (tally.escaped <=> Hidden(object[k + 1])[j + 1])

Reading ==
  \E k \in 0..(Len(object) - 1) :
    Between(k) \/ \E j \in 1..(Len(object[k + 1]) - 1) : Within(k, j)

BracesInv ==
  exhibit.judge = "braces" =>
    /\ tally.depth \in Nat
    /\ place <= 1 => tally.depth = 0 /\ ~tally.quoted /\ ~tally.escaped
    /\ place > 1 /\ ruling = Nobody => tally.depth > 0
    /\ object # Nobody /\ place # 0 /\ ruling = Nobody => Reading
    /\ object # Nobody /\ place # 0 /\ ruling # Nobody =>
         ruling = "end" /\ place = Len(FlattenSeq(object))

(* What one byte does, in a string and out of one                          *)
LEMMA BytesMatter ==
  ASSUME BasicInv, exhibit.judge = "braces", ruling = Nobody, NEW b, WalkByte(b)
  PROVE  /\ tally.quoted =>
              /\ place' = place + 1 /\ ruling' = Nobody /\ tally'.depth = tally.depth
              /\ tally'.quoted <=> tally.escaped \/ b # "quote"
              /\ tally'.escaped <=> ~tally.escaped /\ b = "escape"
         /\ ~tally.quoted => tally'.escaped = tally.escaped
         /\ ~tally.quoted /\ b = "close" =>
              /\ tally'.depth = tally.depth - 1 /\ ~tally'.quoted
              /\ tally'.depth = 0 => ruling' = "end" /\ place' = place
              /\ tally'.depth # 0 => ruling' = Nobody /\ place' = place + 1
         /\ ~tally.quoted /\ b # "close" =>
              /\ place' = place + 1 /\ ruling' = Nobody
              /\ tally'.depth = IF b = "open" THEN tally.depth + 1 ELSE tally.depth
              /\ tally'.quoted <=> b = "quote"
<1>1. DOMAIN tally = Fields
  BY DEF BasicInv
<1>2. CASE tally.quoted
  <2>1. /\ place' = place + 1 /\ ruling' = Nobody
        /\ tally' = IF tally.escaped THEN [tally EXCEPT !.escaped = FALSE]
                    ELSE IF b = "escape" THEN [tally EXCEPT !.escaped = TRUE]
                    ELSE [tally EXCEPT !.quoted = b # "quote"]
    BY <1>2 DEF WalkByte, Advance, Escapes
  <2>2. CASE tally.escaped
    BY <1>1, <1>2, <2>1, <2>2 DEF Fields
  <2>3. CASE ~tally.escaped /\ b = "escape"
    BY <1>1, <1>2, <2>1, <2>3 DEF Fields
  <2>4. CASE ~tally.escaped /\ b # "escape"
    BY <1>1, <1>2, <2>1, <2>4 DEF Fields
  <2> QED
    BY <2>2, <2>3, <2>4
<1>3. CASE ~tally.quoted /\ b = "close"
  BY <1>1, <1>3 DEF WalkByte, Advance, RuleOut, Fields
<1>4. CASE ~tally.quoted /\ b # "close"
  BY <1>1, <1>4 DEF WalkByte, Advance, Fields
<1> QED
  BY <1>2, <1>3, <1>4

LEMMA ReadOn ==
  ASSUME BasicInv, exhibit.judge = "braces", ruling = Nobody, object # Nobody, Walk, Reading
  PROVE  /\ ruling' = Nobody => Reading'
         /\ ruling' # Nobody => ruling' = "end" /\ place' = Len(FlattenSeq(object))
<1> DEFINE n == Len(object)
           b == parts[place]
<1>1. object' = object /\ At' = At /\ WalkByte(b)
  BY DEF Walk, object, At, Places
<1>2. /\ n \in Nat \ {0} /\ At \in [0..n -> Nat] /\ At[n] = Len(FlattenSeq(object))
      /\ \A i \in 1..n :
           /\ object[i] \in {<<"open">>, <<"close">>, <<"other">>} \/ IsString(object[i])
           /\ Len(object[i]) \in Nat \ {0}
           /\ At[i] = At[i - 1] + Len(object[i])
           /\ \A j \in 1..Len(object[i]) : parts[At[i - 1] + j] = object[i][j]
           /\ object[i] # <<"close">> => i # n
  BY ObjectText DEF Places
<1>3. \A k \in 0..n : (k = 0 \/ OpenAfter(object, k) >= 0) /\ (OpenAfter(object, k) = 0 => k = n \/ k = 0)
  BY <1>2, ExhibitsAreTyped DEF BasicInv, IsObject, object
(* A token that has been read and is not the last                          *)
<1>4. ASSUME NEW k \in 0..(n - 1), k + 1 # n, place' = At[k + 1] + 1, ~tally'.quoted, ~tally'.escaped,
             tally'.depth = OpenAfter(object, k + 1)
      PROVE  Reading'
  <2>1. k + 1 \in 0..(n - 1) /\ k + 1 \in 0..(Len(object') - 1)
    BY <1>1, <1>2, <1>4
  <2>2. Between(k + 1)'
    BY <1>1, <1>4 DEF Between
  <2> QED
    BY <2>1, <2>2 DEF Reading
<1>5. PICK k \in 0..(n - 1) :
        Between(k) \/ \E j \in 1..(Len(object[k + 1]) - 1) : Within(k, j)
  BY DEF Reading
<1> DEFINE t == object[k + 1]
<1>6. /\ k + 1 \in 1..n /\ k \in Nat /\ (k + 1) - 1 = k /\ At[k] \in Nat
      /\ t \in {<<"open">>, <<"close">>, <<"other">>} \/ IsString(t)
      /\ Len(t) \in Nat \ {0} /\ At[k + 1] = At[k] + Len(t)
      /\ \A j \in 1..Len(t) : parts[At[k] + j] = t[j]
      /\ t # <<"close">> => k + 1 # n
  <2>1. k + 1 \in 1..n /\ k \in Nat /\ (k + 1) - 1 = k /\ k \in 0..n
    BY <1>2
  <2> QED
    BY <1>2, <2>1
<1>7. /\ OpenAfter(object, k) \in Int
      /\ OpenAfter(object, k + 1) =
              CASE t = <<"open">>  -> OpenAfter(object, k) + 1
                [] t = <<"close">> -> OpenAfter(object, k) - 1
                [] OTHER           -> OpenAfter(object, k)
  BY <1>6, OpenGrows
<1>8. /\ tally.quoted =>
            /\ place' = place + 1 /\ ruling' = Nobody /\ tally'.depth = tally.depth
            /\ tally'.quoted <=> tally.escaped \/ b # "quote"
            /\ tally'.escaped <=> ~tally.escaped /\ b = "escape"
      /\ ~tally.quoted => tally'.escaped = tally.escaped
      /\ ~tally.quoted /\ b = "close" =>
            /\ tally'.depth = tally.depth - 1 /\ ~tally'.quoted
            /\ tally'.depth = 0 => ruling' = "end" /\ place' = place
            /\ tally'.depth # 0 => ruling' = Nobody /\ place' = place + 1
      /\ ~tally.quoted /\ b # "close" =>
            /\ place' = place + 1 /\ ruling' = Nobody
            /\ tally'.depth = IF b = "open" THEN tally.depth + 1 ELSE tally.depth
            /\ tally'.quoted <=> b = "quote"
  BY <1>1, BytesMatter
<1> HIDE DEF n, b, t
<1>9. CASE Between(k)
  <2>1. /\ place = At[k] + 1 /\ ~tally.quoted /\ ~tally.escaped
        /\ tally.depth = OpenAfter(object, k)
    BY <1>9 DEF Between
  <2>2. b = t[1]
    BY <1>6, <2>1 DEF b
  <2>3. CASE t = <<"close">>
    <3>1. b = "close" /\ At[k + 1] = At[k] + 1 /\ OpenAfter(object, k + 1) = OpenAfter(object, k) - 1
      BY <1>6, <1>7, <2>2, <2>3
    <3>2. CASE k + 1 = n
      <4>1. OpenAfter(object, n) = 0
        BY <1>2, ExhibitsAreTyped DEF BasicInv, IsObject, object, n
      <4>2. ruling' = "end" /\ place' = place /\ "end" # Nobody
        BY <1>8, <2>1, <3>1, <3>2, <4>1, NobodyIsNoWord DEF Words
      <4> QED
        BY <1>2, <2>1, <3>1, <3>2, <4>2
    <3>3. CASE k + 1 # n
      <4>1. OpenAfter(object, k + 1) # 0
        BY <1>3, <1>6, <3>3 DEF n
      <4>2. ruling' = Nobody /\ place' = At[k + 1] + 1
        BY <1>6, <1>8, <2>1, <3>1, <4>1
      <4> QED
        BY <1>4, <1>8, <2>1, <3>1, <3>3, <4>2
    <3> QED
      BY <3>2, <3>3
  <2>4. CASE t = <<"open">> \/ t = <<"other">>
    <3>1. /\ b = t[1] /\ b # "close" /\ b # "quote" /\ (b = "open" <=> t = <<"open">>)
          /\ Len(t) = 1 /\ t # <<"close">>
      BY <2>2, <2>4
    <3>2. /\ ruling' = Nobody /\ place' = At[k + 1] + 1 /\ ~tally'.quoted /\ ~tally'.escaped
          /\ tally'.depth = OpenAfter(object, k + 1)
      BY <1>6, <1>7, <1>8, <2>1, <3>1
    <3> QED
      BY <1>4, <1>6, <3>1, <3>2
  <2>5. CASE IsString(t)
    <3>1. Len(t) >= 2 /\ b = "quote" /\ IsHidden(Hidden(t), t)
      BY <2>2, <2>5, StringIs
    <3>2. /\ ruling' = Nobody /\ place' = At[k] + 1 + 1 /\ tally'.quoted /\ tally'.escaped = tally.escaped
          /\ tally'.depth = OpenAfter(object, k)
      BY <1>8, <2>1, <3>1
    <3>3. 1 \in 1..(Len(t) - 1) /\ ~Hidden(t)[1 + 1]
      <4>1. 2 \in 1..Len(t) /\ t[1] = "quote"
        BY <1>6, <3>1, <2>2
      <4> QED
        BY <1>6, <3>1, <4>1 DEF IsHidden
    <3>4. Within(k, 1)'
      BY <1>1, <2>1, <2>5, <3>2, <3>3 DEF Within, t
    <3>5. Reading'
      BY <1>1, <3>3, <3>4 DEF Reading, t, n
    <3> QED
      BY <3>2, <3>5
  <2> QED
    BY <1>6, <2>3, <2>4, <2>5
<1>10. ASSUME NEW j \in 1..(Len(t) - 1), Within(k, j)
       PROVE  ruling' = Nobody /\ Reading'
  <2>1. /\ IsString(t) /\ place = At[k] + j + 1 /\ tally.quoted
        /\ tally.depth = OpenAfter(object, k) /\ (tally.escaped <=> Hidden(t)[j + 1])
    BY <1>10 DEF Within, t
  <2>2. Len(t) >= 2 /\ IsHidden(Hidden(t), t)
    BY <2>1, StringIs
  <2>3. j + 1 \in 1..Len(t) /\ j + 1 \in 2..Len(t) /\ At[k] + (j + 1) = place
    <3>1. At[k] \in Nat /\ Len(t) \in Nat
      BY <1>6
    <3>2. PICK m \in Nat : m = Len(t)
      BY <3>1
    <3>3. j \in 1..(m - 1)
      BY <3>2
    <3>4. j + 1 \in 1..m /\ j + 1 \in 2..m
      BY <3>2, <3>3
    <3>5. At[k] + (j + 1) = place
      BY <2>1, <3>1, <3>3
    <3> QED
      BY <3>2, <3>4, <3>5
  <2>9. j \in Nat /\ At[k] \in Nat /\ Len(t) \in Nat /\ At[k + 1] = At[k] + Len(t)
    <3>1. At[k] \in Nat /\ Len(t) \in Nat /\ At[k + 1] = At[k] + Len(t)
      BY <1>6
    <3>2. PICK m \in Nat : m = Len(t)
      BY <3>1
    <3>3. j \in 1..(m - 1)
      BY <3>2
    <3> QED
      BY <3>1, <3>3
  <2>4. b = t[j + 1]
    BY <1>6, <2>3 DEF b
  <2>5. b = "quote" /\ ~tally.escaped <=> j + 1 = Len(t)
    BY <2>1, <2>2, <2>3, <2>4 DEF IsHidden
  <2>6. /\ place' = place + 1 /\ ruling' = Nobody /\ tally'.depth = OpenAfter(object, k)
        /\ tally'.quoted <=> tally.escaped \/ b # "quote"
        /\ tally'.escaped <=> ~tally.escaped /\ b = "escape"
    BY <1>8, <2>1
  <2>7. CASE j + 1 = Len(t)
    <3>1. ~tally'.quoted /\ ~tally'.escaped
      BY <2>5, <2>6, <2>7
    <3>2. t \notin {<<"open">>, <<"close">>, <<"other">>}
      <4>1. \A token \in {<<"open">>, <<"close">>, <<"other">>} : Len(token) = 1
        OBVIOUS
      <4>2. Len(t) # 1
        <5>1. PICK m \in Nat : m = Len(t)
          BY <1>6
        <5>2. m >= 2
          BY <2>2, <5>1
        <5>3. m # 1
          BY <5>2
        <5> QED
          BY <5>1, <5>3
      <4> DEFINE single == {<<"open">>, <<"close">>, <<"other">>}
      <4>3. \A token \in single : Len(token) = 1
        BY <4>1
      <4> HIDE DEF single
      <4>4. t \notin single
        BY <4>2, <4>3
      <4> QED
        BY <4>4 DEF single
    <3>3. tally'.depth = OpenAfter(object, k + 1) /\ k + 1 # n
      BY <1>6, <1>7, <2>6, <3>2
    <3>4. place' = At[k + 1] + 1
      BY <2>1, <2>6, <2>7, <2>9
    <3> QED
      BY <1>4, <2>6, <3>1, <3>3, <3>4
  <2>8. CASE j + 1 # Len(t)
    <3>1. j + 1 \in 1..(Len(t) - 1) /\ (j + 1) + 1 \in 1..Len(t) /\ (j + 1) + 1 > 1
          /\ ((j + 1) + 1) - 1 = j + 1
      BY <1>6, <2>3, <2>8
    <3>2. tally'.quoted
      BY <2>5, <2>6, <2>8
    <3>3. Hidden(t)[(j + 1) + 1] <=> b = "escape" /\ ~tally.escaped
      BY <2>1, <2>2, <2>4, <3>1 DEF IsHidden
    <3>4. Hidden(t)[(j + 1) + 1] \in BOOLEAN
      BY <2>2, <3>1 DEF IsHidden
    <3>5. Within(k, j + 1)'
      <4>1. place' = At[k] + (j + 1) + 1
        BY <2>1, <2>6, <2>9
      <4> QED
        BY <1>1, <2>1, <2>6, <3>2, <3>3, <4>1 DEF Within, t
    <3> QED
      BY <1>1, <2>6, <3>1, <3>5 DEF Reading, t, n
  <2> QED
    BY <2>7, <2>8
<1> QED
  BY <1>5, <1>9, <1>10, NobodyIsNoWord DEF t

LEMMA BracesStep ==
  ASSUME BasicInv, BracesInv, AuditNext PROVE BracesInv'
<1> SUFFICES ASSUME exhibit.judge = "braces", exhibit'.judge = "braces" PROVE BracesInv'
  BY DEF BracesInv, AuditNext, JudgeHead, Walk, Conclude, BeginText, Redact, EndText
<1>1. ruling = Nobody /\ UNCHANGED exhibit /\ (JudgeHead \/ Walk \/ Conclude)
  BY StepsOfJudges
<1>2. /\ parts' = parts /\ Len(parts) \in Nat /\ DOMAIN parts = 1..Len(parts)
      /\ object' = object /\ At' = At
  BY <1>1, PartsAreList DEF parts, object, At, Places
<1>3. place \in Nat /\ place <= Len(parts) + 1 /\ tally.depth \in Nat
  BY DEF BasicInv, BracesInv
<1>4. parts # <<>> /\ parts[1] = "open"
  BY ExhibitsAreTyped DEF BasicInv, parts
<1>5. CASE JudgeHead
  <2>1. FirstFault(HeadChecks(exhibit.head)) = Nobody
    BY DEF HeadChecks, FirstFault
  <2>2. place = 0 /\ place' = 1 /\ ruling' = Nobody /\ tally' = tally
    BY <1>1, <1>5, <2>1 DEF JudgeHead, Advance
  <2>3. tally.depth = 0 /\ ~tally.quoted /\ ~tally.escaped
    BY <2>2 DEF BracesInv
  <2>4. ASSUME object # Nobody PROVE Reading'
    <3>1. At[0] = 0 /\ 0 \in 0..(Len(object) - 1)
      BY <2>4, ObjectText DEF Places
    <3>2. OpenAfter(object, 0) = 0
      BY OpenGrows
    <3>3. Between(0)'
      BY <1>2, <2>2, <2>3, <3>1, <3>2 DEF Between
    <3> QED
      BY <1>2, <3>1, <3>3 DEF Reading
  <2> QED
    BY <1>2, <2>2, <2>3, <2>4 DEF BracesInv
<1>6. CASE Walk
  <2> DEFINE b == parts[place]
  <2>1. place \in 1..Len(parts) /\ WalkByte(b)
    BY <1>2, <1>6 DEF Walk
  <2>2. /\ tally.quoted => place' = place + 1 /\ ruling' = Nobody /\ tally'.depth = tally.depth
        /\ ~tally.quoted /\ b = "close" =>
             /\ tally'.depth = tally.depth - 1
             /\ tally'.depth = 0 => ruling' = "end" /\ place' = place
             /\ tally'.depth # 0 => ruling' = Nobody /\ place' = place + 1
        /\ ~tally.quoted /\ b # "close" =>
             /\ place' = place + 1 /\ ruling' = Nobody
             /\ tally'.depth = IF b = "open" THEN tally.depth + 1 ELSE tally.depth
    BY <1>1, <2>1, BytesMatter
  <2>3. place = 1 => ~tally.quoted /\ b = "open"
    BY <1>4 DEF BracesInv
  <2>4. place > 1 => tally.depth > 0
    BY <1>1 DEF BracesInv
  <2>5. tally'.depth \in Nat /\ (ruling' = Nobody => tally'.depth > 0 /\ place' > 1)
    <3>1. "end" # Nobody
      BY NobodyIsNoWord DEF Words
    <3>2. place = 1 \/ place > 1
      BY <2>1
    <3> HIDE DEF b
    <3>3. CASE place = 1
      BY <1>3, <2>2, <2>3, <3>3
    <3>4. CASE place > 1
      BY <1>3, <2>1, <2>2, <2>4, <3>1, <3>4
    <3> QED
      BY <3>2, <3>3, <3>4
  <2>6. place' # 0 /\ (place' <= 1 => ruling' # Nobody)
    BY <2>1, <2>2, <2>5
  <2>7. object # Nobody => /\ ruling' = Nobody => Reading'
                           /\ ruling' # Nobody => ruling' = "end" /\ place' = Len(FlattenSeq(object))
    BY <1>1, <1>6, <2>1, ReadOn DEF BracesInv
  <2>8. place' > 1
    <3>1. place = 1 \/ (place > 1 /\ place \in Nat)
      BY <2>1
    <3> HIDE DEF b
    <3>2. CASE place = 1
      BY <2>2, <2>3, <3>2
    <3>3. CASE place > 1 /\ place \in Nat
      BY <2>2, <3>3
    <3> QED
      BY <3>1, <3>2, <3>3
  <2>9. ~(place' <= 1)
    BY <2>1, <2>2, <2>8
  <2> QED
    BY <1>2, <2>5, <2>6, <2>7, <2>8, <2>9 DEF BracesInv
<1>7. CASE Conclude
  <2>1. place = Len(parts) + 1 /\ place' = place /\ tally' = tally
    BY <1>2, <1>3, <1>7 DEF Conclude, RuleOut
  <2>2. Len(parts) # 0 /\ ~(place <= 1)
    BY <1>2, <1>4, <2>1, PartsAreList
  <2>3. ASSUME object # Nobody PROVE FALSE
    <3>1. /\ Len(object) \in Nat \ {0} /\ Places(At) /\ At[Len(object)] <= Len(parts)
          /\ \A i \in 1..Len(object) : Len(object[i]) \in Nat \ {0}
      BY <2>3, ObjectText
    <3>2. Reading
      BY <1>1, <2>2, <2>3 DEF BracesInv
    <3>3. PICK k \in 0..(Len(object) - 1) :
            Between(k) \/ \E j \in 1..(Len(object[k + 1]) - 1) : Within(k, j)
      BY <3>2 DEF Reading
    <3>4. k + 1 \in 1..Len(object) /\ k \in 0..Len(object) /\ (k + 1) - 1 = k
      BY <3>1
    <3>5. /\ At[k] \in Nat /\ At[k + 1] = At[k] + Len(object[k + 1]) /\ At[k + 1] <= Len(parts)
          /\ Len(object[k + 1]) \in Nat \ {0}
      <4>1. /\ At[k] \in Nat /\ At[k + 1] = At[(k + 1) - 1] + Len(object[k + 1])
            /\ At[k + 1] <= At[Len(object)] /\ Len(object[k + 1]) \in Nat \ {0}
            /\ At[Len(object)] \in Nat
        <5>1. Len(object) \in 0..Len(object) /\ At \in [0..Len(object) -> Nat]
          BY <3>1 DEF Places
        <5> QED
          BY <3>1, <3>4, <5>1 DEF Places
      <4>2. /\ At[k] \in Nat /\ At[k + 1] = At[k] + Len(object[k + 1])
            /\ At[k + 1] <= At[Len(object)] /\ Len(object[k + 1]) \in Nat \ {0}
            /\ At[Len(object)] \in Nat /\ At[Len(object)] <= Len(parts)
        BY <3>1, <3>4, <4>1
      <4> QED
        BY <1>2, <4>2
    <3>6. CASE Between(k)
      BY <1>2, <2>1, <3>5, <3>6 DEF Between
    <3>7. ASSUME NEW j \in 1..(Len(object[k + 1]) - 1), Within(k, j) PROVE FALSE
      BY <1>2, <2>1, <3>5, <3>7 DEF Within
    <3> QED
      BY <3>3, <3>6, <3>7
  <2> QED
    BY <1>1, <1>2, <1>3, <2>1, <2>2, <2>3 DEF BracesInv
<1> QED
  BY <1>1, <1>5, <1>6, <1>7

LEMMA BracesJudged ==
  ASSUME BasicInv, BracesInv PROVE BracesAreMatched
<1> SUFFICES ASSUME exhibit.judge = "braces" PROVE BracesAreMatched
  BY DEF BracesAreMatched
<1>1. tally.depth \in Nat
  BY DEF BracesInv
<1>2. place = 0 => ruling = Nobody
  BY DEF BasicInv, HeadFault, HeadChecks, FirstFault
<1> QED
  BY <1>1, <1>2 DEF BracesInv, BracesAreMatched, object

-----------------------------------------------------------------------------
(* Redaction *)

(* The characters of what is left of the text                              *)
Harmless == (ToSet(Blanked(parts)) \cup {"REDACTED"}) \ {"control"}

IsSecret(secret) ==
  /\ secret \in Seq(ToSet(secret)) /\ Len(secret) \in Nat \ {0}
  /\ \A d \in 1..Len(secret) : secret[d] # "REDACTED" /\ secret[d] # "more"

(* Where a character of a scanned text comes from: it was not the start of *)
(* the secret there, and neighbours come from neighbours.                  *)
Traced(from, secret, text, out, here) ==
  /\ from \in [1..Len(out) -> Nat]
  /\ \A i \in 1..Len(out) : out[i] # "REDACTED" =>
       /\ from[i] \in 1..(here - 1) /\ text[from[i]] = out[i]
       /\ ~OccursAt(secret, text, from[i])
  /\ \A i \in 1..Len(out) : i + 1 <= Len(out) /\ out[i] # "REDACTED" /\ out[i + 1] # "REDACTED" =>
       from[i + 1] = from[i] + 1
  /\ Len(out) # 0 /\ out[Len(out)] # "REDACTED" => from[Len(out)] = here - 1

(* The trace with one character more                                       *)
Longer(from, n, x) == [i \in 1..(n + 1) |-> IF i = n + 1 THEN x ELSE from[i]]

CameFrom(from, secret) == Traced(from, secret, tally.text, tally.out, place)

Missing(secret, text) == \A i \in 1..Len(text) : ~OccursAt(secret, text, i)

TextInv ==
  exhibit.judge = "text" =>
    /\ place \in Nat
    /\ place = 0 => tally.pass = 0 /\ tally.out = <<>> /\ ruling = Nobody
    /\ place # 0 =>
         /\ tally.pass \in 1..(Len(Secrets) + 1) /\ place <= Len(tally.text) + 1
         /\ tally.text \in Seq(Harmless) /\ tally.out \in Seq(Harmless)
         /\ \A k \in 1..(tally.pass - 1) : Missing(Secrets[k], tally.text)
         /\ tally.pass <= Len(Secrets) => \E from : CameFrom(from, Secrets[tally.pass])
         /\ (\A k \in DOMAIN Secrets : Missing(Secrets[k], Blanked(parts))) =>
              tally.text = Blanked(parts) /\ tally.out = SubSeq(tally.text, 1, place - 1)
    /\ ruling # Nobody =>
         place # 0 /\ tally.pass = Len(Secrets) + 1 /\ ruling = Truncated(tally.text, MaxText)

LEMMA SecretsAre ==
  ASSUME BasicInv, exhibit.judge = "text"
  PROVE  /\ Len(Secrets) \in Nat /\ DOMAIN Secrets = 1..Len(Secrets)
         /\ \A k \in 1..Len(Secrets) : IsSecret(Secrets[k])
<1> DEFINE list == exhibit.head.secrets
           some == ToSet(list) \cap (ToSet(list) \ {<<>>})
<1>1. /\ list \in Seq(ToSet(list))
      /\ \A secret \in ToSet(list) :
           secret \in Seq(ToSet(secret)) /\ {"REDACTED", "more"} \cap ToSet(secret) = {}
  BY ExhibitsAreTyped DEF BasicInv
<1>2. Secrets \in Seq(some)
  BY <1>1, SiftedKeeps DEF Secrets
<1>3. ASSUME NEW secret \in some PROVE IsSecret(secret)
  <2>1. /\ secret \in Seq(ToSet(secret)) /\ {"REDACTED", "more"} \cap ToSet(secret) = {}
        /\ secret # <<>>
    BY <1>1
  <2>2. \A d \in 1..Len(secret) : secret[d] \in ToSet(secret)
    BY <2>1 DEF ToSet
  <2> HIDE DEF some
  <2>3. Len(secret) \in Nat \ {0}
    BY <2>1
  <2>4. \A d \in 1..Len(secret) : secret[d] # "REDACTED" /\ secret[d] # "more"
    BY <2>1, <2>2
  <2> QED
    BY <2>1, <2>3, <2>4 DEF IsSecret
<1> HIDE DEF some
<1> QED
  BY <1>2, <1>3

(* An occurrence, character by character                                   *)
LEMMA OccursIs ==
  ASSUME NEW secret, IsSecret(secret), NEW T, NEW text \in Seq(T), NEW i \in Nat \ {0}
  PROVE  OccursAt(secret, text, i) <=>
           /\ i + Len(secret) - 1 <= Len(text)
           /\ \A d \in 1..Len(secret) : text[i + d - 1] = secret[d]
<1> DEFINE m == Len(secret)
           e == i + m - 1
<1>1. /\ secret \in Seq(ToSet(secret)) /\ m \in Nat \ {0} /\ Len(text) \in Nat
      /\ e \in Nat \ {0} /\ i <= e /\ e - i + 1 = m
  BY DEF IsSecret
<1>2. ASSUME e <= Len(text)
      PROVE  SubSeq(text, i, e) = secret <=> \A d \in 1..m : text[i + d - 1] = secret[d]
  <2>1. \A p \in i..e : text[p] \in T
    BY <1>1, <1>2
  <2> HIDE DEF e, m
  <2>2. /\ SubSeq(text, i, e) \in Seq(T) /\ Len(SubSeq(text, i, e)) = m
        /\ \A d \in 1..m : SubSeq(text, i, e)[d] = text[i + d - 1]
    BY <1>1, <2>1, SubSeqProperties
  <2>3. ASSUME \A d \in 1..m : text[i + d - 1] = secret[d] PROVE SubSeq(text, i, e) = secret
    <3>1. SubSeq(text, i, e) \in Seq(T \cup ToSet(secret)) /\ secret \in Seq(T \cup ToSet(secret))
      BY <1>1, <2>2, SeqMonotonic
    <3> QED
      BY <2>2, <2>3, <3>1, SeqEqual DEF m
  <2> QED
    BY <2>2, <2>3
<1> QED
  BY <1>1, <1>2 DEF OccursAt

(* What occurs in what was written occurred in what was read, and there    *)
(* the scan did not stop at it.                                            *)
LEMMA OccurrencesStay ==
  ASSUME NEW secret, IsSecret(secret), NEW other, NEW from, CameFrom(from, other),
         NEW T, tally.text \in Seq(T), tally.out \in Seq(T),
         place \in Nat \ {0}, place <= Len(tally.text) + 1,
         NEW i \in 1..Len(tally.out), OccursAt(secret, tally.out, i)
  PROVE  /\ from[i] \in 1..Len(tally.text) /\ OccursAt(secret, tally.text, from[i])
         /\ ~OccursAt(other, tally.text, from[i])
<1> DEFINE m == Len(secret)
           out == tally.out
           text == tally.text
<1>1. m \in Nat \ {0} /\ Len(out) \in Nat /\ Len(text) \in Nat
  BY DEF IsSecret
<1>2. /\ i + m - 1 <= Len(out)
      /\ \A d \in 1..m : out[i + d - 1] = secret[d] /\ secret[d] # "REDACTED"
  BY OccursIs DEF IsSecret
<1>3. \A d \in 1..m : i + d - 1 \in 1..Len(out)
  BY <1>1, <1>2
<1>4. \A d \in 1..m : /\ from[i + d - 1] \in 1..(place - 1)
                      /\ text[from[i + d - 1]] = secret[d]
  BY <1>2, <1>3 DEF CameFrom, Traced
<1>5. \A d \in 1..m : from[i + d - 1] = from[i] + d - 1
  <2> DEFINE S == {d \in 0..(m - 1) : from[i + d] = from[i] + d}
  <2>0. from[i] \in Nat
    BY DEF CameFrom, Traced
  <2>1. 0 \in S
    BY <1>1, <2>0
  <2>2. ASSUME NEW d \in 0..((m - 1) - 1), d \in S PROVE d + 1 \in S
    <3>1. /\ d + 1 \in 1..m /\ d + 2 \in 1..m /\ d + 1 \in 0..(m - 1) /\ d \in Nat
          /\ i + (d + 1) - 1 = i + d /\ i + (d + 2) - 1 = i + d + 1 /\ i + (d + 1) = i + d + 1
      BY <1>1
    <3>2. /\ i + d \in 1..Len(out) /\ i + d + 1 \in 1..Len(out)
          /\ out[i + d] # "REDACTED" /\ out[i + d + 1] # "REDACTED"
      BY <1>2, <1>3, <3>1
    <3>3. from[i + d + 1] = from[i + d] + 1
      BY <3>2 DEF CameFrom, Traced
    <3>4. from[i + d] = from[i] + d
      BY <2>2
    <3>5. from[i + (d + 1)] = from[i + d] + 1
      BY <3>1, <3>3
    <3>6. from[i + (d + 1)] = from[i] + (d + 1)
      <4>1. PICK a \in Nat : a = from[i]
        BY <2>0
      <4>2. (a + d) + 1 = a + (d + 1)
        BY <3>1
      <4> QED
        BY <3>4, <3>5, <4>1, <4>2
    <3> QED
      BY <3>1, <3>6
  <2>3. 0..(m - 1) \subseteq S
    <3>1. m - 1 \in Nat
      BY <1>1
    <3> HIDE DEF S
    <3> QED
      BY <2>1, <2>2, <3>1, IntervalInduction
  <2> QED
    <3> SUFFICES ASSUME NEW d \in 1..m PROVE from[i + d - 1] = from[i] + d - 1
      OBVIOUS
    <3>1. d - 1 \in 0..(m - 1) /\ i + (d - 1) = i + d - 1
      BY <1>1
    <3>2. from[i + (d - 1)] = from[i] + (d - 1)
      BY <2>3, <3>1
    <3> QED
      BY <2>0, <3>1, <3>2
<1>6. 1 \in 1..m /\ m \in 1..m /\ i + 1 - 1 = i
  BY <1>1
<1>7. from[i] \in 1..(place - 1) /\ from[i] + m - 1 \in 1..(place - 1)
  BY <1>4, <1>5, <1>6
<1>8. \A d \in 1..m : text[from[i] + d - 1] = secret[d]
  BY <1>4, <1>5
<1>9. from[i] \in 1..Len(text) /\ from[i] + m - 1 <= Len(text)
  BY <1>1, <1>7
<1>10. OccursAt(secret, text, from[i])
  <2>1. PICK p \in Nat \ {0} : p = from[i]
    BY <1>9
  <2>2. p + Len(secret) - 1 <= Len(text) /\ \A d \in 1..Len(secret) : text[p + d - 1] = secret[d]
    BY <1>8, <1>9, <2>1
  <2>3. OccursAt(secret, text, p)
    BY <2>2, OccursIs
  <2> QED
    BY <2>1, <2>3
<1>11. ~OccursAt(other, text, from[i])
  BY <1>2, <1>6 DEF CameFrom, Traced
<1> QED
  BY <1>9, <1>10, <1>11

-----------------------------------------------------------------------------
(* The trace of what is written next: a mark, or the next character        *)
LEMMA TraceGrows ==
  ASSUME NEW from, NEW secret, NEW text, NEW T, NEW out \in Seq(T), NEW here \in Nat \ {0},
         Traced(from, secret, text, out, here),
         NEW c, NEW next \in Nat, NEW x \in Nat, here <= next - 1,
         \/ c = "REDACTED"
         \/ x = here /\ next = here + 1 /\ text[here] = c /\ ~OccursAt(secret, text, here)
  PROVE  Traced(Longer(from, Len(out), x), secret, text, Append(out, c), next)
<1> DEFINE n == Len(out)
           longer == Longer(from, n, x)
           wider == Append(out, c)
<1>1. /\ n \in Nat /\ Len(wider) = n + 1 /\ wider[n + 1] = c
      /\ \A i \in 1..n : wider[i] = out[i]
  OBVIOUS
<1>2. from \in [1..n -> Nat]
  BY DEF Traced
<1>3. /\ longer \in [1..(n + 1) -> Nat] /\ longer[n + 1] = x
      /\ \A i \in 1..n : longer[i] = from[i]
  BY <1>1, <1>2 DEF Longer
<1> HIDE DEF longer, wider, n
<1>4. ASSUME NEW i \in 1..(n + 1), wider[i] # "REDACTED"
      PROVE  /\ longer[i] \in 1..(next - 1) /\ text[longer[i]] = wider[i]
             /\ ~OccursAt(secret, text, longer[i])
  <2>1. CASE i = n + 1
    BY <1>1, <1>3, <1>4, <2>1
  <2>2. CASE i \in 1..n
    <3>1. /\ from[i] \in 1..(here - 1) /\ text[from[i]] = out[i]
          /\ ~OccursAt(secret, text, from[i])
      BY <1>1, <1>4, <2>2 DEF Traced, n
    <3> QED
      BY <1>1, <1>3, <2>2, <3>1
  <2> QED
    BY <1>1, <2>1, <2>2
<1>5. ASSUME NEW i \in 1..(n + 1), i + 1 <= n + 1, wider[i] # "REDACTED", wider[i + 1] # "REDACTED"
      PROVE  longer[i + 1] = longer[i] + 1
  <2>1. i \in 1..n /\ wider[i] = out[i] /\ longer[i] = from[i] /\ n # 0
    BY <1>1, <1>3, <1>5
  <2>2. CASE i = n
    <3>1. from[n] = here - 1
      BY <1>5, <2>1, <2>2 DEF Traced, n
    <3>2. longer[n + 1] = here
      BY <1>1, <1>3, <1>5, <2>2
    <3> QED
      BY <2>1, <2>2, <3>1, <3>2
  <2>3. CASE i # n
    <3>1. i + 1 \in 1..n
      BY <1>1, <2>1, <2>3
    <3>2. from[i + 1] = from[i] + 1
      BY <1>1, <1>5, <2>1, <3>1 DEF Traced, n
    <3> QED
      BY <1>3, <2>1, <3>1, <3>2
  <2> QED
    BY <2>2, <2>3
<1>6. wider[n + 1] # "REDACTED" => longer[n + 1] = next - 1
  BY <1>1, <1>3
<1>7. Traced(longer, secret, text, wider, next)
  BY <1>1, <1>3, <1>4, <1>5, <1>6 DEF Traced
<1> QED
  BY <1>7 DEF longer, wider, n

LEMMA MarkTraced ==
  ASSUME NEW from, NEW secret, NEW text, NEW T, NEW out \in Seq(T), NEW here \in Nat \ {0},
         Traced(from, secret, text, out, here), NEW next \in Nat, here <= next - 1
  PROVE  Traced(Longer(from, Len(out), 0), secret, text, Append(out, "REDACTED"), next)
<1>1. PICK c, x : c = "REDACTED" /\ x = 0 /\ x \in Nat
  OBVIOUS
<1>2. Traced(Longer(from, Len(out), x), secret, text, Append(out, c), next)
  BY <1>1, TraceGrows
<1> QED
  BY <1>1, <1>2

LEMMA BeginsClean ==
  ASSUME BasicInv, exhibit.judge = "text"
  PROVE  /\ Blanked(parts) \in Seq(Harmless) /\ Len(Blanked(parts)) = Len(parts)
         /\ "REDACTED" \in Harmless /\ "control" \notin Harmless
<1>1. parts \in Seq(ToSet(parts)) /\ Len(parts) \in Nat /\ DOMAIN parts = 1..Len(parts)
  BY PartsAreList
<1>2. /\ Blanked(parts) = [i \in 1..Len(parts) |-> IF parts[i] = "control" THEN "blank" ELSE parts[i]]
  BY <1>1 DEF Blanked
<1>3. \A i \in 1..Len(parts) : Blanked(parts)[i] \in Harmless
  BY <1>2 DEF Harmless, ToSet
<1>4. Blanked(parts) \in Seq(Harmless)
  BY <1>1, <1>2, <1>3
<1>5. Len(Blanked(parts)) = Len(parts)
  BY <1>1, <1>2
<1> QED
  BY <1>4, <1>5 DEF Harmless

LEMMA TextStep ==
  ASSUME BasicInv, TextInv, AuditNext PROVE TextInv'
<1> SUFFICES ASSUME exhibit.judge = "text", exhibit'.judge = "text" PROVE TextInv'
  BY DEF TextInv, AuditNext, JudgeHead, Walk, Conclude, BeginText, Redact, EndText
<1>1. UNCHANGED exhibit /\ (BeginText \/ Redact \/ EndText)
  BY DEF AuditNext, JudgeHead, Walk, Conclude, BeginText, Redact, EndText
<1>2. /\ parts' = parts /\ Secrets' = Secrets /\ Harmless' = Harmless
      /\ Blanked(parts)' = Blanked(parts)
  BY <1>1 DEF parts, Secrets, Harmless, Blanked
<1>3. /\ Len(Secrets) \in Nat /\ DOMAIN Secrets = 1..Len(Secrets)
      /\ \A k \in 1..Len(Secrets) : IsSecret(Secrets[k])
  BY SecretsAre
<1>4. place \in Nat /\ DOMAIN tally = Fields
  BY DEF TextInv, BasicInv
<1> DEFINE Nowhere == \A k \in DOMAIN Secrets : Missing(Secrets[k], Blanked(parts))
<1>5. Nowhere' <=> Nowhere
  BY <1>2 DEF Missing, OccursAt
<1>6. CASE BeginText
  <2>1. /\ place = 0 /\ place' = 1 /\ ruling' = Nobody /\ tally.out = <<>>
        /\ tally' = [tally EXCEPT !.pass = 1, !.text = Blanked(parts)]
    BY <1>6 DEF BeginText, TextInv, Advance
  <2>2. tally'.pass = 1 /\ tally'.text = Blanked(parts) /\ tally'.out = <<>>
    BY <1>4, <2>1 DEF Fields
  <2>3. /\ tally'.text \in Seq(Harmless) /\ Len(tally'.text) \in Nat /\ tally'.out \in Seq(Harmless)
        /\ SubSeq(tally'.text, 1, 0) = <<>> /\ Len(tally'.out) = 0
    BY <2>2, BeginsClean
  <2>4. 1..(tally'.pass - 1) = {} /\ tally'.pass \in 1..(Len(Secrets) + 1)
    BY <1>3, <2>2
  <2>5. CameFrom([i \in 1..0 |-> 0], Secrets[tally.pass])'
    BY <2>3 DEF CameFrom, Traced
  <2>6. place' <= Len(tally'.text) + 1 /\ place' - 1 = 0
    BY <2>1, <2>3
  <2> QED
    BY <1>2, <2>1, <2>2, <2>3, <2>4, <2>5, <2>6 DEF TextInv
<1>7. CASE EndText
  <2>1. /\ tally.pass > Len(Secrets) /\ place' = place /\ tally' = tally
        /\ ruling' = Truncated(tally.text, MaxText)
    BY <1>7 DEF EndText
  <2>2. place # 0
    BY <1>3, <2>1 DEF TextInv
  <2>3. tally.pass = Len(Secrets) + 1
    BY <1>3, <2>1, <2>2 DEF TextInv
  <2>4. Truncated(tally.text, MaxText)' = Truncated(tally.text, MaxText)
    BY <2>1 DEF Truncated, WidthOf, Width
  <2>5. \A k \in 1..(tally.pass - 1) : Missing(Secrets[k], tally.text)' <=> Missing(Secrets[k], tally.text)
    BY <1>2, <2>1 DEF Missing, OccursAt
  <2>6. ~(tally.pass <= Len(Secrets))
    BY <1>3, <2>3
  <2> QED
    BY <1>2, <1>3, <1>4, <1>5, <2>1, <2>2, <2>3, <2>4, <2>5, <2>6 DEF TextInv
<1>8. CASE Redact
  <2> DEFINE secret == Secrets[tally.pass]
             text == tally.text
             out == tally.out
  <2>1. tally.pass \in 1..Len(Secrets) /\ ruling' = ruling
    BY <1>3, <1>8 DEF Redact
  <2>2. place # 0 /\ ruling = Nobody
    BY <1>3, <2>1 DEF TextInv
  <2>3. /\ place \in Nat \ {0} /\ place <= Len(text) + 1 /\ Len(text) \in Nat /\ Len(out) \in Nat
        /\ text \in Seq(Harmless) /\ out \in Seq(Harmless)
        /\ \A k \in 1..(tally.pass - 1) : Missing(Secrets[k], text)
        /\ \E from : CameFrom(from, secret)
        /\ Nowhere => text = Blanked(parts) /\ out = SubSeq(text, 1, place - 1)
    BY <1>3, <1>4, <2>1, <2>2 DEF TextInv
  <2>4. PICK from : CameFrom(from, secret)
    BY <2>3
  <2>5. IsSecret(secret)
    BY <1>3, <2>1
  <2>6. CASE place > Len(text)
    <3>1. /\ tally' = [tally EXCEPT !.pass = @ + 1, !.text = tally.out, !.out = <<>>]
          /\ place' = 1
      BY <1>8, <2>6 DEF Redact
    <3>2. tally'.pass = tally.pass + 1 /\ tally'.text = out /\ tally'.out = <<>>
      BY <1>4, <3>1 DEF Fields
    <3>3. ASSUME NEW k \in 1..tally.pass PROVE Missing(Secrets[k], out)
      <4>1. IsSecret(Secrets[k])
        BY <1>3, <2>1
      <4>2. SUFFICES ASSUME NEW i \in 1..Len(out), OccursAt(Secrets[k], out, i) PROVE FALSE
        BY DEF Missing
      <4>3. /\ from[i] \in 1..Len(text) /\ OccursAt(Secrets[k], text, from[i])
            /\ ~OccursAt(secret, text, from[i])
        BY <2>3, <2>4, <4>1, <4>2, OccurrencesStay
      <4>4. k # tally.pass
        BY <4>3
      <4>5. k \in 1..(tally.pass - 1)
        BY <1>3, <2>1, <4>4
      <4> QED
        BY <2>3, <4>3, <4>5 DEF Missing
    <3>4. \A k \in 1..(tally'.pass - 1) : Missing(Secrets[k], tally.text)'
      <4>1. \A k \in 1..(tally'.pass - 1) : k \in 1..tally.pass
        BY <1>3, <2>1, <3>2
      <4> QED
        BY <1>2, <3>2, <3>3, <4>1 DEF Missing, OccursAt
    <3>5. CameFrom([i \in 1..0 |-> 0], Secrets[tally.pass])'
      BY <3>2 DEF CameFrom, Traced
    <3>6. Nowhere => out = Blanked(parts) /\ <<>> = SubSeq(out, 1, 0)
      <4>1. place - 1 = Len(text)
        BY <2>3, <2>6
      <4> QED
        BY <2>3, <4>1, WholePrefix
    <3>7. tally'.pass \in 1..(Len(Secrets) + 1) /\ place' <= Len(tally'.text) + 1 /\ place' - 1 = 0
      BY <1>3, <2>1, <2>3, <3>1, <3>2
    <3>8. tally'.text \in Seq(Harmless) /\ tally'.out \in Seq(Harmless)
      BY <2>3, <3>2
    <3> QED
      BY <1>2, <1>5, <2>1, <2>2, <3>1, <3>2, <3>4, <3>5, <3>6, <3>7, <3>8 DEF TextInv
  <2>7. CASE place <= Len(text) /\ OccursAt(secret, text, place)
    <3>1. /\ tally' = [tally EXCEPT !.out = Append(@, "REDACTED")]
          /\ place' = place + Len(secret)
      BY <1>8, <2>3, <2>7 DEF Redact
    <3>2. tally'.pass = tally.pass /\ tally'.text = text /\ tally'.out = Append(out, "REDACTED")
      BY <1>4, <3>1 DEF Fields
    <3>3. /\ Len(secret) \in Nat \ {0} /\ place' \in Nat /\ place' # 0 /\ place <= place' - 1
          /\ place' <= Len(text) + 1
      <4>1. Len(secret) \in Nat \ {0} /\ place + Len(secret) - 1 <= Len(text)
        BY <2>5, <2>7 DEF IsSecret, OccursAt
      <4> QED
        BY <2>3, <3>1, <4>1
    <3>4. tally'.out \in Seq(Harmless)
      BY <2>3, <3>2, BeginsClean
    <3>5. ~Nowhere
      <4>1. place \in 1..Len(text)
        BY <2>3, <2>7
      <4> QED
        BY <1>3, <2>1, <2>3, <2>7, <4>1 DEF Missing
    <3>6. \E longer : CameFrom(longer, Secrets[tally.pass])'
      <4>1. PICK s, t, o, p, q, T, longer :
              /\ s = secret /\ t = text /\ o = out /\ p = place /\ q = place'
              /\ T = Harmless /\ longer = Longer(from, Len(out), 0)
        OBVIOUS
      <4>2. Traced(from, s, t, o, p)
        BY <2>4, <4>1 DEF CameFrom
      <4>3. /\ o \in Seq(T) /\ p \in Nat \ {0} /\ q \in Nat /\ p <= q - 1 /\ 0 \in Nat
        <5>1. o \in Seq(T)
          BY <2>3, <4>1
        <5>2. p \in Nat \ {0} /\ q \in Nat /\ p <= q - 1
          <6> HIDE DEF secret, text, out
          <6> QED
            BY <2>3, <3>3, <4>1
        <5> QED
          BY <5>1, <5>2
      <4>4. Traced(Longer(from, Len(o), 0), s, t, Append(o, "REDACTED"), q)
        BY <4>2, <4>3, MarkTraced
      <4>5. Traced(longer, Secrets'[tally'.pass], tally'.text, tally'.out, place')
        BY <1>2, <3>2, <4>1, <4>4
      <4>6. CameFrom(longer, Secrets[tally.pass])'
        BY <4>5 DEF CameFrom
      <4> QED
        BY <4>6
    <3> QED
      BY <1>2, <1>5, <2>1, <2>2, <2>3, <3>1, <3>2, <3>3, <3>4, <3>5, <3>6 DEF TextInv, Missing, OccursAt
  <2>8. CASE place <= Len(text) /\ ~OccursAt(secret, text, place)
    <3>1. /\ tally' = [tally EXCEPT !.out = Append(@, tally.text[place])]
          /\ place' = place + 1
      BY <1>8, <2>3, <2>8 DEF Redact
    <3>2. tally'.pass = tally.pass /\ tally'.text = text /\ tally'.out = Append(out, text[place])
      BY <1>4, <3>1 DEF Fields
    <3>3. /\ place \in 1..Len(text) /\ place' \in Nat /\ place' # 0 /\ place' - 1 = place
          /\ place <= place' - 1 /\ place' <= Len(text) + 1
      BY <2>3, <2>8, <3>1
    <3>4. tally'.out \in Seq(Harmless)
      BY <2>3, <3>2, <3>3
    <3>5. Nowhere => Append(out, text[place]) = SubSeq(text, 1, place)
      BY <2>3, <3>3, PrefixIsAppend
    <3>6. \E longer : CameFrom(longer, Secrets[tally.pass])'
      <4>1. PICK s, t, o, p, q, T, longer :
              /\ s = secret /\ t = text /\ o = out /\ p = place /\ q = place'
              /\ T = Harmless /\ longer = Longer(from, Len(out), place)
        OBVIOUS
      <4>2. Traced(from, s, t, o, p)
        BY <2>4, <4>1 DEF CameFrom
      <4>3. /\ o \in Seq(T) /\ p \in Nat \ {0} /\ q \in Nat /\ p <= q - 1 /\ 0 \in Nat
        <5>1. o \in Seq(T)
          BY <2>3, <4>1
        <5>2. p \in Nat \ {0} /\ q \in Nat /\ p <= q - 1
          <6> HIDE DEF secret, text, out
          <6> QED
            BY <2>3, <3>3, <4>1
        <5> QED
          BY <5>1, <5>2
      <4>4. Traced(Longer(from, Len(o), p), s, t, Append(o, t[p]), q)
        <5>1. q = p + 1 /\ ~OccursAt(s, t, p) /\ p \in Nat
          BY <2>8, <3>1, <4>1, <4>3
        <5> QED
          BY <4>2, <4>3, <5>1, TraceGrows
      <4>5. Traced(longer, Secrets'[tally'.pass], tally'.text, tally'.out, place')
        BY <1>2, <3>2, <4>1, <4>4
      <4>6. CameFrom(longer, Secrets[tally.pass])'
        BY <4>5 DEF CameFrom
      <4> QED
        BY <4>6
    <3> QED
      BY <1>2, <1>5, <2>1, <2>2, <2>3, <3>1, <3>2, <3>3, <3>4, <3>5, <3>6 DEF TextInv, Missing, OccursAt
  <2> QED
    BY <2>3, <2>6, <2>7, <2>8
<1> QED
  BY <1>1, <1>6, <1>7, <1>8

(* The width of a text, and the longest prefix that is narrow enough       *)
LEMMA WidthGrows ==
  ASSUME NEW T, NEW text \in Seq(T), NEW c \in T
  PROVE  /\ WidthOf(<<>>) = 0 /\ WidthOf(text) \in Nat
         /\ WidthOf(Append(text, c)) = WidthOf(text) + Width(c)
         /\ Width(c) \in Nat /\ Width("more") = 1
<1>1. \A x : Width(x) \in Nat /\ Width("more") = 1
  BY DEF Width
<1> DEFINE w(t) == [i \in DOMAIN t |-> Width(t[i])]
<1>2. w(<<>>) = <<>>
  OBVIOUS
<1>3. /\ DOMAIN text = 1..Len(text) /\ Len(text) \in Nat
      /\ DOMAIN Append(text, c) = 1..(Len(text) + 1)
      /\ Append(text, c)[Len(text) + 1] = c
      /\ \A i \in 1..Len(text) : Append(text, c)[i] = text[i]
  OBVIOUS
<1>4. w(text) \in Seq(Nat) /\ Len(w(text)) = Len(text)
  BY <1>1, <1>3
<1>5. w(Append(text, c)) = [i \in 1..(Len(text) + 1) |->
                             IF i = Len(text) + 1 THEN Width(c) ELSE Width(text[i])]
  BY <1>3
<1>6. Append(w(text), Width(c)) = [i \in 1..(Len(text) + 1) |->
                                     IF i = Len(text) + 1 THEN Width(c) ELSE Width(text[i])]
  BY <1>3, <1>4
<1> HIDE DEF w
<1>7. SumSeq(w(text)) \in Nat /\ SumSeq(Append(w(text), Width(c))) = SumSeq(w(text)) + Width(c)
  BY <1>1, <1>4, SumAppend
<1> QED
  BY <1>1, <1>2, <1>5, <1>6, <1>7, SumEmpty DEF WidthOf, w

LEMMA WidthIs ==
  ASSUME NEW T, NEW text \in Seq(T) PROVE WidthOf(text) \in Nat /\ WidthOf(<<>>) = 0 /\ Width("more") = 1
<1>1. text \in Seq(T \cup {"more"}) /\ "more" \in T \cup {"more"}
  BY SeqMonotonic
<1> QED
  BY <1>1, WidthGrows

LEMMA TruncatedIs ==
  ASSUME NEW T, NEW text \in Seq(T), NEW max \in Nat
  PROVE  \/ Truncated(text, max) = text /\ WidthOf(text) <= max
         \/ Truncated(text, max) = <<>>
         \/ \E n \in 0..(Len(text) - 1) :
              /\ Truncated(text, max) = Append(SubSeq(text, 1, n), "more")
              /\ WidthOf(SubSeq(text, 1, n)) + 1 <= max
              /\ WidthOf(SubSeq(text, 1, n + 1)) + 1 > max
<1> SUFFICES ASSUME ~(WidthOf(text) <= max), ~(max < Width("more"))
             PROVE  \E n \in 0..(Len(text) - 1) :
                      /\ Truncated(text, max) = Append(SubSeq(text, 1, n), "more")
                      /\ WidthOf(SubSeq(text, 1, n)) + 1 <= max
                      /\ WidthOf(SubSeq(text, 1, n + 1)) + 1 > max
  BY DEF Truncated
<1> DEFINE fits(n) == WidthOf(SubSeq(text, 1, n)) <= max - 1
           room == {prefix \in Prefixes(text) : WidthOf(prefix) <= max - Width("more")}
           longest == CHOOSE prefix \in room : \A other \in room : Len(other) <= Len(prefix)
           U == {m \in 1..(Len(text) + 1) : fits(m - 1)}
<1>1. Width("more") = 1 /\ WidthOf(text) \in Nat /\ WidthOf(<<>>) = 0 /\ Len(text) \in Nat
  BY WidthIs
<1>2. \A n \in 0..Len(text) : /\ SubSeq(text, 1, n) \in Seq(T) /\ Len(SubSeq(text, 1, n)) = n
                              /\ WidthOf(SubSeq(text, 1, n)) \in Nat
  <2> SUFFICES ASSUME NEW n \in 0..Len(text)
               PROVE  /\ SubSeq(text, 1, n) \in Seq(T) /\ Len(SubSeq(text, 1, n)) = n
                      /\ WidthOf(SubSeq(text, 1, n)) \in Nat
    OBVIOUS
  <2>1. SubSeq(text, 1, n) \in Seq(T) /\ Len(SubSeq(text, 1, n)) = n
    BY <1>1
  <2> QED
    BY <2>1, WidthIs
<1>3. /\ \A prefix \in room : \E n \in 0..Len(text) : prefix = SubSeq(text, 1, n) /\ fits(n)
      /\ \A n \in 0..Len(text) : fits(n) => SubSeq(text, 1, n) \in room
  BY <1>1 DEF Prefixes
<1>4. fits(0) /\ ~fits(Len(text))
  <2>1. SubSeq(text, 1, 0) = <<>> /\ SubSeq(text, 1, Len(text)) = text
    BY <1>1, WholePrefix
  <2>2. 0 <= max - 1
    BY <1>1
  <2>3. fits(0)
    BY <1>1, <2>1, <2>2
  <2>4. WidthOf(text) > max /\ ~(WidthOf(text) <= max - 1)
    BY <1>1
  <2>5. WidthOf(SubSeq(text, 1, Len(text))) = WidthOf(text)
    BY <2>1
  <2>6. ~fits(Len(text))
    BY <2>4, <2>5
  <2> QED
    BY <2>3, <2>6
<1>size. PICK size \in Nat : size = Len(text)
  BY <1>1
<1> HIDE DEF fits, room
<1>5. \E n \in 0..Len(text) : fits(n) /\ \A m \in 0..Len(text) : fits(m) => m <= n
  <2>1. 1 \in U /\ U \subseteq 1..(size + 1) /\ size + 1 \in Nat
    BY <1>1, <1>4, <1>size
  <2>2. \E x \in U : \A y \in U : x >= y
    <3> HIDE DEF U
    <3>1. U # {}
      BY <2>1
    <3> QED
      BY <2>1, <3>1, MaxOfSome
  <2>most. PICK x \in 1..(size + 1) : x \in U /\ \A y \in U : x >= y
    BY <2>2, <2>1
  <2>3. x - 1 \in 0..Len(text) /\ fits(x - 1)
    BY <1>1, <1>size, <2>most
  <2>4. \A m \in 0..Len(text) : fits(m) => m <= x - 1
    <3> SUFFICES ASSUME NEW m \in 0..Len(text), fits(m) PROVE m <= x - 1
      OBVIOUS
    <3>1. m + 1 \in U /\ m \in Nat
      BY <1>1
    <3>2. x >= m + 1
      BY <3>1, <2>most
    <3> QED
      BY <3>1, <3>2
  <2> QED
    BY <2>3, <2>4
<1>6. PICK n \in 0..Len(text) : fits(n) /\ \A m \in 0..Len(text) : fits(m) => m <= n
  BY <1>5
<1>7. /\ SubSeq(text, 1, n) \in room
      /\ \A other \in room : Len(other) <= Len(SubSeq(text, 1, n))
  BY <1>2, <1>3, <1>6
<1>8. longest \in room /\ \A other \in room : Len(other) <= Len(longest)
  BY <1>7
<1>9. PICK k \in 0..Len(text) : longest = SubSeq(text, 1, k) /\ fits(k)
  BY <1>3, <1>8
<1>10. k < Len(text)
  BY <1>1, <1>4, <1>9
<1>11. ~fits(k + 1)
  <2> SUFFICES ASSUME fits(k + 1) PROVE FALSE
    OBVIOUS
  <2>1. k + 1 \in 0..Len(text)
    BY <1>1, <1>10
  <2>2. Len(SubSeq(text, 1, k + 1)) <= Len(longest)
    BY <1>3, <1>8, <2>1
  <2>3. Len(SubSeq(text, 1, k + 1)) = k + 1 /\ Len(longest) = k
    BY <1>2, <1>9, <2>1
  <2> QED
    BY <2>2, <2>3
<1>12. Truncated(text, max) = Append(longest, "more")
  BY DEF Truncated, room
<1>13. /\ WidthOf(SubSeq(text, 1, k)) \in Nat /\ WidthOf(SubSeq(text, 1, k + 1)) \in Nat
       /\ k \in 0..(Len(text) - 1)
  <2>1. k + 1 \in 0..Len(text)
    BY <1>1, <1>10
  <2> QED
    BY <1>1, <1>2, <1>10, <2>1
<1>14. WidthOf(SubSeq(text, 1, k)) <= max - 1 /\ ~(WidthOf(SubSeq(text, 1, k + 1)) <= max - 1)
  BY <1>9, <1>11 DEF fits
<1>15. WidthOf(SubSeq(text, 1, k)) + 1 <= max /\ WidthOf(SubSeq(text, 1, k + 1)) + 1 > max
  BY <1>13, <1>14
<1> QED
  BY <1>9, <1>12, <1>13, <1>15

LEMMA TextJudged ==
  ASSUME BasicInv, TextInv PROVE NoSecretRemains
<1> SUFFICES ASSUME Ruled("text") PROVE NoSecretRemains
  BY DEF NoSecretRemains
<1>1. exhibit.judge = "text" /\ ruling # Nobody
  BY DEF Ruled
<1> DEFINE text == tally.text
           blanked == Blanked(parts)
<1>2. /\ Len(Secrets) \in Nat /\ DOMAIN Secrets = 1..Len(Secrets)
      /\ \A k \in 1..Len(Secrets) : IsSecret(Secrets[k])
  BY <1>1, SecretsAre
<1>3. /\ ruling = Truncated(text, MaxText) /\ text \in Seq(Harmless)
      /\ \A k \in 1..Len(Secrets) : Missing(Secrets[k], text)
      /\ (\A k \in DOMAIN Secrets : Missing(Secrets[k], blanked)) => text = blanked
  BY <1>1, <1>2 DEF TextInv
<1>4. \/ ruling = text /\ WidthOf(text) <= MaxText
      \/ ruling = <<>>
      \/ \E n \in 0..(Len(text) - 1) :
           /\ ruling = Append(SubSeq(text, 1, n), "more")
           /\ WidthOf(SubSeq(text, 1, n)) + 1 <= MaxText
           /\ WidthOf(SubSeq(text, 1, n + 1)) + 1 > MaxText
  BY <1>3, TruncatedIs, AuditConstants
<1>5. Len(text) \in Nat /\ Width("more") = 1 /\ WidthOf(<<>>) = 0 /\ MaxText \in Nat
  BY <1>3, WidthIs, AuditConstants
<1> HIDE DEF text, blanked
<1>6. ASSUME NEW n \in 0..(Len(text) - 1)
      PROVE  /\ SubSeq(text, 1, n) \in Seq(Harmless) /\ Len(SubSeq(text, 1, n)) = n
             /\ \A i \in 1..n : SubSeq(text, 1, n)[i] = text[i]
             /\ WidthOf(SubSeq(text, 1, n)) \in Nat
             /\ WidthOf(Append(SubSeq(text, 1, n), "more")) = WidthOf(SubSeq(text, 1, n)) + 1
  <2>1. /\ SubSeq(text, 1, n) \in Seq(Harmless) /\ Len(SubSeq(text, 1, n)) = n
        /\ \A i \in 1..n : SubSeq(text, 1, n)[i] = text[i]
    BY <1>3, <1>5
  <2>2. SubSeq(text, 1, n) \in Seq(Harmless \cup {"more"}) /\ "more" \in Harmless \cup {"more"}
    BY <2>1, SeqMonotonic
  <2> QED
    BY <2>1, <2>2, WidthGrows
<1>7. WidthOf(ruling) <= MaxText
  <2>1. CASE ruling = text /\ WidthOf(text) <= MaxText
    BY <2>1
  <2>2. CASE ruling = <<>>
    BY <2>2, <1>5
  <2>3. ASSUME NEW n \in 0..(Len(text) - 1), ruling = Append(SubSeq(text, 1, n), "more"),
               WidthOf(SubSeq(text, 1, n)) + 1 <= MaxText
        PROVE  WidthOf(ruling) <= MaxText
    BY <2>3, <1>6
  <2> QED
    BY <1>4, <2>1, <2>2, <2>3
<1>letters. ruling \in Seq(Harmless \cup {"more"})
  <2>1. CASE ruling = text
    BY <2>1, <1>3, SeqMonotonic
  <2>2. CASE ruling = <<>>
    BY <2>2
  <2>3. ASSUME NEW n \in 0..(Len(text) - 1), ruling = Append(SubSeq(text, 1, n), "more")
        PROVE  ruling \in Seq(Harmless \cup {"more"})
    <3>1. SubSeq(text, 1, n) \in Seq(Harmless \cup {"more"})
      BY <1>6, SeqMonotonic
    <3> QED
      BY <2>3, <3>1
  <2> QED
    BY <1>4, <2>1, <2>2, <2>3
<1>8. "control" \notin ToSet(ruling)
  <2>1. \A i \in DOMAIN ruling : ruling[i] \in Harmless \cup {"more"}
    BY <1>letters
  <2> QED
    BY <1>1, <2>1, BeginsClean DEF ToSet
<1>9. ruling # text /\ ruling # <<>> =>
         \E n \in 0..Len(text) :
           /\ ruling = Append(SubSeq(text, 1, n), "more")
           /\ WidthOf(SubSeq(text, 1, n + 1)) + Width("more") > MaxText
  BY <1>4, <1>5
<1>10. (\A k \in DOMAIN Secrets, i \in DOMAIN parts : ~OccursAt(Secrets[k], blanked, i)) => text = blanked
  <2>1. DOMAIN parts = 1..Len(blanked)
    BY <1>1, PartsAreList, BeginsClean DEF blanked
  <2> QED
    BY <1>3, <2>1 DEF Missing
<1>11. ASSUME NEW k \in DOMAIN Secrets, NEW i \in DOMAIN ruling,
              OccursAt(Blanked(Secrets[k]), ruling, i), "control" \notin ToSet(Secrets[k])
       PROVE  FALSE
  <2>1. PICK secret : secret = Secrets[k]
    OBVIOUS
  <2>2. IsSecret(secret) /\ Missing(secret, text)
    BY <1>2, <1>3, <2>1
  <2>3. PICK m \in Nat \ {0} : m = Len(secret)
    BY <2>2 DEF IsSecret
  <2>4. Blanked(secret) = secret
    <3>1. \A d \in 1..m : secret[d] # "control"
      BY <1>11, <2>1, <2>2, <2>3 DEF ToSet, IsSecret
    <3>2. secret = [d \in 1..m |-> secret[d]] /\ DOMAIN secret = 1..m
      BY <2>2, <2>3 DEF IsSecret
    <3> QED
      BY <3>1, <3>2 DEF Blanked
  <2>5. i \in 1..Len(ruling) /\ i \in Nat \ {0} /\ Len(ruling) \in Nat
    BY <1>letters
  <2>6. /\ i + m - 1 <= Len(ruling)
        /\ \A d \in 1..m : ruling[i + d - 1] = secret[d]
    BY <1>11, <1>letters, <2>1, <2>2, <2>3, <2>4, <2>5, OccursIs
  <2>7. CASE ruling = text
    BY <2>1, <2>2, <2>4, <2>5, <2>7, <1>11 DEF Missing
  <2>8. CASE ruling = <<>>
    BY <2>5, <2>8
  <2>9. ASSUME NEW n \in 0..(Len(text) - 1), ruling = Append(SubSeq(text, 1, n), "more")
        PROVE  FALSE
    <3>1. PICK prefix : prefix = SubSeq(text, 1, n)
      OBVIOUS
    <3>2. /\ prefix \in Seq(Harmless) /\ Len(prefix) = n /\ n \in Nat
          /\ \A p \in 1..n : prefix[p] = text[p]
      BY <1>6, <1>5, <3>1
    <3>3. /\ Len(ruling) = n + 1 /\ ruling[n + 1] = "more"
          /\ \A p \in 1..n : ruling[p] = prefix[p]
      BY <2>9, <3>1, <3>2
    <3>4. i + m - 1 # n + 1
      <4>1. m \in 1..m /\ secret[m] # "more"
        BY <2>2, <2>3 DEF IsSecret
      <4> QED
        BY <2>6, <3>3, <4>1
    <3>5. i + m - 1 <= n
      <4>1. i + m - 1 <= n + 1
        BY <2>6, <3>3
      <4>2. i \in Nat /\ m \in Nat /\ n \in Nat
        BY <2>5, <3>2
      <4> HIDE DEF text
      <4> QED
        BY <3>4, <4>1, <4>2
    <3>6. ASSUME NEW d \in 1..m PROVE text[i + d - 1] = secret[d]
      <4>1. i + d - 1 \in 1..n
        BY <2>5, <3>2, <3>5
      <4> QED
        BY <2>6, <3>2, <3>3, <4>1
    <3>7. i + m - 1 <= Len(text) /\ i \in 1..Len(text)
      BY <1>5, <2>5, <3>2, <3>5
    <3>8. OccursAt(secret, text, i)
      BY <1>3, <2>2, <2>3, <2>5, <3>6, <3>7, OccursIs
    <3> QED
      BY <2>2, <3>7, <3>8 DEF Missing
  <2> QED
    BY <1>4, <2>7, <2>8, <2>9
<1> QED
  BY <1>7, <1>8, <1>9, <1>10, <1>11 DEF NoSecretRemains, text, blanked

-----------------------------------------------------------------------------
(* All the judges *)

AuditInv ==
  /\ BasicInv /\ StdoutInv /\ CatalogInv /\ ResultInv
  /\ GraphInv /\ FleetInv /\ BracesInv /\ TextInv

LEMMA AuditBegins == AuditInit /\ BasicInv => AuditInv
<1> SUFFICES ASSUME NEW e, AuditOf(e), BasicInv PROVE AuditInv
  BY DEF AuditInit
<1>1. /\ place = 0 /\ ruling = Nobody /\ 1..(place - 1) = {}
      /\ tally.frames = 0 /\ tally.responses = 0 /\ tally.seen = {} /\ tally.bytes = 0
      /\ tally.findings = <<>> /\ tally.schemas = 0 /\ ~tally.denies /\ tally.depth = 0
      /\ ~tally.quoted /\ ~tally.escaped /\ tally.pass = 0 /\ tally.out = <<>>
  BY DEF AuditOf
<1>2. StdoutInv
  BY <1>1 DEF StdoutInv
<1>3. CatalogInv /\ ResultInv
  BY <1>1 DEF CatalogInv, ResultInv
<1>4. GraphInv
  BY <1>1, AuditConstants DEF GraphInv
<1>5. FleetInv
  BY <1>1 DEF FleetInv
<1>6. BracesInv
  BY <1>1 DEF BracesInv
<1>7. TextInv
  BY <1>1 DEF TextInv
<1> QED
  BY <1>2, <1>3, <1>4, <1>5, <1>6, <1>7 DEF AuditInv

LEMMA AuditStands == AuditInv /\ UNCHANGED auditVars => AuditInv'
<1> SUFFICES ASSUME AuditInv, exhibit' = exhibit, place' = place, tally' = tally, ruling' = ruling
             PROVE  AuditInv'
  BY DEF auditVars
<1>1. BasicInv'
  BY DEF AuditInv, BasicInv, HeadFault, HeadChecks, parts, CatalogChecks, ResultChecks
<1>2. StdoutInv'
  BY DEF AuditInv, StdoutInv, parts, FramesTo, AnswersTo
<1>3. CatalogInv'
  BY DEF AuditInv, CatalogInv, parts, ToolFault
<1>4. ResultInv'
  BY DEF AuditInv, ResultInv, parts, SizeOf
<1>5. GraphInv'
  BY DEF AuditInv, GraphInv, parts, DependencyFault, TooMany
<1>6. FleetInv'
  BY DEF AuditInv, FleetInv, parts, Contradicts, FleetRuling, Unverified
<1>7. BracesInv'
  <2>1. object' = object /\ At' = At
    BY DEF object, At, Places
  <2>2. \A k : Between(k)' = Between(k) /\ \A j : Within(k, j)' = Within(k, j)
    BY <2>1 DEF Between, Within
  <2>3. Reading' = Reading
    BY <2>1, <2>2 DEF Reading
  <2> QED
    BY <2>1, <2>3 DEF AuditInv, BracesInv
<1>8. TextInv'
  BY DEF AuditInv, TextInv, Harmless, CameFrom, parts, Secrets
<1> QED
  BY <1>1, <1>2, <1>3, <1>4, <1>5, <1>6, <1>7, <1>8 DEF AuditInv

(* What each judge has found out is true of the parts it has passed.       *)
THEOREM AuditInvariance == AuditSpec => []AuditInv
<1>1. AuditInit /\ BasicInv => AuditInv
  BY AuditBegins
<1>2. AuditInv /\ BasicInv' /\ [AuditNext]_auditVars => AuditInv'
  <2>1. AuditInv /\ BasicInv' /\ AuditNext => AuditInv'
    BY StdoutStep, CatalogStep, ResultStep, GraphStep, FleetStep, BracesStep, TextStep DEF AuditInv
  <2> QED
    BY <2>1, AuditStands
<1> QED
  BY <1>1, <1>2, BasicInvariance, PTL DEF AuditSpec

(* What a walk up to the first complaint rules is true of the whole, for   *)
(* any exhibits and bounds.                                                *)
THEOREM JudgesAreRight == AuditSpec => []AuditsAgree
<1>1. AuditInv => AuditsAgree
  BY StdoutJudged, SessionJudged, GraphJudged, FleetJudged, BracesJudged, TextJudged
  DEF AuditInv, AuditsAgree
<1> QED
  BY <1>1, AuditInvariance, PTL
=============================================================================
