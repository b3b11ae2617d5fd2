---------------------------- MODULE AugmentedCatalog ----------------------------
(***************************************************************************)
(* A product server with the fleet's catalog added: ParityAugmented around *)
(* a primary handler and the shared OrgMcpServer. A client walks through   *)
(* the pages of one list, tools, resources or prompts, and then asks for   *)
(* one name. A name is a number, for its order in the list. The primary is *)
(* any handler: it may list what it does not answer, and fail.             *)
(***************************************************************************)
EXTENDS Lists, FiniteSets

CONSTANTS
  Primaries,     \* handlers: kind, pages, and the names each of its methods knows
  Names,         \* every name a client asks for
  Shared(_),     \* the names of a kind in the catalog of the fleet
  Scope(_),      \* the names the composition takes for the fleet's
  MaxOutput,     \* MAX_TOOL_OUTPUT_BYTES
  NoOne          \* an absent value

Kinds == {"tools", "resources", "prompts"}

ASSUME CatalogConstants ==
  /\ Names \subseteq Int /\ MaxOutput \in Nat
  /\ \A k \in Kinds : /\ IsFiniteSet(Shared(k))
                      /\ Shared(k) \subseteq Scope(k) /\ Scope(k) \subseteq Names
  /\ Scope("tools") = Shared("tools") /\ Scope("prompts") = Shared("prompts")
  /\ \A p \in Primaries :
       p.kind \in Kinds /\ p.pages \in Seq(Seq(Names)) /\ Len(p.pages) > 0 /\ p.knows \subseteq Names

VARIABLES
  step,     \* where the client is
  primary,  \* the product's handler
  cursor,   \* the number of the page to ask for
  seen,     \* the pages the client got
  sought,   \* the name it asked for
  said      \* who answered, and how

catalogVars == <<step, primary, cursor, seen, sought, said>>

CatalogInit ==
  /\ step = "compose" /\ primary = NoOne /\ cursor = 1 /\ seen = <<>>
  /\ sought = NoOne /\ said = NoOne

-----------------------------------------------------------------------------
(* ParityAugmented::new asks the primary for each shared tool by name,     *)
(* then checks the identity of the organization.                           *)
Collides(p) == p.kind = "tools" /\ p.knows \cap Shared("tools") # {}

Compose ==
  /\ step = "compose"
  /\ primary' \in Primaries
  /\ IF Collides(primary') \/ ~primary'.valid
     THEN step' = "done" /\ said' = <<"new", IF Collides(primary') THEN "collision" ELSE "invalid">>
     ELSE step' = "listing" /\ UNCHANGED said
  /\ UNCHANGED <<cursor, seen, sought>>

Entries(names, owner) == [i \in DOMAIN names |-> [name |-> names[i], owner |-> owner]]
NamesOf(entries) == {entries[i].name : i \in DOMAIN entries}

(* OrgMcpServer lists its whole catalog whatever the cursor.               *)
ParityPage == Entries(SetToSeq(Shared(primary.kind)), "parity")

(* sort_by, which is stable: where an entry goes is how many go before it. *)
NotAfter(list, i) ==
  {j \in DOMAIN list : \/ list[j].name < list[i].name
                       \/ list[j].name = list[i].name /\ j <= i}
Whose(list, place) == CHOOSE i \in DOMAIN list : Cardinality(NotAfter(list, i)) = place
Sorted(list) == [place \in DOMAIN list |-> list[Whose(list, place)]]

(* merge_tools, merge_resources, merge_prompts: what the primary lists     *)
(* under a name stays, and the page is sorted.                             *)
Merged_Both(own, parity) == Sorted(own \o parity)
Merged(own, parity) ==
  Sorted(own \o Sifted(parity, {e \in ToSet(parity) : e.name \notin NamesOf(own)}))

(* A failing primary fails the page. The cursor is the primary's: the      *)
(* fleet's catalog never has one.                                          *)
ListPage ==
  /\ step = "listing"
  /\ \/ /\ seen' = Append(seen, Merged(Entries(primary.pages[cursor], "primary"), ParityPage))
        /\ IF cursor < Len(primary.pages)
           THEN cursor' = cursor + 1 /\ UNCHANGED step
           ELSE step' = "listed" /\ UNCHANGED cursor
        /\ UNCHANGED said
     \/ /\ step' = "done" /\ said' = <<"primary", "failed">>
        /\ UNCHANGED <<cursor, seen>>
  /\ UNCHANGED <<primary, sought>>

-----------------------------------------------------------------------------
(* call_tool, read_resource, get_prompt *)

PrimaryAnswers(name) ==
  IF name \in primary.serves THEN {<<"primary", "ok">>, <<"primary", "failed">>}
  ELSE {<<"primary", "unknown">>}

(* The fleet's resources and prompts are texts; a tool refuses arguments   *)
(* it does not take, and its result is bounded by successful_json.         *)
ParityAnswers(name) ==
  IF name \notin Shared(primary.kind) THEN {<<"parity", "unknown">>}
  ELSE IF primary.kind # "tools" THEN {<<"parity", "ok">>}
  ELSE {<<"parity", "invalid">>}
       \cup {<<"parity", IF size > MaxOutput THEN "too_large" ELSE "ok">> : size \in 0..(MaxOutput + 1)}

(* A shared tool is the fleet's alone; a resource or a prompt of the       *)
(* fleet's scope is asked of the primary first.                             *)
Ask ==
  /\ step = "listed"
  /\ sought' \in Names
  /\ step' = "done"
  /\ CASE sought' \notin Scope(primary.kind) -> said' \in PrimaryAnswers(sought')
       [] sought' \in Scope(primary.kind) /\ primary.kind = "tools" -> said' \in ParityAnswers(sought')
       [] OTHER -> \E own \in PrimaryAnswers(sought') :
                     IF own[2] = "ok" THEN said' = own ELSE said' \in ParityAnswers(sought')
  /\ UNCHANGED <<primary, cursor, seen>>

CatalogNext == Compose \/ ListPage \/ Ask

CatalogSpec == CatalogInit /\ [][CatalogNext]_catalogVars

-----------------------------------------------------------------------------
(* Each page names a thing once, in order, unless the primary itself names *)
(* it twice; it holds all of the fleet's catalog and all the primary put   *)
(* on it. So a client that follows the cursors meets the fleet's entries   *)
(* again on every page, and the primary's once (augment.rs 208-219).       *)
PagesAreWhole ==
  \A n \in DOMAIN seen :
    LET page == seen[n]
        mine == primary.pages[n]
    IN  /\ \A i, j \in DOMAIN page : i < j => page[i].name <= page[j].name
        /\ NamesOf(page) = ToSet(mine) \cup Shared(primary.kind)
        /\ IsInjective(mine) => \A i, j \in DOMAIN page : page[i].name = page[j].name => i = j
        /\ \A i \in DOMAIN page : page[i].owner = "primary" <=> page[i].name \in ToSet(mine)

ListedBy(owner) ==
  {name \in Names : \E n \in DOMAIN seen : [name |-> name, owner |-> owner] \in ToSet(seen[n])}

(* get_tool knows what list_tools lists, as a router of tools does.        *)
FindsWhatItLists(p) == p.kind = "tools" => \A n \in DOMAIN p.pages : ToSet(p.pages[n]) \subseteq p.knows

(* Who lists a tool answers it: an older tool never stands in for a shared *)
(* one, nor a shared one for what the primary described (augment.rs 46-48),*)
(* as long as the primary finds by name what it lists. A name of the       *)
(* fleet's catalog is never unknown, and only a name that the fleet does   *)
(* not list can have its primary's failure covered by the fleet's refusal. *)
OwnersAnswer ==
  sought # NoOne =>
    /\ primary.kind = "tools" /\ FindsWhatItLists(primary) =>
         /\ sought \in ListedBy("parity") => said[1] = "parity"
         /\ sought \in ListedBy("primary") => said[1] = "primary"
    /\ sought \in Shared(primary.kind) => said[2] # "unknown"
    /\ said = <<"parity", "unknown">> => sought \in Scope("resources") \ Shared("resources")
    /\ primary.kind = "tools" => (said[1] = "parity" <=> sought \in Shared("tools"))

(* What is listed can be asked for, of the one who listed it.               *)
CatalogIsCallable == PagesAreWhole /\ OwnersAnswer
=============================================================================
