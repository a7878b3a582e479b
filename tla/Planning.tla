------------------------------ MODULE Planning ------------------------------
(***************************************************************************)
(* From a source repository to the task list of a run: file discovery of   *)
(* the Spring Boot adapter, the extraction loop and the reference          *)
(* resolution of the comprehension node, the grouping of units into tasks  *)
(* by run_synthesis with the paths of the FastAPI adapter, and the reducer *)
(* that stores the tasks.  MigrationGraph starts from any plan; this       *)
(* module says which plans there are.                                      *)
(*                                                                         *)
(* A slug is the sequence of the words between its underscores, so that    *)
(* slugs put together from other slugs can be compared; the empty slug is  *)
(* one empty word.  Slugify and Lower tabulate the two conversions of a    *)
(* name.                                                                   *)
(***************************************************************************)
EXTENDS Integers, Sequences, FiniteSets

CONSTANTS Name,            \* names of units, as written in the source
          Texts,           \* what a word of a slug may be
          Slugify, Lower,  \* slugify(name) and name.lower()
          Capitalized,     \* names find_capitalized_tokens finds in a text
          Tree,            \* the .java files below src/main/java, in walk order
          Scopes,          \* sets of terms a scope description may yield
          Answers,         \* Answers[path]: unit lists the model may extract
          CallCosts,       \* possible costs of an extraction call
          RemainingUsd,    \* budget.remaining_usd() when the node starts
          RemainingCalls   \* calls left below max_llm_calls at that moment

Kind == {"endpoint", "service", "repository", "data_model", "middleware",
         "config", "utility"}

\* The payload classes of the IR; refs are the names a payload mentions in
\* calls_services, request_body_model, response_model, depends_on,
\* target_data_model or relationships.
Payload == [class : {"EndpointUnit", "ServiceUnit", "RepositoryUnit",
                     "DataModelUnit", "MiddlewareUnit"},
            name  : Name,
            refs  : SUBSET Name]

\* What the model is asked to produce for each unit of a file.
RawExtractedUnit == [kind : Kind, name : Name, payload : Payload]

\* What ExtractionClient.extract may return: structured output that was parsed,
\* or an answer without it (parsed is None).
ExtractionResponses(path) ==
  [parsed : {TRUE}, units : Answers[path], cost_usd : CallCosts]
    \cup [parsed : {FALSE}, units : {<<>>}, cost_usd : CallCosts]

\* A word is the numeral of a positive number or some other text.
Word == [text : Texts, number : Nat]

Text(t) == [text |-> t, number |-> 0]

Numeral(n) == [text |-> "", number |-> n]

EmptyWord == Text("")

\* What slugify returns: strip("_") leaves no empty word but that of the empty
\* slug.
Slug == {w \in Seq(Word) : w = <<EmptyWord>> \/ (w # <<>> /\ w[1] # EmptyWord)}

\* The words that the code itself contains.
FixedTexts ==
  Kind \cup {"", "data", "model", "app", "routers", "services", "repositories",
             "schemas", "middleware", "core", "utils", "router", "py"}

ASSUME PlanningAssumption ==
  /\ FixedTexts \subseteq Texts
  /\ \A name \in Name : Slugify[name] \in Slug
  /\ DOMAIN Lower = Name
  /\ Capitalized \subseteq Name
  /\ Len(Tree) \in Nat /\ DOMAIN Tree = 1..Len(Tree)
  /\ \A i, j \in DOMAIN Tree : Tree[i].path = Tree[j].path => i = j
  /\ \A i \in DOMAIN Tree : Tree[i].stem \in Slug /\ Tree[i].path \in DOMAIN Answers
  /\ \A path \in DOMAIN Answers : Answers[path] \subseteq Seq(RawExtractedUnit)
  /\ CallCosts \subseteq Nat /\ CallCosts # {}
  /\ RemainingUsd \in Nat
  /\ RemainingCalls \in Nat

VARIABLES
  scope,                   \* the terms of the scope description
  step,                    \* where the two nodes are
  files,                   \* positions in Tree of the discovered files not
                           \* analysed yet
  pending,                 \* pending_units: raw units with their ids
  total_cost, calls,
  ambiguities,             \* unresolved_ambiguities
  units,                   \* the ComprehensionResult
  plan                     \* `tasks' of the state: task by id

vars == <<scope, step, files, pending, total_cost, calls, ambiguities, units, plan>>

-----------------------------------------------------------------------------
(* File discovery.                                                         *)

\* A file of the tree: its package directory, the scope terms its relative
\* path and its own name contain, and whether the walk meets it (no directory
\* above it is skipped) and it can be read.
MatchesScope(file, terms) == file.inPath \cap terms # {}

\* The packages that hold a match are taken whole; without terms, everything.
DiscoverFiles(terms) ==
  LET candidates == {i \in DOMAIN Tree : Tree[i].walked}
      anchorDirs == {Tree[i].dir : i \in {j \in candidates : MatchesScope(Tree[j], terms)}}
  IN  {i \in candidates : /\ terms = {} \/ Tree[i].dir \in anchorDirs
                          /\ Tree[i].readable}

-----------------------------------------------------------------------------
(* Unit ids and references.                                                *)

Ids(pus) == {pus[i].id : i \in DOMAIN pus}

Base(kind, name) == [kind |-> kind, slug |-> Slugify[name]]

\* f"{base}_{n}"
WithSuffix(base, n) == [base EXCEPT !.slug = Append(@, Numeral(n))]

AssignId_SuffixOnce(kind, name, used) ==
  IF Base(kind, name) \notin used THEN Base(kind, name)
  ELSE WithSuffix(Base(kind, name), 2)

\* "kind::slug", with the first suffix from _2 on that makes it unused.
AssignId(kind, name, used) ==
  LET base == Base(kind, name)
      free == {n \in 2..(Cardinality(used) + 2) : WithSuffix(base, n) \notin used}
  IN  IF base \notin used THEN base
      ELSE WithSuffix(base, CHOOSE n \in free : \A m \in free : n <= m)

AddUnit(pus, raw, path) ==
  Append(pus, [id   |-> AssignId(raw.kind, raw.name, Ids(pus)),
               raw  |-> raw,
               path |-> path])

\* pending_units after the first n units of a file.
AddUnitsLoop(pus, raws, path) ==
  LET added[n \in 0..Len(raws)] ==
        IF n = 0 THEN pus ELSE AddUnit(added[n - 1], raws[n], path)
  IN  added

AddUnits(pus, raws, path) == AddUnitsLoop(pus, raws, path)[Len(raws)]

\* _referenced_names: by the class of the payload.  Relationships are prose, of
\* which only capitalized words count; a middleware references nothing.
ReferencedNames(payload) ==
  CASE payload.class = "MiddlewareUnit" -> {}
    [] payload.class = "DataModelUnit" -> payload.refs \cap Capitalized
    [] OTHER -> payload.refs

Bearers(pus, name) == {i \in DOMAIN pus : Lower[pus[i].raw.name] = Lower[name]}

\* name_to_id: the first unit that bears the name, in whatever spelling of the
\* same lower case and of whatever kind.
NameToId(pus, name) ==
  pus[CHOOSE i \in Bearers(pus, name) : \A j \in Bearers(pus, name) : i <= j].id

Resolves(pus, pu, name) ==
  Bearers(pus, name) # {} /\ NameToId(pus, name) # pu.id

SemanticUnit(pus, pu) ==
  [id      |-> pu.id,
   kind    |-> pu.raw.kind,
   path    |-> pu.path,
   payload |-> pu.raw.payload,
   depends_on_unit_ids |->
     {NameToId(pus, n) : n \in {m \in ReferencedNames(pu.raw.payload) :
                                   Resolves(pus, pu, m)}}]

UnresolvedReferences(pus) ==
  UNION {{[about |-> "reference", unit |-> pus[i].id, name |-> n] :
            n \in {m \in ReferencedNames(pus[i].raw.payload) \ {""} :
                      ~ Resolves(pus, pus[i], m)}} : i \in DOMAIN pus}

-----------------------------------------------------------------------------
(* Tasks.                                                                  *)

AppDir(name) == <<Text("app"), Text(name)>>

KindToDir ==
  [endpoint   |-> AppDir("routers"),      service    |-> AppDir("services"),
   repository |-> AppDir("repositories"), data_model |-> AppDir("schemas"),
   middleware |-> AppDir("middleware"),   config     |-> AppDir("core"),
   utility    |-> AppDir("utils")]

\* What slugify makes of a slug within a longer text: an empty word is lost.
Words(slug) == IF slug[1] = EmptyWord THEN Tail(slug) ELSE slug

\* slugify(unit.id)
IdSlug(id) ==
  (IF id.kind = "data_model" THEN <<Text("data"), Text("model")>> ELSE <<Text(id.kind)>>)
    \o Words(id.slug)

FileOf(path) == Tree[CHOOSE i \in DOMAIN Tree : Tree[i].path = path]

\* Endpoints go by the controller they come from, everything else by name.
ModuleNameFor(unit) ==
  IF unit.kind = "endpoint"
  THEN IF FileOf(unit.path).stem = <<EmptyWord>> THEN <<Text("router")>>
       ELSE FileOf(unit.path).stem
  ELSE IF unit.payload.name = "" THEN IdSlug(unit.id) ELSE Slugify[unit.payload.name]

SuggestTargetPath(unit) ==
  [dir |-> KindToDir[unit.kind], module |-> ModuleNameFor(unit)]

TaskId_ModuleOnly(path) == <<Text("task")>> \o Words(path.module)

\* "task::" + slugify("app/<dir>/<module>.py")
TaskId(path) == (path.dir \o Words(path.module)) \o <<Text("py")>>

DependsOnTaskIds_WithSelf(us, path) ==
  {TaskId(SuggestTargetPath(us[j])) :
     j \in {k \in DOMAIN us :
              \E i \in DOMAIN us : /\ SuggestTargetPath(us[i]) = path
                                   /\ us[k].id \in us[i].depends_on_unit_ids}}

DependsOnTaskIds(us, path) ==
  {TaskId(SuggestTargetPath(us[j])) :
     j \in {k \in DOMAIN us :
              \E i \in DOMAIN us : /\ SuggestTargetPath(us[i]) = path
                                   /\ us[k].id \in us[i].depends_on_unit_ids}}
    \ {TaskId(path)}

\* One task per target path, in the order in which the paths first appear: a
\* task's place in the list is the position of the first unit of its file.
RunSynthesis(us) ==
  LET pathOf == [i \in DOMAIN us |-> SuggestTargetPath(us[i])]
      firsts == {i \in DOMAIN us : \A j \in 1..(i - 1) : pathOf[j] # pathOf[i]}
  IN  [n \in firsts |->
         [id              |-> TaskId(pathOf[n]),
          target_file     |-> pathOf[n],
          source_unit_ids |-> {us[i].id : i \in {j \in DOMAIN us : pathOf[j] = pathOf[n]}},
          depends_on_task_ids |-> DependsOnTaskIds(us, pathOf[n])]]

\* The reducer of `tasks', on an empty list: a later task of the same id
\* replaces an earlier one.
MergeTaskLists(tasks) ==
  LET Places(id) == {n \in DOMAIN tasks : tasks[n].id = id}
  IN  [id \in {tasks[n].id : n \in DOMAIN tasks} |->
         tasks[CHOOSE n \in Places(id) : \A m \in Places(id) : m <= n]]

-----------------------------------------------------------------------------
(* The two nodes.                                                          *)

Init ==
  /\ step = "extract"
  /\ scope \in Scopes
  /\ files = DiscoverFiles(scope)
  /\ pending = <<>>
  /\ total_cost = 0 /\ calls = 0
  /\ ambiguities = IF files = {} THEN {[about |-> "scope"]} ELSE {}
  /\ units = <<>>
  /\ plan = <<>>

\* The loop's file.
NextFile == CHOOSE i \in files : \A j \in files : i <= j

WithinBudget_CheckDropped == TRUE

\* The check before each call: of the money only.
WithinBudget == total_cost < RemainingUsd

BudgetStops ==
  /\ step = "extract" /\ files # {}
  /\ ~ WithinBudget
  /\ files' = {}
  /\ ambiguities' = ambiguities \cup {[about |-> "file", path |-> Tree[NextFile].path]}
  /\ UNCHANGED <<scope, step, pending, total_cost, calls, units, plan>>

ExtractFile(response) ==
  /\ step = "extract"
  /\ WithinBudget
  /\ response.parsed
  /\ total_cost' = total_cost + response.cost_usd
  /\ calls' = calls + 1
  /\ pending' = AddUnits(pending, response.units, Tree[NextFile].path)
  /\ files' = files \ {NextFile}
  /\ UNCHANGED <<scope, step, ambiguities, units, plan>>

ExtractionFails_TriesAgain ==
  /\ step = "extract" /\ files # {}
  /\ WithinBudget
  /\ calls' = calls + 1
  /\ UNCHANGED <<scope, step, files, pending, total_cost, ambiguities, units, plan>>

\* Any exception of the client: the file is noted and left out.
ExtractionFails ==
  /\ step = "extract" /\ files # {}
  /\ WithinBudget
  /\ calls' = calls + 1
  /\ ambiguities' = ambiguities \cup {[about |-> "file", path |-> Tree[NextFile].path]}
  /\ files' = files \ {NextFile}
  /\ UNCHANGED <<scope, step, pending, total_cost, units, plan>>

\* parsed is None: reading result.ambiguities raises outside the try block, and
\* the cost of every call of the node never reaches the budget.
UnparsedAnswer(response) ==
  /\ step = "extract"
  /\ WithinBudget
  /\ ~ response.parsed
  /\ total_cost' = total_cost + response.cost_usd
  /\ calls' = calls + 1
  /\ step' = "raised"
  /\ UNCHANGED <<scope, files, pending, ambiguities, units, plan>>

ResolveReferences ==
  /\ step = "extract" /\ files = {}
  /\ units' = [i \in DOMAIN pending |-> SemanticUnit(pending, pending[i])]
  /\ ambiguities' = ambiguities \cup UnresolvedReferences(pending)
  /\ step' = "synthesis"
  /\ UNCHANGED <<scope, files, pending, total_cost, calls, plan>>

Synthesis ==
  /\ step = "synthesis"
  /\ plan' = MergeTaskLists(RunSynthesis(units))
  /\ step' = IF units = <<>> THEN "failed" ELSE "planned"
  /\ UNCHANGED <<scope, files, pending, total_cost, calls, ambiguities, units>>

Stopped == step \in {"planned", "failed", "raised"} /\ UNCHANGED vars

Next ==
  \/ BudgetStops
  \/ /\ files # {}
     /\ \E response \in ExtractionResponses(Tree[NextFile].path) :
          ExtractFile(response) \/ UnparsedAnswer(response)
  \/ ExtractionFails
  \/ ResolveReferences
  \/ Synthesis
  \/ Stopped

Spec == Init /\ [][Next]_vars

-----------------------------------------------------------------------------
(* Properties.                                                             *)

UnitId == [kind : Kind, slug : {w \in Seq(Word) : w # <<>>}]

PendingUnit == [id : UnitId, raw : RawExtractedUnit, path : {Tree[i].path : i \in DOMAIN Tree}]

\* The values of the loop's variables: a file costs at most one call, and every
\* unit found has an id and comes from a file of the tree (comprehension).
TypeOK ==
  /\ step \in {"extract", "synthesis", "planned", "failed", "raised"}
  /\ total_cost \in Nat /\ calls \in 0..Len(Tree)
  /\ files \subseteq DOMAIN Tree
  /\ pending \in Seq(PendingUnit)

\* _assign_id: ids stay unique although a name may itself end in what looks
\* like a suffix, and although spellings that differ share a slug.
UnitIdsAreUnique ==
  \A i, j \in DOMAIN pending : pending[i].id = pending[j].id => i = j

\* synthesis.py:7-8: every extracted unit is in exactly one task of the stored
\* plan and no two tasks write the same file.  Neither the grouping by path nor
\* the slugs that serve as task ids, nor the reducer that keeps one task per
\* id, lose a unit.
EveryUnitIsPlannedOnce ==
  step = "planned" =>
    /\ \A i \in DOMAIN units :
         Cardinality({t \in DOMAIN plan : units[i].id \in plan[t].source_unit_ids}) = 1
    /\ \A t, u \in DOMAIN plan : plan[t].target_file = plan[u].target_file => t = u

TaskOf(id) == CHOOSE t \in DOMAIN plan : id \in plan[t].source_unit_ids

\* What MigrationGraph assumes of a plan, and what the schedule needs of it:
\* dependencies stay within the plan, no task waits for itself, and a task
\* waits for another exactly if one of its units names a unit of the other.
PlanIsAdmissible ==
  step = "planned" =>
    /\ plan # <<>>
    /\ \A t \in DOMAIN plan :
         plan[t].depends_on_task_ids =
           {TaskOf(NameToId(pending, n)) :
              n \in {m \in Name :
                       \E i \in DOMAIN pending :
                         /\ pending[i].id \in plan[t].source_unit_ids
                         /\ m \in ReferencedNames(pending[i].raw.payload)
                         /\ Bearers(pending, m) # {}}} \ {t}

\* The loop goes past the remaining budget by less than one call.
ExtractionOvershoot ==
  calls > 0 => \E cost \in CallCosts : total_cost < RemainingUsd + cost
=============================================================================
