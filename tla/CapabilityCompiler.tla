------------------------- MODULE CapabilityCompiler -------------------------
(***************************************************************************)
(* The capability compiler: a task request becomes a profile, the profile  *)
(* a bundle of files, and a bundle is checked by reading its files only.   *)
(* Bundles are compared for transparent upgrades and for the surfaces a    *)
(* host accepts.                                                           *)
(*                                                                         *)
(* A digest is the value it names; the digest of a bundle is its lineage,  *)
(* the inputs of the commands that made it, which determine every byte.    *)
(* The three byte budgets are one number, and a file's bytes are one plus  *)
(* the operations it lists.                                                *)
(***************************************************************************)
EXTENDS Naturals, Sequences, FiniteSets

CONSTANTS Checkouts,  \* the states of the source tree
          Reviewed,   \* Reviewed[checkout]: operation key -> its reviewed definition
          RevisionOf, \* RevisionOf[definition], and the shapes of its arguments in
          ArgsOf,     \* ArgsOf[definition]
          Families,   \* Families[domain]: task family -> set of operation keys
          Absent

Only(f, S) == [x \in DOMAIN f \cap S |-> f[x]]
\* What f says, and g where f says nothing.
f ++ g == [x \in DOMAIN f \cup DOMAIN g |-> IF x \in DOMAIN f THEN f[x] ELSE g[x]]
File(name, content) == [n \in {name} |-> content]

\* The compiler does not start with a family that names an operation nobody reviewed.
FamiliesLoad(checkout, domain) ==
    /\ \A f \in DOMAIN Families[domain] : Families[domain][f] \subseteq DOMAIN Reviewed[checkout]
    /\ "arithmetic-baseline" \in DOMAIN Families[domain] => Families[domain]["arithmetic-baseline"] = {}

ASSUME SourcesAssumption == \A c \in Checkouts, d \in DOMAIN Families : FamiliesLoad(c, d)

(***************************************************************************)
(* Requests and profiles.  A source is a request, whose operations are     *)
(* derived, or a profile, whose author wrote them.                         *)
(***************************************************************************)
Selected(source) == UNION {Families[source.domain][f] : f \in source.families \cap DOMAIN Families[source.domain]}

FromRequirements(request) == [request EXCEPT !.ops = Selected(request)]

CalcOnly(source) ==
    /\ source.domain = "statistics" /\ source.ops = {} /\ source.calc
    /\ source.specialization = "selected" /\ source.families = {"arithmetic-baseline"}

Tools(source) == (IF source.ops = {} THEN 0 ELSE 1) + (IF source.calc THEN 1 ELSE 0)

Valid(source) ==
    /\ source.families \subseteq DOMAIN Families[source.domain]
    /\ source.ops = Selected(source)
    /\ source.steps = (IF source.calc THEN 8 ELSE 0)
    /\ "arithmetic-baseline" \in source.families \/ source.ops = {} => CalcOnly(source)
    /\ \/ source.specialization = "host-limited"
       \/ source.specialization = "selected" /\ source.target = "no-import-wasm"
    /\ Tools(source) \in 1 .. source.tools

(***************************************************************************)
(* The files of a surface                                                  *)
(***************************************************************************)
ToolFiles == {"xs-eval.tool.json", "xs-calc.tool.json"}
GrammarFiles == {"xs-eval.gbnf", "xs-calc.gbnf", "xs-request.gbnf"}
PromptFiles == {"prompt-fragment.txt", "constrained-prompt.txt"}
SurfaceAssets == ToolFiles \cup GrammarFiles \cup PromptFiles

EvalFiles(catalog) ==
    IF catalog = <<>> THEN <<>>
    ELSE File("xs-eval.tool.json", [tool |-> catalog]) ++ File("xs-eval.gbnf", [eval |-> catalog])

CalcGrammar(revision) == [plan |-> IF revision >= 7 THEN "position-aware" ELSE "base"]
CalcFiles(calc, revision) ==
    IF ~calc THEN <<>>
    ELSE File("xs-calc.tool.json", [tool |-> "plan-v0.1"]) ++ File("xs-calc.contract.json", [contract |-> "plan-v0.1"])
         ++ File("xs-calc.gbnf", CalcGrammar(revision))

\* The lanes of the constrained request: whichever are served, and the no-call answer.
RequestFiles(files, catalog, calc) ==
    File("xs-request.gbnf", [lanes |-> Only(files, {"xs-eval.gbnf", "xs-calc.gbnf"}), noCall |-> TRUE])
    ++ File("prompt-fragment.txt", [native |-> catalog, calc |-> calc])
    ++ File("constrained-prompt.txt", [constrained |-> catalog, calc |-> calc])

SurfaceFiles(profile, catalog) ==
    LET lanes == EvalFiles(catalog) ++ CalcFiles(profile.calc, profile.revision)
    IN lanes ++ RequestFiles(lanes, catalog, profile.calc)

SurfaceContract(profile, catalog, files) ==
    [profile |-> <<profile.id, profile.revision, profile.domain>>, hotset |-> catalog,
     assets |-> Only(files, SurfaceAssets)]

\* Package bytes, and what the model sees: tools and operations.
Measurements(files, catalog) ==
    [bytes |-> Cardinality(DOMAIN files \cap SurfaceAssets) * (1 + Cardinality(DOMAIN catalog)),
     tools |-> Cardinality(DOMAIN files \cap ToolFiles), operations |-> Cardinality(DOMAIN catalog)]

CategoryBindings(files) ==
    [tools |-> Only(files, ToolFiles), grammars |-> Only(files, GrammarFiles), prompts |-> Only(files, PromptFiles)]

\* The manifest lists the digest of every file, so it keeps apart only what is not about the files.
Bundle(sha, files, manifest) == [sha |-> sha, files |-> files, manifest |-> manifest]

ProfileOf(bundle) == bundle.files["profile.json"]
CatalogOf(bundle) == bundle.files["catalog.json"]

Refused == [refused |-> TRUE]

\* verify_reviewed_catalog: the catalog that packc generates is the reviewed one.
CatalogReviewed(ops, packc, checkout) == \A key \in ops : Reviewed[packc][key] = Reviewed[checkout][key]

CompileProfile(source, packc, checkout) ==
    LET given == IF source.ops = Absent THEN FromRequirements(source) ELSE source
        catalog == [key \in given.ops |-> Reviewed[packc][key]]
        surface == SurfaceFiles(given, catalog)
        contract == SurfaceContract(given, catalog, surface)
        profile == given ++ [bindings |-> CategoryBindings(surface) ++
                                 [core |-> checkout, hotset |-> catalog, contract |-> contract, artifact |-> Absent],
                             evidence |-> [suite |-> Absent, mapping |-> Absent, results |-> <<>>]]
        files == surface ++ File("catalog.json", catalog) ++ File("surface-contract.json", contract)
                 ++ File("task-map.json", Only(Families[given.domain], given.families)) ++ File("profile.json", profile)
    IN IF /\ Valid(given) /\ CatalogReviewed(given.ops, packc, checkout)
          /\ Measurements(surface, catalog).bytes <= given.bytes
       THEN Bundle(<<[compiled |-> given, core |-> checkout]>>, files,
                   [measurements |-> Measurements(surface, catalog), operations |-> catalog,
                    lineage |-> <<>>, provenance |-> Absent, artifactBytes |-> Absent])
       ELSE Refused

(***************************************************************************)
(* verify_bundle: what a bundle's files say of each other                  *)
(***************************************************************************)
ContractVerifies(bundle) ==
    LET profile == ProfileOf(bundle) contract == bundle.files["surface-contract.json"] IN
    /\ contract = profile.bindings.contract
    /\ contract.profile = <<profile.id, profile.revision, profile.domain>>
    /\ contract.hotset = profile.bindings.hotset /\ contract.hotset = CatalogOf(bundle)
    /\ contract.assets = Only(bundle.files, SurfaceAssets)

InternallyConsistent(bundle) ==
    LET profile == ProfileOf(bundle)
        catalog == CatalogOf(bundle)
        taskMap == bundle.files["task-map.json"]
        present == DOMAIN bundle.files
    IN
    /\ DOMAIN taskMap = profile.families
    /\ profile.ops = UNION {taskMap[f] : f \in DOMAIN taskMap} /\ DOMAIN catalog = profile.ops
    /\ {"xs-eval.tool.json", "xs-eval.gbnf"} \cap present =
           (IF profile.ops = {} THEN {} ELSE {"xs-eval.tool.json", "xs-eval.gbnf"})
    /\ {"xs-calc.tool.json", "xs-calc.gbnf", "xs-calc.contract.json"} \cap present =
           (IF profile.calc THEN {"xs-calc.tool.json", "xs-calc.gbnf", "xs-calc.contract.json"} ELSE {})
    /\ PromptFiles \cup {"xs-request.gbnf"} \subseteq present
    /\ profile.bindings.hotset = catalog
    /\ Only(profile.bindings, {"tools", "grammars", "prompts"}) = CategoryBindings(bundle.files)
    /\ bundle.manifest.operations = catalog
    /\ bundle.manifest.measurements = Measurements(bundle.files, catalog)
    /\ bundle.manifest.measurements.bytes <= profile.bytes
    /\ IF profile.bindings.artifact = Absent THEN "runtime.wasm" \notin present
       ELSE "runtime.wasm" \in present /\ bundle.files["runtime.wasm"] = profile.bindings.artifact

Verifies(bundle) == InternallyConsistent(bundle) /\ ContractVerifies(bundle)

(***************************************************************************)
(* Candidate sets: one request, a semantic-only and a combined surface     *)
(***************************************************************************)
CandidateRequests(request) ==
    [semantic |-> [request EXCEPT !.id = @ \o ".semantic", !.calc = FALSE, !.tools = 1, !.steps = 0],
     combined |-> [request EXCEPT !.id = @ \o ".combined", !.calc = TRUE, !.tools = 2, !.steps = 8]]

Candidates(request, packc, checkout) ==
    LET compiled == [l \in {"semantic", "combined"} |-> CompileProfile(CandidateRequests(request)[l], packc, checkout)]
    IN IF /\ request.ops = Absent /\ request.families # {} /\ "arithmetic-baseline" \notin request.families
          /\ Refused \notin {compiled["semantic"], compiled["combined"]}
          /\ compiled["semantic"].sha # compiled["combined"].sha
       THEN compiled ELSE Refused

(***************************************************************************)
(* Compatibility                                                           *)
(***************************************************************************)
\* check_acceptance: exact versions of every asset contract the bundle lists.
AcceptedBy(policy, bundle) == DOMAIN bundle.files["surface-contract.json"].assets \subseteq policy

KeepsOperation(old, new, allowUpgrade) ==
    \/ new = old
    \/ RevisionOf[new] > RevisionOf[old] /\ allowUpgrade

\* A slip: operations that the candidate no longer lists are not looked for.
UpgradeIgnoringRemovals(baseline, candidate, allowUpgrade) ==
    LET old == ProfileOf(baseline) new == ProfileOf(candidate) IN
    /\ <<old.id, old.domain>> = <<new.id, new.domain>>
    /\ baseline.sha = candidate.sha \/ new.revision > old.revision
    /\ \A key \in old.ops \cap new.ops :
           KeepsOperation(CatalogOf(baseline)[key], CatalogOf(candidate)[key], allowUpgrade)
\* compare_bundles
TransparentUpgrade(baseline, candidate, allowUpgrade) ==
    LET old == ProfileOf(baseline) new == ProfileOf(candidate) IN
    /\ <<old.id, old.domain>> = <<new.id, new.domain>>
    /\ baseline.sha = candidate.sha \/ new.revision > old.revision
    /\ old.ops \subseteq new.ops
    /\ \A key \in old.ops : KeepsOperation(CatalogOf(baseline)[key], CatalogOf(candidate)[key], allowUpgrade)
=============================================================================
