---------------------- MODULE CapabilityBundles_proofs ----------------------
(***************************************************************************)
(* Proofs about capability bundles, for every source tree, request, corpus *)
(* and set of directories: whatever commands made a bundle, its files      *)
(* agree, its runtime serves it, its evidence belongs to it, upgrades      *)
(* compose, and calls that are forwarded can be served.                    *)
(***************************************************************************)
EXTENDS CapabilityBundles, TLAPS

-----------------------------------------------------------------------------
(* Maps of files. *)

(* A map over another: its own entries first.                              *)
LEMMA Overlay ==
  ASSUME NEW f, NEW g
  PROVE  /\ DOMAIN (f ++ g) = DOMAIN f \cup DOMAIN g
         /\ \A x \in DOMAIN f : (f ++ g)[x] = f[x]
         /\ \A x \in DOMAIN g : x \notin DOMAIN f => (f ++ g)[x] = g[x]
BY DEF ++

LEMMA OneFile ==
  ASSUME NEW name, NEW content
  PROVE  DOMAIN File(name, content) = {name} /\ File(name, content)[name] = content
BY DEF File

LEMMA NoFiles == DOMAIN <<>> = {}
OBVIOUS

(* Maps that agree on a set have the same part there.                      *)
LEMMA SamePart ==
  ASSUME NEW f, NEW g, NEW S, DOMAIN f \cap S = DOMAIN g \cap S,
         \A x \in DOMAIN f \cap S : f[x] = g[x]
  PROVE  Only(f, S) = Only(g, S)
BY DEF Only

LEMMA EmptyCatalog ==
  ASSUME NEW ops, NEW value
  PROVE  [key \in ops |-> value[key]] = <<>> <=> ops = {}
<1>1. ASSUME ops = {} PROVE [key \in ops |-> value[key]] = <<>>
  BY <1>1
<1>2. ASSUME [key \in ops |-> value[key]] = <<>> PROVE ops = {}
  <2>1. DOMAIN [key \in ops |-> value[key]] = ops
    OBVIOUS
  <2> QED  BY <1>2, <2>1, NoFiles
<1> QED  BY <1>1, <1>2

-----------------------------------------------------------------------------
(* Compile. *)

EvalNames == {"xs-eval.tool.json", "xs-eval.gbnf"}
CalcNames == {"xs-calc.tool.json", "xs-calc.gbnf", "xs-calc.contract.json"}
Always == PromptFiles \cup {"xs-request.gbnf"}
Descriptions == {"profile.json", "catalog.json", "surface-contract.json", "task-map.json"}

(* The names of the files of a surface.                                    *)
LEMMA SurfaceNames ==
  ASSUME NEW profile, NEW catalog
  PROVE  LET surface == SurfaceFiles(profile, catalog) IN
         /\ DOMAIN surface = (IF catalog = <<>> THEN {} ELSE EvalNames)
                             \cup (IF profile.calc THEN CalcNames ELSE {}) \cup Always
<1> DEFINE eval == EvalFiles(catalog)
           calc == CalcFiles(profile.calc, profile.revision)
           lanes == eval ++ calc
           request == RequestFiles(lanes, catalog, profile.calc)
<1>1. DOMAIN eval = IF catalog = <<>> THEN {} ELSE EvalNames
  <2>1. CASE catalog = <<>>
    BY <2>1, NoFiles DEF EvalFiles
  <2>2. CASE catalog # <<>>
    BY <2>2 DEF ++, File, EvalFiles, EvalNames
  <2> QED  BY <2>1, <2>2
<1>2. DOMAIN calc = IF profile.calc THEN CalcNames ELSE {}
  <2>1. CASE ~profile.calc
    BY <2>1, NoFiles DEF CalcFiles
  <2>2. CASE profile.calc
    BY <2>2 DEF ++, File, CalcFiles, CalcNames
  <2> QED  BY <2>1, <2>2
<1>3. DOMAIN request = Always
  BY DEF ++, File, RequestFiles, Always, PromptFiles
<1>4. SurfaceFiles(profile, catalog) = lanes ++ request
  BY DEF SurfaceFiles
<1>5. DOMAIN (lanes ++ request) = (DOMAIN eval \cup DOMAIN calc) \cup DOMAIN request
  <2> HIDE DEF eval, calc, request
  <2> QED  BY DEF ++
<1> HIDE DEF eval, calc, lanes, request
<1> QED  BY <1>1, <1>2, <1>3, <1>4, <1>5

(* Whatever compiles is made: its files agree with each other.             *)
LEMMA CompileMakes ==
  ASSUME NEW source, DOMAIN source = SourceFields, source.domain \in DOMAIN Families,
         source.revision \in Nat, source.calc \in BOOLEAN,
         NEW packc \in Checkouts, NEW tree \in Checkouts,
         CompileProfile(source, packc, tree) # Refused
  PROVE  Made(CompileProfile(source, packc, tree))
<1> DEFINE given == IF source.ops = Absent THEN FromRequirements(source) ELSE source
           catalog == [key \in given.ops |-> Reviewed[packc][key]]
           surface == SurfaceFiles(given, catalog)
           contract == SurfaceContract(given, catalog, surface)
           parts == CategoryBindings(surface)
           bindings == parts ++ [core |-> tree, hotset |-> catalog, contract |-> contract, artifact |-> Absent]
           evidence == [suite |-> Absent, mapping |-> Absent, results |-> <<>>]
           profile == given ++ [bindings |-> bindings, evidence |-> evidence]
           taskMap == Only(Families[given.domain], given.families)
           files == surface ++ File("catalog.json", catalog) ++ File("surface-contract.json", contract)
                    ++ File("task-map.json", taskMap) ++ File("profile.json", profile)
           manifest == [measurements |-> Measurements(surface, catalog), operations |-> catalog,
                        lineage |-> <<>>, provenance |-> Absent, artifactBytes |-> Absent]
           bundle == Bundle(<<[compiled |-> given, core |-> tree]>>, files, manifest)
<1>1. /\ CompileProfile(source, packc, tree) = bundle
      /\ Valid(given) /\ Measurements(surface, catalog).bytes <= given.bytes
      /\ CatalogReviewed(given.ops, packc, tree)
  BY DEF CompileProfile
<1>2. /\ DOMAIN given = SourceFields
      /\ given.domain \in DOMAIN Families /\ given.revision \in Nat /\ given.calc \in BOOLEAN
  <2>1. CASE source.ops = Absent
    <3>1. given = [source EXCEPT !.ops = Selected(source)]
      BY <2>1 DEF FromRequirements
    <3> QED  BY <3>1 DEF SourceFields
  <2>2. CASE source.ops # Absent
    BY <2>2
  <2> QED  BY <2>1, <2>2
<1> HIDE DEF given
<1>3. /\ given.families \subseteq DOMAIN Families[given.domain] /\ given.ops = Selected(given)
  BY <1>1 DEF Valid
<1>4. given.ops \subseteq DOMAIN Reviewed[packc]
  <2>1. \A f \in DOMAIN Families[given.domain] : Families[given.domain][f] \subseteq DOMAIN Reviewed[packc]
    BY <1>2, SourcesAssumption DEF FamiliesLoad
  <2> QED  BY <1>3, <2>1 DEF Selected
<1>5. catalog = <<>> <=> given.ops = {}
  BY EmptyCatalog
<1> DEFINE evalNames == IF given.ops = {} THEN {} ELSE EvalNames
           calcNames == IF given.calc THEN CalcNames ELSE {}
<1>6. DOMAIN surface = (evalNames \cup calcNames) \cup Always
  BY <1>5, SurfaceNames
<1>7. Descriptions \cap DOMAIN surface = {}
  BY <1>6 DEF Descriptions, EvalNames, CalcNames, Always, PromptFiles
<1> HIDE DEF surface, catalog
<1>8. /\ DOMAIN parts = {"tools", "grammars", "prompts"}
      /\ parts = [tools |-> Only(surface, ToolFiles), grammars |-> Only(surface, GrammarFiles),
                  prompts |-> Only(surface, PromptFiles)]
  BY DEF CategoryBindings
<1>9. /\ DOMAIN bindings = BindingFields
      /\ \A f \in {"tools", "grammars", "prompts"} : bindings[f] = parts[f]
      /\ bindings.core = tree /\ bindings.hotset = catalog
      /\ bindings.contract = contract /\ bindings.artifact = Absent
  <2> DEFINE rest == [core |-> tree, hotset |-> catalog, contract |-> contract, artifact |-> Absent]
  <2>1. /\ DOMAIN rest = {"core", "hotset", "contract", "artifact"}
        /\ rest.core = tree /\ rest.hotset = catalog /\ rest.contract = contract /\ rest.artifact = Absent
    OBVIOUS
  <2>2. bindings = parts ++ rest
    OBVIOUS
  <2> HIDE DEF rest, parts, contract, bindings
  <2> QED  BY <1>8, <2>1, <2>2 DEF ++, BindingFields
<1> HIDE DEF bindings, contract, evidence
<1>10. /\ DOMAIN profile = SourceFields \cup {"bindings", "evidence"}
       /\ \A f \in SourceFields : profile[f] = given[f]
       /\ profile.bindings = bindings /\ profile.evidence = evidence
  <2> DEFINE more == [bindings |-> bindings, evidence |-> evidence]
  <2>1. DOMAIN more = {"bindings", "evidence"} /\ more.bindings = bindings /\ more.evidence = evidence
    OBVIOUS
  <2>2. profile = given ++ more
    OBVIOUS
  <2> HIDE DEF more, profile
  <2> QED  BY <1>2, <2>1, <2>2 DEF ++, SourceFields
<1> HIDE DEF profile, taskMap
<1>11. /\ DOMAIN files = DOMAIN surface \cup Descriptions
       /\ \A n \in DOMAIN surface : files[n] = surface[n]
       /\ files["catalog.json"] = catalog /\ files["surface-contract.json"] = contract
       /\ files["task-map.json"] = taskMap /\ files["profile.json"] = profile
  <2> DEFINE f1 == surface ++ File("catalog.json", catalog)
             f2 == f1 ++ File("surface-contract.json", contract)
             f3 == f2 ++ File("task-map.json", taskMap)
  <2>1. /\ DOMAIN f1 = DOMAIN surface \cup {"catalog.json"} /\ f1["catalog.json"] = catalog
        /\ \A n \in DOMAIN surface : f1[n] = surface[n]
    BY <1>7 DEF ++, File, Descriptions
  <2> HIDE DEF f1
  <2>2. /\ DOMAIN f2 = DOMAIN f1 \cup {"surface-contract.json"} /\ f2["surface-contract.json"] = contract
        /\ \A n \in DOMAIN f1 : f2[n] = f1[n]
    BY <1>7, <2>1 DEF ++, File, Descriptions
  <2> HIDE DEF f2
  <2>3. /\ DOMAIN f3 = DOMAIN f2 \cup {"task-map.json"} /\ f3["task-map.json"] = taskMap
        /\ \A n \in DOMAIN f2 : f3[n] = f2[n]
    BY <1>7, <2>1, <2>2 DEF ++, File, Descriptions
  <2> HIDE DEF f3
  <2>4. files = f3 ++ File("profile.json", profile)
    BY DEF f1, f2, f3
  <2>5. /\ DOMAIN files = DOMAIN f3 \cup {"profile.json"} /\ files["profile.json"] = profile
        /\ \A n \in DOMAIN f3 : files[n] = f3[n]
    BY <1>7, <2>1, <2>2, <2>3, <2>4 DEF ++, File, Descriptions
  <2> HIDE DEF files
  <2> QED  BY <2>1, <2>2, <2>3, <2>5 DEF Descriptions
<1> HIDE DEF files, manifest
<1>12. bundle.files = files /\ bundle.manifest = manifest /\ bundle.sha = <<[compiled |-> given, core |-> tree]>>
  BY DEF Bundle
<1> HIDE DEF bundle
<1>13. ProfileOf(bundle) = profile /\ CatalogOf(bundle) = catalog
  BY <1>11, <1>12 DEF ProfileOf, CatalogOf
<1>14. /\ DOMAIN manifest = {"measurements", "operations", "lineage", "provenance", "artifactBytes"}
       /\ manifest.measurements = Measurements(surface, catalog) /\ manifest.operations = catalog
       /\ manifest.lineage = <<>> /\ manifest.provenance = Absent
  BY DEF manifest
<1>15. Len(bundle.sha) = 1 /\ DOMAIN bundle.sha = {1} /\ Step(bundle) = [compiled |-> given, core |-> tree]
  BY <1>12 DEF Step
<1>16. evidence.results = <<>> /\ DOMAIN evidence = {"suite", "mapping", "results"} /\ Len(evidence.results) = 0
  BY DEF evidence
<1>17. Complete(bundle)
  BY <1>9, <1>10, <1>11, <1>12, <1>13, <1>14, <1>15, <1>16 DEF Complete, EvidenceOf, Descriptions
<1>18. \A S \in SUBSET SurfaceAssets : DOMAIN files \cap S = DOMAIN surface \cap S /\ Only(files, S) = Only(surface, S)
  <2>1. SurfaceAssets \cap Descriptions = {}
    BY DEF SurfaceAssets, ToolFiles, GrammarFiles, PromptFiles, Descriptions
  <2> SUFFICES ASSUME NEW S \in SUBSET SurfaceAssets
               PROVE  DOMAIN files \cap S = DOMAIN surface \cap S /\ Only(files, S) = Only(surface, S)
    OBVIOUS
  <2>2. DOMAIN files \cap S = DOMAIN surface \cap S
    BY <1>11, <2>1
  <2>3. \A x \in DOMAIN files \cap S : files[x] = surface[x]
    BY <1>11, <2>2
  <2> QED  BY <2>2, <2>3, SamePart
<1>19. InternallyConsistent(bundle)
  <2>1. DOMAIN taskMap = given.families /\ \A f \in given.families : taskMap[f] = Families[given.domain][f]
    BY <1>3 DEF taskMap, Only
  <2>2. given.ops = UNION {taskMap[f] : f \in DOMAIN taskMap}
    BY <1>3, <2>1 DEF Selected
  <2>3. DOMAIN catalog = given.ops
    BY DEF catalog
  <2>4. EvalNames \cap DOMAIN files = evalNames
    BY <1>6, <1>11 DEF EvalNames, CalcNames, Always, PromptFiles, Descriptions
  <2>5. CalcNames \cap DOMAIN files = calcNames
    BY <1>6, <1>11 DEF EvalNames, CalcNames, Always, PromptFiles, Descriptions
  <2>6. Always \subseteq DOMAIN files /\ "runtime.wasm" \notin DOMAIN files
    BY <1>6, <1>11 DEF EvalNames, CalcNames, Always, PromptFiles, Descriptions
  <2>7. CategoryBindings(files) = CategoryBindings(surface)
    BY <1>18 DEF CategoryBindings, SurfaceAssets
  <2>8. Only(bindings, {"tools", "grammars", "prompts"}) = CategoryBindings(files)
    <3>1. \A f \in {"tools", "grammars", "prompts"} : bindings[f] = parts[f]
      BY <1>9
    <3>2. Only(bindings, {"tools", "grammars", "prompts"}) = [f \in {"tools", "grammars", "prompts"} |-> parts[f]]
      BY <1>9 DEF Only, BindingFields
    <3>3. parts = [f \in {"tools", "grammars", "prompts"} |-> parts[f]]
      BY <1>8
    <3> QED  BY <2>7, <3>2, <3>3
  <2>9. Measurements(files, catalog) = Measurements(surface, catalog)
    BY <1>18 DEF Measurements, SurfaceAssets
  <2>10. /\ DOMAIN files["task-map.json"] = profile.families
         /\ profile.ops = UNION {files["task-map.json"][f] : f \in DOMAIN files["task-map.json"]}
         /\ DOMAIN catalog = profile.ops
    BY <1>10, <1>11, <2>1, <2>2, <2>3 DEF SourceFields
  <2>11. /\ EvalNames \cap DOMAIN files = IF profile.ops = {} THEN {} ELSE EvalNames
         /\ CalcNames \cap DOMAIN files = IF profile.calc THEN CalcNames ELSE {}
    BY <1>10, <2>4, <2>5 DEF SourceFields
  <2>12. /\ profile.bindings.hotset = catalog
         /\ Only(profile.bindings, {"tools", "grammars", "prompts"}) = CategoryBindings(files)
         /\ profile.bindings.artifact = Absent
    BY <1>9, <1>10, <2>8
  <2>13. /\ manifest.measurements = Measurements(files, catalog)
         /\ manifest.measurements.bytes <= profile.bytes
    BY <1>1, <1>10, <1>14, <2>9 DEF SourceFields
  <2> QED
    BY <1>12, <1>13, <1>14, <2>6, <2>10, <2>11, <2>12, <2>13
    DEF InternallyConsistent, EvalNames, CalcNames, Always
<1>20. ContractVerifies(bundle)
  <2>1. /\ contract.profile = <<given.id, given.revision, given.domain>>
        /\ contract.hotset = catalog /\ contract.assets = Only(surface, SurfaceAssets)
    BY DEF contract, SurfaceContract
  <2>2. contract.assets = Only(files, SurfaceAssets)
    BY <1>18, <2>1
  <2>3. contract.profile = <<profile.id, profile.revision, profile.domain>>
    BY <1>10, <2>1 DEF SourceFields
  <2> QED  BY <1>9, <1>10, <1>11, <1>12, <1>13, <2>1, <2>2, <2>3 DEF ContractVerifies
<1>21. Identified(bundle)
  <2>1. \A key \in given.ops : catalog[key] \in Definitions /\ catalog[key] = Reviewed[tree][key]
    BY <1>1, <1>4 DEF catalog, Definitions, CatalogReviewed
  <2>2. given.ops \subseteq Operations
    BY <1>4 DEF Operations
  <2>3. "compiled" \in DOMAIN Step(bundle) /\ Step(bundle).compiled = given
    BY <1>15
  <2> QED  BY <1>2, <1>9, <1>10, <1>13, <2>1, <2>2, <2>3 DEF Identified, SourceFields
<1>22. Serviceable(bundle)
  BY <1>9, <1>10, <1>13 DEF Serviceable, RuntimeOf
<1>23. Attested(bundle)
  <2>1. "evidence" \notin DOMAIN Step(bundle)
    BY <1>15
  <2>2. EvidenceOf(bundle) = <<>> /\ bundle.manifest.lineage = <<>>
    BY <1>10, <1>12, <1>13, <1>14, <1>16 DEF EvidenceOf
  <2> QED  BY <2>1, <2>2 DEF Attested
<1> QED  BY <1>1, <1>17, <1>19, <1>20, <1>21, <1>22, <1>23 DEF Made, Verifies

-----------------------------------------------------------------------------
(* Bind and attach issue a bundle again: a new revision and a new contract *)
(* over the same surface, and at most the files of a runtime beside it.    *)

RuntimeNames == {"runtime.wasm", "benchmark-mapping.jsonl", "conformance.json", "build-provenance.json"}

LEMMA Reissued ==
  ASSUME NEW old, Complete(old), Verifies(old), NEW new, NEW files,
         DOMAIN old.files \subseteq DOMAIN new.files,
         DOMAIN new.files \subseteq DOMAIN old.files \cup RuntimeNames,
         \A n \in DOMAIN old.files \ (RuntimeNames \cup {"profile.json", "surface-contract.json"}) :
             new.files[n] = old.files[n],
         \A f \in SourceFields \ {"revision"} : ProfileOf(new)[f] = ProfileOf(old)[f],
         DOMAIN ProfileOf(new).bindings = BindingFields,
         \A f \in BindingFields \ {"artifact", "contract"} : ProfileOf(new).bindings[f] = ProfileOf(old).bindings[f],
         new.files["surface-contract.json"] = ProfileOf(new).bindings.contract,
         ProfileOf(new).bindings.contract =
             SurfaceContract([ProfileOf(old) EXCEPT !.revision = ProfileOf(new).revision], CatalogOf(old), files),
         Only(files, SurfaceAssets) = Only(old.files, SurfaceAssets),
         new.manifest.operations = old.manifest.operations,
         new.manifest.measurements = old.manifest.measurements,
         IF RuntimeOf(new) = Absent THEN "runtime.wasm" \notin DOMAIN new.files
         ELSE "runtime.wasm" \in DOMAIN new.files /\ new.files["runtime.wasm"] = RuntimeOf(new)
  PROVE  Verifies(new)
<1> DEFINE P == ProfileOf(old)
           Q == ProfileOf(new)
           contract == Q.bindings.contract
           kept == DOMAIN old.files \ (RuntimeNames \cup {"profile.json", "surface-contract.json"})
<1>1. /\ "catalog.json" \in kept /\ "task-map.json" \in kept
      /\ CatalogOf(new) = CatalogOf(old) /\ new.files["task-map.json"] = old.files["task-map.json"]
  BY DEF Complete, CatalogOf, RuntimeNames
<1>2. \A S \in SUBSET (SurfaceAssets \cup EvalNames \cup CalcNames \cup Always) :
         DOMAIN new.files \cap S = DOMAIN old.files \cap S /\ Only(new.files, S) = Only(old.files, S)
  <2>1. (SurfaceAssets \cup EvalNames \cup CalcNames \cup Always)
          \cap (RuntimeNames \cup {"profile.json", "surface-contract.json"}) = {}
    BY DEF SurfaceAssets, ToolFiles, GrammarFiles, PromptFiles, RuntimeNames, EvalNames, CalcNames, Always
  <2> SUFFICES ASSUME NEW S \in SUBSET (SurfaceAssets \cup EvalNames \cup CalcNames \cup Always)
               PROVE  DOMAIN new.files \cap S = DOMAIN old.files \cap S /\ Only(new.files, S) = Only(old.files, S)
    OBVIOUS
  <2>2. DOMAIN new.files \cap S = DOMAIN old.files \cap S
    BY <2>1
  <2>3. \A x \in DOMAIN new.files \cap S : new.files[x] = old.files[x]
    BY <2>1, <2>2
  <2> QED  BY <2>2, <2>3, SamePart
<1>3. InternallyConsistent(new)
  <2>1. InternallyConsistent(old)
    BY DEF Verifies
  <2>2. /\ Q.families = P.families /\ Q.ops = P.ops /\ Q.calc = P.calc /\ Q.bytes = P.bytes
        /\ Q.bindings.hotset = P.bindings.hotset
    BY DEF SourceFields, BindingFields
  <2>3. /\ EvalNames \cap DOMAIN new.files = EvalNames \cap DOMAIN old.files
        /\ CalcNames \cap DOMAIN new.files = CalcNames \cap DOMAIN old.files
        /\ Always \subseteq DOMAIN old.files => Always \subseteq DOMAIN new.files
    BY <1>2
  <2>4. CategoryBindings(new.files) = CategoryBindings(old.files)
    BY <1>2 DEF CategoryBindings, SurfaceAssets
  <2>5. Only(Q.bindings, {"tools", "grammars", "prompts"}) = Only(P.bindings, {"tools", "grammars", "prompts"})
    <3>1. DOMAIN P.bindings = BindingFields
      BY DEF Complete
    <3>2. \A f \in {"tools", "grammars", "prompts"} : Q.bindings[f] = P.bindings[f]
      BY DEF BindingFields
    <3> HIDE DEF P, Q
    <3> QED  BY <3>1, <3>2, SamePart DEF P, Q
  <2>6. Measurements(new.files, CatalogOf(new)) = Measurements(old.files, CatalogOf(old))
    BY <1>1, <1>2 DEF Measurements, SurfaceAssets
  <2> HIDE DEF P, Q
  <2> QED
    BY <1>1, <2>1, <2>2, <2>3, <2>4, <2>5, <2>6
    DEF InternallyConsistent, EvalNames, CalcNames, Always, P, Q, RuntimeOf
<1>4. ContractVerifies(new)
  <2>1. ContractVerifies(old) /\ DOMAIN P = SourceFields \cup {"bindings", "evidence"}
    BY DEF Verifies, Complete
  <2> DEFINE R == [P EXCEPT !.revision = Q.revision]
  <2>2. R.id = P.id /\ R.domain = P.domain /\ R.revision = Q.revision
    BY <2>1 DEF SourceFields
  <2>3. Q.id = P.id /\ Q.domain = P.domain /\ Q.bindings.hotset = P.bindings.hotset
    BY DEF SourceFields, BindingFields
  <2>4. contract = SurfaceContract(R, CatalogOf(old), files)
    OBVIOUS
  <2>5. contract.profile = <<Q.id, Q.revision, Q.domain>>
    <3> HIDE DEF R
    <3> QED  BY <2>2, <2>3, <2>4 DEF SurfaceContract
  <2>6. contract.hotset = CatalogOf(old) /\ contract.assets = Only(files, SurfaceAssets)
    <3> HIDE DEF R
    <3> QED  BY <2>4 DEF SurfaceContract
  <2>7. CatalogOf(old) = P.bindings.hotset
    BY <2>1 DEF ContractVerifies
  <2>8. Only(new.files, SurfaceAssets) = Only(old.files, SurfaceAssets)
    BY <1>2
  <2> QED  BY <1>1, <2>3, <2>5, <2>6, <2>7, <2>8 DEF ContractVerifies
<1> QED  BY <1>3, <1>4 DEF Verifies

(* A runtime bound to a made bundle makes a bundle, if the runtime answers *)
(* rows of every operation and its build record describes it.              *)
LEMMA BindMakes ==
  ASSUME NEW bundle, Made(bundle), NEW artifact, artifact # Absent, NEW corpus, NEW core,
         NEW revision \in Nat, NEW provenance,
         Covered(corpus) = ProfileOf(bundle).ops, \A row \in corpus : Answers(artifact, row),
         provenance # Absent => /\ provenance.source = ProfileOf(bundle).bindings.core
                                /\ ProfileOf(bundle).calc => artifact.calc
  PROVE  Made(BoundBundle(bundle, artifact, corpus, core, revision, provenance))
<1> DEFINE old == ProfileOf(bundle)
           extra == File("runtime.wasm", artifact) ++ File("benchmark-mapping.jsonl", corpus)
                    ++ File("conformance.json", [artifact |-> artifact, corpus |-> corpus])
                    ++ (IF provenance = Absent THEN <<>> ELSE File("build-provenance.json", provenance))
           files == extra ++ bundle.files
           contract == SurfaceContract([old EXCEPT !.revision = revision], CatalogOf(bundle), files)
           profile == [old EXCEPT !.revision = revision, !.bindings.artifact = artifact, !.bindings.contract = contract,
                                  !.evidence.suite = [artifact |-> artifact, corpus |-> corpus], !.evidence.mapping = corpus]
           all == File("surface-contract.json", contract) ++ File("profile.json", profile) ++ files
           step == [bound |-> artifact, corpus |-> corpus, core |-> core, revision |-> revision,
                    provenance |-> provenance # Absent]
           manifest == [bundle.manifest EXCEPT !.provenance = provenance, !.artifactBytes = artifact.bytes]
           new == Bundle(Append(bundle.sha, step), all, manifest)
<1>1. BoundBundle(bundle, artifact, corpus, core, revision, provenance) = new
  BY DEF BoundBundle, BoundFiles
<1>2. /\ DOMAIN old = SourceFields \cup {"bindings", "evidence"}
      /\ DOMAIN old.bindings = BindingFields
      /\ DOMAIN old.evidence = {"suite", "mapping", "results"}
      /\ DOMAIN bundle.manifest = {"measurements", "operations", "lineage", "provenance", "artifactBytes"}
      /\ Descriptions \subseteq DOMAIN bundle.files
  BY DEF Made, Complete, Descriptions
<1>3. /\ "runtime.wasm" \in DOMAIN extra /\ extra["runtime.wasm"] = artifact
      /\ DOMAIN extra \subseteq RuntimeNames
  BY NoFiles DEF ++, File, RuntimeNames
<1> HIDE DEF extra
<1>4. /\ DOMAIN files = DOMAIN extra \cup DOMAIN bundle.files
      /\ files["runtime.wasm"] = artifact
      /\ \A n \in DOMAIN bundle.files \ RuntimeNames : files[n] = bundle.files[n]
  BY <1>3 DEF ++
<1> HIDE DEF files, contract, old
<1>5. /\ DOMAIN profile = SourceFields \cup {"bindings", "evidence"}
      /\ profile.revision = revision
      /\ \A f \in SourceFields \ {"revision"} : profile[f] = old[f]
      /\ DOMAIN profile.bindings = BindingFields
      /\ profile.bindings.artifact = artifact /\ profile.bindings.contract = contract
      /\ \A f \in BindingFields \ {"artifact", "contract"} : profile.bindings[f] = old.bindings[f]
      /\ DOMAIN profile.evidence = {"suite", "mapping", "results"}
      /\ profile.evidence.results = old.evidence.results /\ profile.evidence.mapping = corpus
  BY <1>2 DEF SourceFields, BindingFields
<1> HIDE DEF profile
<1>6. /\ DOMAIN all = DOMAIN files \cup {"surface-contract.json", "profile.json"}
      /\ all["surface-contract.json"] = contract /\ all["profile.json"] = profile
      /\ \A n \in DOMAIN files \ {"surface-contract.json", "profile.json"} : all[n] = files[n]
  BY DEF ++, File
<1> HIDE DEF all
<1>7. /\ DOMAIN manifest = {"measurements", "operations", "lineage", "provenance", "artifactBytes"}
      /\ manifest.provenance = provenance /\ manifest.lineage = bundle.manifest.lineage
      /\ manifest.operations = bundle.manifest.operations
      /\ manifest.measurements = bundle.manifest.measurements
  BY <1>2
<1>8. /\ Len(bundle.sha) \in Nat /\ DOMAIN bundle.sha = 1 .. Len(bundle.sha)
      /\ Len(Append(bundle.sha, step)) = Len(bundle.sha) + 1
      /\ DOMAIN Append(bundle.sha, step) = 1 .. Len(bundle.sha) + 1
      /\ Append(bundle.sha, step)[Len(bundle.sha) + 1] = step
  <2> HIDE DEF step
  <2> QED  BY DEF Made, Complete
<1> HIDE DEF manifest, step
<1>9. new.files = all /\ new.manifest = manifest /\ new.sha = Append(bundle.sha, step)
  BY DEF Bundle
<1> HIDE DEF new
<1>10. ProfileOf(new) = profile /\ CatalogOf(new) = CatalogOf(bundle) /\ RuntimeOf(new) = artifact
  BY <1>2, <1>4, <1>5, <1>6, <1>9 DEF ProfileOf, CatalogOf, RuntimeOf, Descriptions, RuntimeNames
<1>11. /\ Step(new) = step /\ "compiled" \notin DOMAIN step /\ "evidence" \notin DOMAIN step
       /\ step.revision = revision
  BY <1>8, <1>9 DEF Step, step
<1>12. Complete(new)
  <2>1. Descriptions \subseteq DOMAIN all
    BY <1>2, <1>4, <1>6
  <2>2. EvidenceOf(new) = EvidenceOf(bundle)
    BY <1>5, <1>10 DEF EvidenceOf, old
  <2> QED  BY <1>5, <1>7, <1>8, <1>9, <1>10, <2>1, <2>2 DEF Complete, Made, Descriptions
<1>13. Verifies(new)
  <2>1. /\ DOMAIN bundle.files \subseteq DOMAIN new.files
        /\ DOMAIN new.files \subseteq DOMAIN bundle.files \cup RuntimeNames
        /\ \A n \in DOMAIN bundle.files \ (RuntimeNames \cup {"profile.json", "surface-contract.json"}) :
              new.files[n] = bundle.files[n]
    BY <1>2, <1>3, <1>4, <1>6, <1>9 DEF Descriptions
  <2>2. /\ \A f \in SourceFields \ {"revision"} : ProfileOf(new)[f] = ProfileOf(bundle)[f]
        /\ DOMAIN ProfileOf(new).bindings = BindingFields
        /\ \A f \in BindingFields \ {"artifact", "contract"} :
              ProfileOf(new).bindings[f] = ProfileOf(bundle).bindings[f]
        /\ ProfileOf(new).revision = revision
    BY <1>5, <1>10 DEF old
  <2>3. /\ new.files["surface-contract.json"] = ProfileOf(new).bindings.contract
        /\ ProfileOf(new).bindings.contract
             = SurfaceContract([ProfileOf(bundle) EXCEPT !.revision = ProfileOf(new).revision], CatalogOf(bundle), files)
    BY <1>5, <1>6, <1>9, <1>10, <2>2 DEF contract, old
  <2>4. Only(files, SurfaceAssets) = Only(bundle.files, SurfaceAssets)
    <3>1. SurfaceAssets \cap RuntimeNames = {}
      BY DEF SurfaceAssets, ToolFiles, GrammarFiles, PromptFiles, RuntimeNames
    <3> QED  BY <1>3, <1>4, <3>1, SamePart
  <2>5. /\ new.manifest.operations = bundle.manifest.operations
        /\ new.manifest.measurements = bundle.manifest.measurements
    BY <1>7, <1>9
  <2>6. /\ RuntimeOf(new) # Absent
        /\ "runtime.wasm" \in DOMAIN new.files /\ new.files["runtime.wasm"] = RuntimeOf(new)
    BY <1>3, <1>4, <1>6, <1>9, <1>10
  <2>7. Complete(bundle) /\ Verifies(bundle)
    BY DEF Made
  <2> QED  BY <2>1, <2>2, <2>3, <2>4, <2>5, <2>6, <2>7, Reissued
<1>14. Identified(new)
  BY <1>5, <1>10, <1>11 DEF Identified, Made, SourceFields, BindingFields, old
<1>15. Serviceable(new)
  BY <1>5, <1>7, <1>9, <1>10 DEF Serviceable, SourceFields, BindingFields, old
<1>16. Attested(new)
  <2>1. EvidenceOf(new) = EvidenceOf(bundle)
    BY <1>5, <1>10 DEF EvidenceOf, old
  <2> QED  BY <1>7, <1>9, <1>11, <2>1 DEF Attested, Made
<1> QED  BY <1>1, <1>12, <1>13, <1>14, <1>15, <1>16 DEF Made

(* Profiles that differ in revision, contract and evidence serve the same. *)
LEMMA SameService ==
  ASSUME NEW P, NEW Q, DOMAIN P = SourceFields \cup {"bindings", "evidence"}, DOMAIN Q = DOMAIN P,
         \A f \in SourceFields \ {"revision"} : Q[f] = P[f],
         DOMAIN P.bindings = BindingFields, DOMAIN Q.bindings = BindingFields,
         \A f \in BindingFields \ {"contract"} : Q.bindings[f] = P.bindings[f]
  PROVE  ServingContract(Q) = ServingContract(P)
<1> DEFINE served(R) == [f \in BindingFields |-> IF f = "contract" THEN Absent ELSE R.bindings[f]]
           contract(R) == [f \in SourceFields \cup {"bindings", "evidence"} |->
                              IF f = "revision" THEN 0 ELSE IF f = "bindings" THEN served(R)
                              ELSE IF f = "evidence" THEN Absent ELSE R[f]]
<1>1. ASSUME NEW R, DOMAIN R = SourceFields \cup {"bindings", "evidence"}, DOMAIN R.bindings = BindingFields
      PROVE  ServingContract(R) = contract(R)
  <2> DEFINE first == [R EXCEPT !.revision = 0]
             bindings == [R.bindings EXCEPT !.contract = Absent]
             second == [first EXCEPT !.bindings = bindings]
             third == [second EXCEPT !.evidence = Absent]
  <2>1. ServingContract(R) = third
    BY <1>1 DEF ServingContract, SourceFields
  <2>2. bindings = served(R)
    BY <1>1 DEF BindingFields
  <2>3. first = [f \in DOMAIN R |-> IF f = "revision" THEN 0 ELSE R[f]]
    BY <1>1
  <2> HIDE DEF bindings, served
  <2>4. third = contract(R)
    BY <1>1, <2>2, <2>3 DEF SourceFields
  <2> QED  BY <2>1, <2>4
<1>2. served(Q) = served(P)
  OBVIOUS
<1> HIDE DEF served
<1>3. contract(Q) = contract(P)
  BY <1>2
<1> HIDE DEF contract
<1> QED  BY <1>1, <1>3

(* Evidence that verifies leaves a made bundle when it is attached.        *)
LEMMA AttachMakes ==
  ASSUME NEW bundle, Made(bundle), NEW results, ResultsVerify(results, bundle), NEW revision \in Nat
  PROVE  LET index == EvidenceIndex(results, bundle) IN
         Made(Bundle(Append(bundle.sha, [evidence |-> index, revision |-> revision]),
                     AttachedFiles(bundle, index, revision),
                     [bundle.manifest EXCEPT !.lineage = <<SourceIdentity(bundle)>>]))
<1> DEFINE old == ProfileOf(bundle)
           source == SourceIdentity(bundle)
           index == EvidenceIndex(results, bundle)
           contract == SurfaceContract([old EXCEPT !.revision = revision], CatalogOf(bundle), bundle.files)
           profile == [old EXCEPT !.revision = revision, !.bindings.contract = contract,
                                  !.evidence.results = Append(@, index)]
           all == File("surface-contract.json", contract) ++ File("profile.json", profile) ++ bundle.files
           step == [evidence |-> index, revision |-> revision]
           manifest == [bundle.manifest EXCEPT !.lineage = <<source>>]
           new == Bundle(Append(bundle.sha, step), all, manifest)
<1>1. AttachedFiles(bundle, index, revision) = all
  BY DEF AttachedFiles
<1>2. /\ DOMAIN old = SourceFields \cup {"bindings", "evidence"}
      /\ DOMAIN old.bindings = BindingFields
      /\ DOMAIN old.evidence = {"suite", "mapping", "results"}
      /\ DOMAIN bundle.manifest = {"measurements", "operations", "lineage", "provenance", "artifactBytes"}
      /\ Descriptions \subseteq DOMAIN bundle.files
  BY DEF Made, Complete, Descriptions
<1>3. /\ index.source = source /\ index.artifact = old.bindings.artifact
      /\ source.contract = ServingContract(old)
  BY DEF EvidenceIndex, ResultsVerify, LineageHolds
<1> HIDE DEF index, source, contract, old
<1>4. /\ DOMAIN profile = SourceFields \cup {"bindings", "evidence"}
      /\ profile.revision = revision
      /\ \A f \in SourceFields \ {"revision"} : profile[f] = old[f]
      /\ DOMAIN profile.bindings = BindingFields
      /\ profile.bindings.contract = contract
      /\ \A f \in BindingFields \ {"contract"} : profile.bindings[f] = old.bindings[f]
      /\ DOMAIN profile.evidence = {"suite", "mapping", "results"}
      /\ profile.evidence.results = Append(old.evidence.results, index)
      /\ profile.evidence.mapping = old.evidence.mapping
  BY <1>2 DEF SourceFields, BindingFields
<1>5. ServingContract(profile) = ServingContract(old)
  <2> HIDE DEF profile
  <2> QED  BY <1>2, <1>4, SameService
<1> HIDE DEF profile
<1>6. /\ DOMAIN all = DOMAIN bundle.files
      /\ all["surface-contract.json"] = contract /\ all["profile.json"] = profile
      /\ \A n \in DOMAIN bundle.files \ {"surface-contract.json", "profile.json"} : all[n] = bundle.files[n]
  BY <1>2 DEF ++, File, Descriptions
<1> HIDE DEF all
<1>7. /\ DOMAIN manifest = {"measurements", "operations", "lineage", "provenance", "artifactBytes"}
      /\ manifest.lineage = <<source>> /\ manifest.provenance = bundle.manifest.provenance
      /\ manifest.operations = bundle.manifest.operations
      /\ manifest.measurements = bundle.manifest.measurements
  BY <1>2
<1>8. /\ Len(bundle.sha) \in Nat /\ DOMAIN bundle.sha = 1 .. Len(bundle.sha)
      /\ Len(Append(bundle.sha, step)) = Len(bundle.sha) + 1
      /\ DOMAIN Append(bundle.sha, step) = 1 .. Len(bundle.sha) + 1
      /\ Append(bundle.sha, step)[Len(bundle.sha) + 1] = step
  <2> HIDE DEF step
  <2> QED  BY DEF Made, Complete
<1>9. LET old_results == old.evidence.results
          new_results == Append(old_results, index)
      IN /\ Len(old_results) \in Nat /\ DOMAIN old_results = 1 .. Len(old_results)
         /\ Len(new_results) = Len(old_results) + 1
         /\ DOMAIN new_results = 1 .. Len(old_results) + 1
         /\ \A i \in DOMAIN old_results : new_results[i] = old_results[i]
         /\ new_results[Len(old_results) + 1] = index
  <2>1. Len(old.evidence.results) \in Nat /\ DOMAIN old.evidence.results = 1 .. Len(old.evidence.results)
    BY DEF Made, Complete, EvidenceOf, old
  <2> QED  BY <2>1
<1> HIDE DEF manifest, step
<1>10. new.files = all /\ new.manifest = manifest /\ new.sha = Append(bundle.sha, step)
  BY DEF Bundle
<1> HIDE DEF new
<1>11. ProfileOf(new) = profile /\ CatalogOf(new) = CatalogOf(bundle) /\ RuntimeOf(new) = RuntimeOf(bundle)
  BY <1>2, <1>4, <1>6, <1>10 DEF ProfileOf, CatalogOf, RuntimeOf, Descriptions, BindingFields, old
<1>12. /\ Step(new) = step /\ "compiled" \notin DOMAIN step /\ step.revision = revision
  BY <1>8, <1>10 DEF Step, step
<1>13. EvidenceOf(new) = Append(EvidenceOf(bundle), index)
  BY <1>4, <1>11 DEF EvidenceOf, old
<1>14. Complete(new)
  BY <1>2, <1>4, <1>6, <1>7, <1>8, <1>9, <1>10, <1>11 DEF Complete, EvidenceOf, Descriptions
<1>15. Verifies(new)
  <2>1. /\ DOMAIN bundle.files \subseteq DOMAIN new.files
        /\ DOMAIN new.files \subseteq DOMAIN bundle.files \cup RuntimeNames
        /\ \A n \in DOMAIN bundle.files \ (RuntimeNames \cup {"profile.json", "surface-contract.json"}) :
              new.files[n] = bundle.files[n]
    BY <1>6, <1>10
  <2>2. /\ \A f \in SourceFields \ {"revision"} : ProfileOf(new)[f] = ProfileOf(bundle)[f]
        /\ DOMAIN ProfileOf(new).bindings = BindingFields
        /\ \A f \in BindingFields \ {"artifact", "contract"} :
              ProfileOf(new).bindings[f] = ProfileOf(bundle).bindings[f]
        /\ ProfileOf(new).revision = revision
    BY <1>4, <1>11 DEF old
  <2>3. /\ new.files["surface-contract.json"] = ProfileOf(new).bindings.contract
        /\ ProfileOf(new).bindings.contract
             = SurfaceContract([ProfileOf(bundle) EXCEPT !.revision = ProfileOf(new).revision], CatalogOf(bundle),
                               bundle.files)
    BY <1>4, <1>6, <1>10, <1>11, <2>2 DEF contract, old
  <2>4. /\ new.manifest.operations = bundle.manifest.operations
        /\ new.manifest.measurements = bundle.manifest.measurements
    BY <1>7, <1>10
  <2>5. IF RuntimeOf(new) = Absent THEN "runtime.wasm" \notin DOMAIN new.files
        ELSE "runtime.wasm" \in DOMAIN new.files /\ new.files["runtime.wasm"] = RuntimeOf(new)
    BY <1>6, <1>10, <1>11 DEF Made, Verifies, InternallyConsistent, RuntimeOf
  <2>6. Complete(bundle) /\ Verifies(bundle)
    BY DEF Made
  <2> QED  BY <2>1, <2>2, <2>3, <2>4, <2>5, <2>6, Reissued
<1>16. Identified(new)
  BY <1>4, <1>11, <1>12 DEF Identified, Made, SourceFields, BindingFields, old
<1>17. Serviceable(new)
  BY <1>4, <1>7, <1>10, <1>11 DEF Serviceable, Made, SourceFields, BindingFields, old
<1>18. Attested(new)
  <2> DEFINE before == EvidenceOf(bundle)
             after == EvidenceOf(new)
             lineage == bundle.manifest.lineage
  <2>1. new.manifest.lineage = <<source>> /\ <<source>> # <<>> /\ <<source>>[1] = source
    BY <1>7, <1>10
  <2>2. source.contract = ServingContract(ProfileOf(new))
    BY <1>3, <1>5, <1>11
  <2>3. index.source = source /\ index.artifact = source.contract.bindings.artifact
    <3>1. ServingContract(old).bindings.artifact = old.bindings.artifact
      BY <1>2 DEF ServingContract, SourceFields, BindingFields
    <3> QED  BY <1>3, <3>1
  <2>4. \A i \in DOMAIN before : before[i].source = source /\ before[i].artifact = source.contract.bindings.artifact
    <3>1. CASE lineage # <<>>
      BY <3>1 DEF source, SourceIdentity, Made, Attested
    <3>2. CASE lineage = <<>>
      BY <3>2, NoFiles DEF Made, Attested
    <3> QED  BY <3>1, <3>2
  <2>5. /\ DOMAIN before = 1 .. Len(before) /\ Len(before) \in Nat
        /\ DOMAIN after = 1 .. Len(before) + 1
        /\ \A i \in DOMAIN before : after[i] = before[i]
        /\ after[Len(before) + 1] = index
    BY <1>9, <1>13 DEF EvidenceOf, old
  <2> HIDE DEF before, after
  <2>6. \A i \in DOMAIN after : after[i].source = source /\ after[i].artifact = source.contract.bindings.artifact
    BY <2>3, <2>4, <2>5
  <2> QED  BY <2>1, <2>2, <2>6 DEF Attested, after
<1> QED  BY <1>1, <1>14, <1>15, <1>16, <1>17, <1>18 DEF Made, new, index, source, step, manifest
-----------------------------------------------------------------------------
(* What is kept between the steps of commands. *)

Artifacts == [source : Checkouts, ops : SUBSET Operations, calc : BOOLEAN,
              bytes : {1 + Cardinality(ops) : ops \in SUBSET Operations}]

(* A directory, or a stage that is renamed into one, holds made bundles or *)
(* a build whose record describes its artifact.                            *)
ContentOK(content) ==
    /\ content.kind = "bundles" => \A l \in DOMAIN content.bundles : Made(content.bundles[l])
    /\ content.kind = "build" =>
          /\ content.artifact \in Artifacts /\ content.provenance.artifact = content.artifact
          /\ content.provenance.calc = content.artifact.calc

(* A command that runs holds what it read, and forwards what it checked.   *)
JobOK(command) ==
    /\ command.pc = "rename" => ContentOK(command.content)
    /\ command.pc \in {"cargo", "record", "ask", "forward"} => Made(command.bundle)
    /\ command.pc = "record" =>
          command.artifact \in Artifacts /\ command.artifact.calc = ProfileOf(command.bundle).calc
    /\ command.pc = "ask" /\ command.lane # "eval" => ProfileOf(command.bundle).calc
    /\ command.pc = "forward" =>
          /\ command.reply \in Replies
          /\ \/ EvalCallOK(command.bundle, command.reply)
             \/ CalcCallOK(command.reply) /\ ProfileOf(command.bundle).calc

IInv ==
    /\ checkout \in Checkouts
    /\ DOMAIN dirs = Dirs /\ DOMAIN job = Procs
    /\ \A d \in Dirs : dirs[d] # Absent => ContentOK(dirs[d])
    /\ \A p \in Procs : JobOK(job[p])

LEMMA BundlesMade ==
  ASSUME IInv, NEW bundle \in Bundles
  PROVE  Made(bundle)
<1>1. PICK d \in Dirs : /\ dirs[d] # Absent /\ dirs[d].kind = "bundles"
                        /\ \E l \in DOMAIN dirs[d].bundles : bundle = dirs[d].bundles[l]
  BY DEF Bundles
<1> QED  BY <1>1 DEF IInv, ContentOK

LEMMA AloneOK ==
  ASSUME NEW bundle, Made(bundle)
  PROVE  ContentOK(Alone(bundle))
<1> DEFINE alone == Alone(bundle)
<1>1. alone.kind = "bundles" /\ DOMAIN alone.bundles = {"self"} /\ alone.bundles["self"] = bundle
  BY DEF Alone
<1> HIDE DEF alone
<1>2. ContentOK(alone)
  BY <1>1 DEF ContentOK
<1> QED  BY <1>2 DEF alone

(* The steps of a process: its command changes and the others stay.        *)
LEMMA JobStep ==
  ASSUME IInv, NEW p \in Procs, NEW command, JobOK(command), job' = [job EXCEPT ![p] = command]
  PROVE  DOMAIN job' = Procs /\ \A q \in Procs : JobOK(job'[q])
<1>1. DOMAIN job = Procs /\ \A q \in Procs : JobOK(job[q])
  BY DEF IInv
<1>2. DOMAIN job' = Procs /\ \A q \in Procs : job'[q] = IF q = p THEN command ELSE job[q]
  BY <1>1
<1> QED  BY <1>1, <1>2

LEMMA IdleOK == JobOK(Idle)
BY DEF JobOK, Idle

(* A command that starts or goes on leaves the directories and the tree.   *)
LEMMA Proceeds ==
  ASSUME IInv, NEW p \in Procs, NEW command, JobOK(command), job' = [job EXCEPT ![p] = command],
         checkout' = checkout, dirs' = dirs
  PROVE  IInv'
<1>1. DOMAIN job' = Procs /\ \A q \in Procs : JobOK(job'[q])
  BY JobStep
<1>2. /\ checkout' \in Checkouts /\ DOMAIN dirs' = Dirs
      /\ \A d \in Dirs : dirs'[d] # Absent => ContentOK(dirs'[d])
  BY DEF IInv
<1> QED  BY <1>1, <1>2 DEF IInv

LEMMA StartsOK ==
  ASSUME IInv, NEW p \in Procs, NEW out, NEW content, ContentOK(content), Start(p, out, content)
  PROVE  IInv'
<1> DEFINE command == [pc |-> "rename", out |-> out, content |-> content]
<1>1. command.pc = "rename" /\ command.content = content
  OBVIOUS
<1>2. job' = [job EXCEPT ![p] = command] /\ checkout' = checkout /\ dirs' = dirs
  BY DEF Start, Run
<1> HIDE DEF command
<1>3. JobOK(command)
  BY <1>1 DEF JobOK
<1> QED  BY <1>2, <1>3, Proceeds

LEMMA InitOK == Init => IInv
<1> SUFFICES ASSUME Init PROVE IInv
  OBVIOUS
<1>1. PICK left \in Earlier : dirs = [d \in Dirs |-> IF d \in DOMAIN left THEN Alone(left[d]) ELSE Absent]
  BY DEF Init
<1>2. \A d \in Dirs : dirs[d] # Absent => ContentOK(dirs[d])
  <2> SUFFICES ASSUME NEW d \in Dirs, dirs[d] # Absent PROVE ContentOK(dirs[d])
    OBVIOUS
  <2>1. d \in DOMAIN left /\ dirs[d] = Alone(left[d])
    BY <1>1
  <2>2. Made(left[d])
    BY <2>1, EarlierAssumption
  <2> QED  BY <2>1, <2>2, AloneOK
<1>3. \A p \in Procs : job[p] = Idle
  BY DEF Init
<1> QED  BY <1>1, <1>2, <1>3, IdleOK DEF Init, IInv

-----------------------------------------------------------------------------
(* The commands. *)

LEMMA CompileOK ==
  ASSUME IInv, NEW p \in Procs, NEW out, NEW source \in Sources, NEW packc \in Checkouts,
         Compile(p, source, packc, out)
  PROVE  IInv'
<1> DEFINE bundle == CompileProfile(source, packc, checkout)
<1>1. bundle # Refused /\ Start(p, out, Alone(bundle))
  BY DEF Compile
<1>2. checkout \in Checkouts
  BY DEF IInv
<1>3. Made(bundle)
  BY <1>1, <1>2, RequestAssumption, CompileMakes
<1> HIDE DEF bundle
<1> QED  BY <1>1, <1>3, AloneOK, StartsOK

(* Both surfaces of a candidate set are made.                              *)
LEMMA CandidatesOK ==
  ASSUME IInv, NEW p \in Procs, NEW out, NEW request \in Sources, NEW packc \in Checkouts,
         CompileCandidates(p, request, packc, out)
  PROVE  IInv'
<1> DEFINE asked == CandidateRequests(request)
           labels == {"semantic", "combined"}
           pair == [l \in labels |-> CompileProfile(asked[l], packc, checkout)]
           content == [kind |-> "bundles", bundles |-> pair]
<1>1. checkout \in Checkouts
  BY DEF IInv
<1>2. \A l \in labels : /\ DOMAIN asked[l] = SourceFields /\ asked[l].domain \in DOMAIN Families
                         /\ asked[l].revision \in Nat /\ asked[l].calc \in BOOLEAN
  <2>1. /\ DOMAIN request = SourceFields /\ request.domain \in DOMAIN Families /\ request.revision \in Nat
    BY RequestAssumption
  <2>2. asked["semantic"] = [request EXCEPT !.id = request.id \o ".semantic", !.calc = FALSE, !.tools = 1, !.steps = 0]
    BY DEF CandidateRequests
  <2>3. asked["combined"] = [request EXCEPT !.id = request.id \o ".combined", !.calc = TRUE, !.tools = 2, !.steps = 8]
    BY DEF CandidateRequests
  <2>4. /\ DOMAIN asked["semantic"] = SourceFields /\ asked["semantic"].domain = request.domain
        /\ asked["semantic"].revision = request.revision /\ asked["semantic"].calc = FALSE
    BY <2>1, <2>2 DEF SourceFields
  <2>5. /\ DOMAIN asked["combined"] = SourceFields /\ asked["combined"].domain = request.domain
        /\ asked["combined"].revision = request.revision /\ asked["combined"].calc = TRUE
    BY <2>1, <2>3 DEF SourceFields
  <2> QED  BY <2>1, <2>4, <2>5
<1> HIDE DEF asked
<1>3. Candidates(request, packc, checkout) # Refused => /\ Candidates(request, packc, checkout) = pair
                                                       /\ \A l \in labels : pair[l] # Refused
  BY DEF Candidates, asked
<1>4. Start(p, out, content) /\ \A l \in labels : pair[l] # Refused
  BY <1>3 DEF CompileCandidates
<1>5. \A l \in labels : Made(pair[l])
  <2> SUFFICES ASSUME NEW l \in labels PROVE Made(pair[l])
    OBVIOUS
  <2>1. pair[l] = CompileProfile(asked[l], packc, checkout)
    OBVIOUS
  <2> HIDE DEF labels, pair
  <2> QED  BY <1>1, <1>2, <1>4, <2>1, CompileMakes
<1>6. content.kind = "bundles" /\ content.bundles = pair /\ DOMAIN pair = labels
  OBVIOUS
<1> HIDE DEF content, pair, labels
<1>7. ContentOK(content)
  BY <1>5, <1>6 DEF ContentOK
<1> QED  BY <1>4, <1>7, StartsOK

LEMMA StartBuildOK ==
  ASSUME IInv, NEW p \in Procs, NEW out, NEW bundle \in Bundles, NEW corpus, StartBuild(p, bundle, corpus, out)
  PROVE  IInv'
<1> DEFINE rows == {row \in corpus : row.op \in ProfileOf(bundle).ops}
           command == [pc |-> "cargo", out |-> out, bundle |-> bundle, corpus |-> rows]
<1>1. job' = [job EXCEPT ![p] = command] /\ checkout' = checkout /\ dirs' = dirs
  BY DEF StartBuild, Run
<1>2. command.pc = "cargo" /\ command.bundle = bundle
  OBVIOUS
<1>3. Made(bundle)
  BY BundlesMade
<1> HIDE DEF command
<1>4. JobOK(command)
  BY <1>2, <1>3 DEF JobOK
<1> QED  BY <1>1, <1>4, Proceeds

(* Cargo builds an artifact of the tree, with the features of the profile. *)
LEMMA CargoOK ==
  ASSUME IInv, NEW p \in Procs, Cargo(p)
  PROVE  IInv'
<1> DEFINE bundle == job[p].bundle
           profile == ProfileOf(bundle)
           artifact == [source |-> checkout, ops |-> profile.ops, calc |-> profile.calc,
                        bytes |-> 1 + Cardinality(profile.ops)]
           command == [pc |-> "record", out |-> job[p].out, bundle |-> bundle, corpus |-> job[p].corpus,
                       artifact |-> artifact]
<1>1. /\ job' = [job EXCEPT ![p] = command] \/ job' = [job EXCEPT ![p] = Idle]
      /\ checkout' = checkout /\ dirs' = dirs
  BY DEF Cargo, Exit
<1>2. Made(bundle) /\ checkout \in Checkouts
  BY DEF IInv, JobOK, Cargo
<1>3. profile.ops \in SUBSET Operations /\ profile.calc \in BOOLEAN
  BY <1>2 DEF Made, Identified
<1> HIDE DEF profile, bundle
<1>4. artifact \in Artifacts /\ artifact.calc = profile.calc
  BY <1>2, <1>3 DEF Artifacts
<1> HIDE DEF artifact
<1>5. command.pc = "record" /\ command.bundle = bundle /\ command.artifact = artifact
  OBVIOUS
<1> HIDE DEF command
<1>6. JobOK(command)
  BY <1>2, <1>4, <1>5 DEF JobOK, profile
<1> QED  BY <1>1, <1>6, IdleOK, Proceeds

(* The record describes the artifact, whatever tree it names.              *)
LEMMA RecordOK ==
  ASSUME IInv, NEW p \in Procs, Record(p)
  PROVE  IInv'
<1> DEFINE bundle == job[p].bundle
           artifact == job[p].artifact
           record == Provenance(bundle, checkout, artifact)
           content == [kind |-> "build", artifact |-> artifact, corpus |-> job[p].corpus, provenance |-> record]
           command == [pc |-> "rename", out |-> job[p].out, content |-> content]
<1>1. job' = [job EXCEPT ![p] = command] /\ checkout' = checkout /\ dirs' = dirs
  BY DEF Record
<1>2. artifact \in Artifacts /\ artifact.calc = ProfileOf(bundle).calc
  BY DEF IInv, JobOK, Record
<1> HIDE DEF bundle, artifact
<1>3. record.artifact = artifact /\ record.calc = artifact.calc
  BY <1>2 DEF Provenance
<1> HIDE DEF record
<1>4. /\ command.pc = "rename" /\ command.content = content
      /\ content.kind = "build" /\ content.artifact = artifact /\ content.provenance = record
  OBVIOUS
<1> HIDE DEF content, command
<1>5. JobOK(command)
  BY <1>2, <1>3, <1>4 DEF ContentOK, JobOK
<1> QED  BY <1>1, <1>5, Proceeds

(* A corpus covers the operations and the runtime answers it, and a build  *)
(* record that verifies names the sources and describes the runtime.       *)
LEMMA BindOK ==
  ASSUME IInv, NEW p \in Procs, NEW out, NEW bundle \in Bundles, NEW artifact, artifact # Absent,
         NEW corpus, NEW core, NEW by \in Nat, NEW provenance,
         provenance # Absent => provenance.artifact = artifact /\ provenance.calc = artifact.calc,
         Bind(p, bundle, artifact, corpus, core, ProfileOf(bundle).revision + by, provenance, out)
  PROVE  IInv'
<1> DEFINE profile == ProfileOf(bundle)
           revision == profile.revision + by
           new == BoundBundle(bundle, artifact, corpus, core, revision, provenance)
<1>1. Made(bundle)
  BY BundlesMade
<1>2. revision \in Nat
  BY <1>1 DEF Made, Identified
<1>3. Covered(corpus) = profile.ops /\ \A row \in corpus : Answers(artifact, row)
  BY DEF Bind, Exercises
<1>4. provenance # Absent => provenance.source = profile.bindings.core /\ (profile.calc => artifact.calc)
  BY DEF Bind, ProvenanceVerifies
<1>5. Start(p, out, Alone(new))
  BY DEF Bind
<1> HIDE DEF revision
<1>6. Made(new)
  BY <1>1, <1>2, <1>3, <1>4, BindMakes
<1> HIDE DEF new
<1> QED  BY <1>5, <1>6, AloneOK, StartsOK

LEMMA AttachOK ==
  ASSUME IInv, NEW p \in Procs, NEW out, NEW bundle \in Bundles, NEW results, NEW by \in Nat,
         Attach(p, bundle, results, ProfileOf(bundle).revision + by, out)
  PROVE  IInv'
<1> DEFINE revision == ProfileOf(bundle).revision + by
           index == EvidenceIndex(results, bundle)
           new == Bundle(Append(bundle.sha, [evidence |-> index, revision |-> revision]),
                         AttachedFiles(bundle, index, revision),
                         [bundle.manifest EXCEPT !.lineage = <<SourceIdentity(bundle)>>])
<1>1. Made(bundle)
  BY BundlesMade
<1>2. revision \in Nat
  BY <1>1 DEF Made, Identified
<1>3. ResultsVerify(results, bundle) /\ Start(p, out, Alone(new))
  BY DEF Attach
<1> HIDE DEF revision
<1>4. Made(new)
  BY <1>1, <1>2, <1>3, AttachMakes
<1> HIDE DEF new
<1> QED  BY <1>3, <1>4, AloneOK, StartsOK

LEMMA AskOK ==
  ASSUME IInv, NEW p \in Procs, NEW bundle \in Bundles, NEW lane, NEW policy, Ask(p, bundle, lane, policy)
  PROVE  IInv'
<1> DEFINE command == [pc |-> "ask", lane |-> lane, bundle |-> bundle]
<1>1. job' = [job EXCEPT ![p] = command] /\ checkout' = checkout /\ dirs' = dirs
  BY DEF Ask, Run
<1>2. command.pc = "ask" /\ command.bundle = bundle /\ command.lane = lane
  OBVIOUS
<1>3. Made(bundle) /\ (lane # "eval" => ProfileOf(bundle).calc)
  BY BundlesMade DEF Ask, ServesCalc
<1> HIDE DEF command
<1>4. JobOK(command)
  BY <1>2, <1>3 DEF JobOK
<1> QED  BY <1>1, <1>4, Proceeds

LEMMA ReceiveOK ==
  ASSUME IInv, NEW p \in Procs, NEW reply \in Replies, Receive(p, reply)
  PROVE  IInv'
<1> DEFINE bundle == job[p].bundle
           command == [pc |-> "forward", bundle |-> bundle, reply |-> reply]
           accepted == EvalCallOK(bundle, reply) \/ (CalcCallOK(reply) /\ ProfileOf(bundle).calc)
<1>1. /\ Made(bundle) /\ (job[p].lane # "eval" => ProfileOf(bundle).calc)
  BY DEF IInv, JobOK, Receive
<1>2. /\ (job' = [job EXCEPT ![p] = command] /\ accepted) \/ job' = [job EXCEPT ![p] = Idle]
      /\ checkout' = checkout /\ dirs' = dirs
  <2> DEFINE checked == IF job[p].lane = "eval" THEN EvalCallOK(bundle, reply) ELSE CalcCallOK(reply)
  <2>1. checkout' = checkout /\ dirs' = dirs
    BY DEF Receive
  <2>2. checked => accepted
    <3>1. CASE job[p].lane = "eval"
      BY <3>1
    <3>2. CASE job[p].lane # "eval"
      <4>1. ProfileOf(bundle).calc
        BY <1>1, <3>2
      <4> HIDE DEF bundle
      <4> QED  BY <3>2, <4>1, Zenon
    <3> QED  BY <3>1, <3>2
  <2>3. checked => job' = [job EXCEPT ![p] = command]
    BY DEF Receive
  <2>4. ~checked => job' = [job EXCEPT ![p] = Idle]
    BY DEF Receive, Exit
  <2> HIDE DEF checked, accepted, command, bundle
  <2> QED  BY <2>1, <2>2, <2>3, <2>4
<1>3. command.pc = "forward" /\ command.bundle = bundle /\ command.reply = reply
  OBVIOUS
<1>4. accepted => JobOK(command)
  <2> HIDE DEF command, bundle
  <2> QED  BY <1>1, <1>3 DEF JobOK
<1> HIDE DEF command, bundle, accepted
<1> QED  BY <1>2, <1>4, IdleOK, Proceeds

(* A stage becomes the output directory, or is dropped.                    *)
LEMMA RenameOK ==
  ASSUME IInv, NEW p \in Procs, Rename(p)
  PROVE  IInv'
<1>1. DOMAIN job' = Procs /\ \A q \in Procs : JobOK(job'[q])
  BY IdleOK, JobStep DEF Rename, Exit
<1>2. ContentOK(job[p].content)
  BY DEF IInv, JobOK, Rename
<1>3. /\ DOMAIN dirs' = Dirs
      /\ \A d \in Dirs : dirs'[d] # Absent => ContentOK(dirs'[d])
  <2>1. CASE dirs' = dirs
    BY <2>1 DEF IInv
  <2>2. CASE dirs' = [dirs EXCEPT ![job[p].out] = job[p].content]
    <3>1. DOMAIN dirs' = Dirs /\ \A d \in Dirs : dirs'[d] = dirs[d] \/ dirs'[d] = job[p].content
      BY <2>2 DEF IInv
    <3> QED  BY <1>2, <3>1 DEF IInv
  <2> QED  BY <2>1, <2>2 DEF Rename
<1>4. checkout' \in Checkouts
  BY DEF IInv, Rename
<1> QED  BY <1>1, <1>3, <1>4 DEF IInv

-----------------------------------------------------------------------------
(* What builds hold was not absent.                                        *)
LEMMA BuildsOK ==
  ASSUME IInv, NEW build \in Builds
  PROVE  /\ build.artifact # Absent /\ build.provenance.artifact = build.artifact
         /\ build.provenance.calc = build.artifact.calc
<1>1. PICK d \in Dirs : dirs[d] # Absent /\ dirs[d].kind = "build" /\ build = dirs[d]
  BY DEF Builds
<1>2. ContentOK(build) /\ build.kind = "build"
  BY <1>1 DEF IInv
<1>3. build.artifact \in Artifacts /\ Absent \notin Artifacts
  BY <1>2, ArtifactAssumption DEF ContentOK, Artifacts
<1> QED  BY <1>2, <1>3 DEF ContentOK

LEMMA CommandOK ==
  ASSUME IInv, NEW p \in Procs, NEW out, Command(p, out)
  PROVE  IInv'
<1>1. CASE \E source \in Sources, packc \in Checkouts :
             Compile(p, source, packc, out) \/ CompileCandidates(p, source, packc, out)
  BY <1>1, CompileOK, CandidatesOK
<1>2. ASSUME NEW bundle \in Bundles, \E corpus \in Corpora : StartBuild(p, bundle, corpus, out)
      PROVE  IInv'
  BY <1>2, StartBuildOK
<1>3. ASSUME NEW bundle \in Bundles, NEW artifact \in PrebuiltArtifacts, NEW corpus \in Corpora,
             NEW core \in Checkouts, NEW by \in Increments,
             Bind(p, bundle, artifact, corpus, core, ProfileOf(bundle).revision + by, Absent, out)
      PROVE  IInv'
  <2>1. artifact # Absent /\ by \in Nat
    BY ArtifactAssumption, RequestAssumption
  <2> QED  BY <1>3, <2>1, BindOK
<1>4. ASSUME NEW bundle \in Bundles, NEW build \in Builds, NEW core \in Checkouts, NEW by \in Increments,
             Bind(p, bundle, build.artifact, build.corpus, core, ProfileOf(bundle).revision + by,
                  build.provenance, out)
      PROVE  IInv'
  <2>1. by \in Nat
    BY RequestAssumption
  <2>2. /\ build.artifact # Absent /\ build.provenance.artifact = build.artifact
        /\ build.provenance.calc = build.artifact.calc
    BY BuildsOK
  <2> QED  BY <1>4, <2>1, <2>2, BindOK
<1>5. ASSUME NEW bundle \in Bundles, NEW results, NEW by \in Increments,
             Attach(p, bundle, results, ProfileOf(bundle).revision + by, out)
      PROVE  IInv'
  <2>1. by \in Nat
    BY RequestAssumption
  <2> QED  BY <1>5, <2>1, AttachOK
<1>6. ASSUME NEW bundle \in Bundles, NEW lane, NEW policy, Ask(p, bundle, lane, policy)
      PROVE  IInv'
  BY <1>6, AskOK
<1> QED  BY <1>1, <1>2, <1>3, <1>4, <1>5, <1>6 DEF Command

LEMMA NextOK ==
  ASSUME IInv, [Next]_vars
  PROVE  IInv'
<1>1. ASSUME NEW p \in Procs, NEW out, Command(p, out) PROVE IInv'
  BY <1>1, CommandOK
<1>2. ASSUME NEW p \in Procs, Cargo(p) PROVE IInv'
  BY <1>2, CargoOK
<1>3. ASSUME NEW p \in Procs, Rename(p) \/ Record(p) PROVE IInv'
  BY <1>3, RenameOK, RecordOK
<1>4. ASSUME NEW p \in Procs, Forward(p) \/ Crash(p) PROVE IInv'
  BY <1>4, IdleOK, Proceeds DEF Forward, Crash, Exit
<1>5. ASSUME NEW p \in Procs, NEW reply \in Replies, Receive(p, reply) PROVE IInv'
  BY <1>5, ReceiveOK
<1>6. ASSUME NEW to \in Checkouts, MoveTree(to) PROVE IInv'
  BY <1>6 DEF MoveTree, IInv
<1>7. CASE UNCHANGED vars
  BY <1>7 DEF vars, IInv
<1> QED  BY <1>1, <1>2, <1>3, <1>4, <1>5, <1>6, <1>7 DEF Next

(* Every bundle that exists was made: complete, consistent, identified by  *)
(* its digest, served by its runtime, attested by its own evidence.        *)
THEOREM Invariant == Spec => []IInv
BY InitOK, NextOK, PTL DEF Spec

-----------------------------------------------------------------------------
(* What the invariant says of the bundles. *)

(* Whatever commands made a bundle, its files agree.                       *)
THEOREM BundlesVerify == Spec => []EveryBundleVerifies
<1>1. IInv => EveryBundleVerifies
  BY BundlesMade DEF EveryBundleVerifies, Made
<1> QED  BY <1>1, Invariant, PTL

(* Published evidence was measured with the bundle's own runtime under the *)
(* contract it serves.                                                     *)
THEOREM EvidenceMatches == Spec => []AttachedEvidenceMatches
<1>1. ASSUME IInv, NEW bundle \in Bundles, "evidence" \in DOMAIN Step(bundle),
             NEW i \in DOMAIN EvidenceOf(bundle)
      PROVE  /\ EvidenceOf(bundle)[i].artifact = RuntimeOf(bundle)
             /\ EvidenceOf(bundle)[i].source.contract = ServingContract(ProfileOf(bundle))
  <2> DEFINE profile == ProfileOf(bundle)
             source == bundle.manifest.lineage[1]
  <2>1. Complete(bundle) /\ Attested(bundle)
    BY <1>1, BundlesMade DEF Made
  <2>2. /\ source.contract = ServingContract(profile)
        /\ EvidenceOf(bundle)[i].source = source
        /\ EvidenceOf(bundle)[i].artifact = source.contract.bindings.artifact
    BY <1>1, <2>1 DEF Attested
  <2>3. ServingContract(profile).bindings.artifact = profile.bindings.artifact
    <3>1. DOMAIN profile = SourceFields \cup {"bindings", "evidence"} /\ DOMAIN profile.bindings = BindingFields
      BY <2>1 DEF Complete
    <3> HIDE DEF profile
    <3> QED  BY <3>1 DEF ServingContract, SourceFields, BindingFields
  <2> QED  BY <2>2, <2>3 DEF RuntimeOf
<1>2. IInv => AttachedEvidenceMatches
  BY <1>1 DEF AttachedEvidenceMatches
<1> QED  BY <1>2, Invariant, PTL

(* A bound runtime answers the gold of every operation its bundle offers,  *)
(* and a build record names the profile's sources and a runtime with the   *)
(* plan lane, wherever the tree moves while a build runs.                  *)
THEOREM RuntimeServes == Spec => []BoundRuntimeServes
<1>1. IInv => BoundRuntimeServes
  BY BundlesMade DEF BoundRuntimeServes, Made
<1> QED  BY <1>1, Invariant, PTL

(* So it has all the operations.                                           *)
LEMMA RuntimeHasOperations ==
  ASSUME NEW bundle, Serviceable(bundle), RuntimeOf(bundle) # Absent
  PROVE  ProfileOf(bundle).ops \subseteq RuntimeOf(bundle).ops
BY DEF Serviceable, Answers, Covered

(* A digest names one revision.                                            *)
LEMMA RevisionNamed ==
  ASSUME NEW a, NEW b, Made(a), Made(b), a.sha = b.sha
  PROVE  ProfileOf(a).revision = ProfileOf(b).revision
<1>1. Step(a) = Step(b)
  BY DEF Step
<1> QED  BY <1>1 DEF Made, Identified

(* Definitions kept twice are kept, because revisions are numbers.         *)
LEMMA KeptTwice ==
  ASSUME NEW a \in Definitions, NEW b \in Definitions, NEW c \in Definitions, NEW allow \in BOOLEAN,
         KeepsOperation(a, b, allow), KeepsOperation(b, c, allow)
  PROVE  KeepsOperation(a, c, allow)
<1>1. RevisionOf[a] \in Nat /\ RevisionOf[b] \in Nat /\ RevisionOf[c] \in Nat
  BY RequestAssumption
<1> QED  BY <1>1 DEF KeepsOperation

(* Upgrades compose, for every three bundles there ever are.               *)
THEOREM UpgradesChain == Spec => []UpgradesCompose
<1>1. ASSUME IInv, NEW a \in Bundles, NEW b \in Bundles, NEW c \in Bundles, NEW allow \in BOOLEAN,
             TransparentUpgrade(a, b, allow), TransparentUpgrade(b, c, allow)
      PROVE  TransparentUpgrade(a, c, allow)
  <2> DEFINE A == ProfileOf(a)
             B == ProfileOf(b)
             C == ProfileOf(c)
  <2>1. Made(a) /\ Made(b) /\ Made(c)
    BY <1>1, BundlesMade
  <2>2. A.revision \in Nat /\ B.revision \in Nat /\ C.revision \in Nat
    BY <2>1 DEF Made, Identified
  <2>3. A.ops \subseteq B.ops /\ B.ops \subseteq C.ops
    BY <1>1 DEF TransparentUpgrade
  <2>4. <<A.id, A.domain>> = <<C.id, C.domain>>
    BY <1>1 DEF TransparentUpgrade
  <2>5. a.sha = c.sha \/ C.revision > A.revision
    <3>1. a.sha = b.sha \/ B.revision > A.revision
      BY <1>1 DEF TransparentUpgrade
    <3>2. b.sha = c.sha \/ C.revision > B.revision
      BY <1>1 DEF TransparentUpgrade
    <3>3. /\ a.sha = b.sha => A.revision = B.revision
          /\ b.sha = c.sha => B.revision = C.revision
      BY <2>1, RevisionNamed
    <3> HIDE DEF A, B, C
    <3> QED  BY <2>2, <3>1, <3>2, <3>3
  <2>6. ASSUME NEW key \in A.ops
        PROVE  KeepsOperation(CatalogOf(a)[key], CatalogOf(c)[key], allow)
    <3>1. key \in B.ops /\ key \in C.ops
      BY <2>3, <2>6
    <3>2. /\ CatalogOf(a)[key] \in Definitions /\ CatalogOf(b)[key] \in Definitions
          /\ CatalogOf(c)[key] \in Definitions
      BY <2>1, <2>6, <3>1 DEF Made, Identified
    <3>3. /\ KeepsOperation(CatalogOf(a)[key], CatalogOf(b)[key], allow)
          /\ KeepsOperation(CatalogOf(b)[key], CatalogOf(c)[key], allow)
      BY <1>1, <2>6, <3>1 DEF TransparentUpgrade
    <3> QED  BY <3>2, <3>3, KeptTwice
  <2> QED  BY <2>3, <2>4, <2>5, <2>6 DEF TransparentUpgrade
<1>2. IInv => UpgradesCompose
  BY <1>1 DEF UpgradesCompose
<1> QED  BY <1>2, Invariant, PTL

(* A plan that the adapter accepts is one that either plan grammar admits, *)
(* and refers to earlier steps only.                                       *)
LEMMA PlansAdmitted ==
  ASSUME NEW reply \in Replies, CalcCallOK(reply), NEW grammar
  PROVE  /\ GrammarAdmitsPlan(grammar, reply.plan)
         /\ \A i \in DOMAIN reply.plan : \A j \in DOMAIN reply.plan[i].a :
                "ref" \in DOMAIN reply.plan[i].a[j] => reply.plan[i].a[j].ref < i - 1
<1> DEFINE plan == reply.plan
           operands == [lit : Literals] \cup [ref : Nat]
<1>1. plan \in Seq([o : STRING, a : Seq(operands)]) /\ PlanOK(plan)
  BY ReplyAssumption DEF CalcCallOK
<1> HIDE DEF plan
<1>2. Len(plan) \in 1 .. 8 /\ DOMAIN plan = 1 .. Len(plan)
  BY <1>1 DEF PlanOK, MaxPlanSteps
<1>3. ASSUME NEW i \in DOMAIN plan, NEW j \in DOMAIN plan[i].a
      PROVE  /\ plan[i].a[j] \in GrammarValues(grammar, i - 1)
             /\ "ref" \in DOMAIN plan[i].a[j] => plan[i].a[j].ref < i - 1
  <2> DEFINE operand == plan[i].a[j]
  <2>1. i \in 1 .. 8
    BY <1>2, <1>3
  <2>2. operand \in operands
    <3> DEFINE steps == [o : STRING, a : Seq(operands)]
    <3>1. plan[i] \in steps
      <4>1. plan \in Seq(steps)
        BY <1>1
      <4> HIDE DEF steps
      <4> QED  BY <1>3, <4>1
    <3> HIDE DEF operands
    <3>2. plan[i].a \in Seq(operands)
      BY <3>1
    <3> QED  BY <1>3, <3>2
  <2>3. OperandOK(operand, i - 1)
    BY <1>1, <1>3 DEF PlanOK
  <2> HIDE DEF operand
  <2>4. CASE operand \in [lit : Literals]
    <3>1. operand.lit \in Literals /\ DOMAIN operand = {"lit"} /\ operand = [lit |-> operand.lit]
      BY <2>4
    <3>2. operand.lit # "malformed"
      BY <2>3, <3>1 DEF OperandOK
    <3>3. [lit |-> operand.lit] \in [lit : Literals \ {"malformed"}]
      BY <3>1, <3>2
    <3>4. "ref" \notin DOMAIN operand
      BY <3>1
    <3> QED  BY <3>1, <3>3, <3>4 DEF GrammarValues, operand
  <2>5. CASE operand \in [ref : Nat]
    <3>1. operand.ref \in Nat /\ operand.ref < i - 1 /\ operand = [ref |-> operand.ref]
      <4>1. operand.ref \in Nat /\ DOMAIN operand = {"ref"} /\ operand = [ref |-> operand.ref]
        BY <2>5
      <4> QED  BY <2>3, <4>1 DEF OperandOK
    <3>2. operand.ref \in 0 .. 7 /\ operand.ref \in 0 .. (i - 1) - 1
      BY <2>1, <3>1
    <3>3. [ref |-> operand.ref] \in [ref : IF grammar.plan = "base" THEN 0 .. 7 ELSE 0 .. (i - 1) - 1]
      BY <3>2
    <3> QED  BY <3>1, <3>3 DEF GrammarValues, operand
  <2> QED  BY <2>2, <2>4, <2>5 DEF operand
<1>4. \A i \in DOMAIN plan : plan[i].o \in PlanOperations /\ Len(plan[i].a) = Arity(plan[i].o)
  BY <1>1 DEF PlanOK
<1> QED  BY <1>2, <1>3, <1>4 DEF GrammarAdmitsPlan, MaxPlanSteps, plan

(* What is forwarded fits what is to serve it.                             *)
THEOREM ForwardedServable == Spec => []ForwardedCallsAreServable
<1> DEFINE PlanServed(bundle, plan) ==
               /\ GrammarAdmitsPlan(bundle.files["xs-calc.gbnf"], plan)
               /\ \A i \in DOMAIN plan : \A j \in DOMAIN plan[i].a :
                      "ref" \in DOMAIN plan[i].a[j] => plan[i].a[j].ref < i - 1
               /\ RuntimeOf(bundle) # Absent /\ bundle.manifest.provenance # Absent => RuntimeOf(bundle).calc
           EvalServed(bundle, reply) ==
               /\ reply.op \in ProfileOf(bundle).ops
               /\ LET shapes == ArgsOf[Reviewed[ProfileOf(bundle).bindings.core][reply.op]] IN
                  /\ Len(reply.args) = Len(shapes)
                  /\ \A i \in DOMAIN shapes : reply.args[i].shape = shapes[i] /\ reply.args[i].exact
               /\ Decimals(reply.args) <= MaxDecimals
               /\ RuntimeOf(bundle) # Absent => reply.op \in RuntimeOf(bundle).ops
<1>1. ASSUME NEW bundle, NEW reply \in Replies, Made(bundle), CalcCallOK(reply), ProfileOf(bundle).calc
      PROVE  PlanServed(bundle, reply.plan)
  <2>1. RuntimeOf(bundle) # Absent /\ bundle.manifest.provenance # Absent => RuntimeOf(bundle).calc
    BY <1>1 DEF Made, Serviceable
  <2> QED  BY <1>1, <2>1, PlansAdmitted
<1>2. ASSUME NEW bundle, NEW reply, Made(bundle), EvalCallOK(bundle, reply)
      PROVE  EvalServed(bundle, reply)
  <2>1. reply.op \in ProfileOf(bundle).ops
    BY <1>2 DEF EvalCallOK, Made, Verifies, InternallyConsistent
  <2>2. CatalogOf(bundle)[reply.op] = Reviewed[ProfileOf(bundle).bindings.core][reply.op]
    BY <1>2, <2>1 DEF Made, Identified
  <2>3. RuntimeOf(bundle) # Absent => reply.op \in RuntimeOf(bundle).ops
    BY <1>2, <2>1, RuntimeHasOperations DEF Made
  <2> QED  BY <1>2, <2>1, <2>2, <2>3 DEF EvalCallOK
<1>3. ASSUME IInv, NEW p \in Procs, job[p].pc = "forward"
      PROVE  IF job[p].reply.tool = "xs_calc" THEN PlanServed(job[p].bundle, job[p].reply.plan)
             ELSE EvalServed(job[p].bundle, job[p].reply)
  <2>1. /\ Made(job[p].bundle) /\ job[p].reply \in Replies
        /\ \/ EvalCallOK(job[p].bundle, job[p].reply)
           \/ CalcCallOK(job[p].reply) /\ ProfileOf(job[p].bundle).calc
    BY <1>3 DEF IInv, JobOK
  <2>2. /\ EvalCallOK(job[p].bundle, job[p].reply) => job[p].reply.tool = "xs_eval"
        /\ CalcCallOK(job[p].reply) => job[p].reply.tool = "xs_calc"
    BY DEF EvalCallOK, CalcCallOK
  <2> HIDE DEF PlanServed, EvalServed
  <2> QED  BY <1>1, <1>2, <2>1, <2>2
<1>4. IInv => ForwardedCallsAreServable
  BY <1>3 DEF ForwardedCallsAreServable
<1> QED  BY <1>4, Invariant, PTL
=============================================================================
