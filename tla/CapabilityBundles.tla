-------------------------- MODULE CapabilityBundles --------------------------
(***************************************************************************)
(* The life of a capability: compiled from a request (alone or as a        *)
(* candidate pair), built into a Wasm artifact, bound to an artifact and   *)
(* its gold corpus, given model evidence, and served.  Every command       *)
(* writes a new directory: it prepares all files, looks for the output,    *)
(* and renames a stage into place.  Commands of several users run beside   *)
(* each other, die at any step, and the source tree moves under them.      *)
(*                                                                         *)
(* A refused command leaves nothing behind and is not a step.  A command   *)
(* reads the tree and its inputs at one moment, except the builder, which  *)
(* validates the profile, compiles the tree, and records it afterwards;    *)
(* the tree may move between these three, and move back.                   *)
(***************************************************************************)
EXTENDS ToolCalls

CONSTANTS Procs, Dirs, Sources, PrebuiltArtifacts, Corpora, Increments, Policies, Replies,
          Earlier,    \* what earlier commands may have left in the directories
          MaxCommands

VARIABLES checkout, \* the state of the source tree
          dirs,     \* output directories: 1, 2, ... in the order they are chosen
          job,      \* the command each process runs
          started   \* commands started, at most MaxCommands
vars == <<checkout, dirs, job, started>>

Idle == [pc |-> "idle"]
Exit(p) == job' = [job EXCEPT ![p] = Idle]

\* Directories hold an ordinary bundle, a candidate set, or a build.
Bundles == UNION {{dirs[d].bundles[l] : l \in DOMAIN dirs[d].bundles} :
                      d \in {x \in Dirs : dirs[x] # Absent /\ dirs[x].kind = "bundles"}}
Builds == {dirs[d] : d \in {x \in Dirs : dirs[x] # Absent /\ dirs[x].kind = "build"}}
NewDirs == {d \in Dirs : dirs[d] = Absent /\ \A e \in 1 .. d - 1 : dirs[e] # Absent}
Alone(bundle) == [kind |-> "bundles", bundles |-> [self |-> bundle]]

Ready(p) == job[p].pc = "idle" /\ started < MaxCommands
Run(p, command) ==
    job' = [job EXCEPT ![p] = command] /\ started' = started + 1 /\ UNCHANGED <<checkout, dirs>>

\* write_bundle, immutable_write, write_candidate_set up to the rename: the caller names a
\* new directory.  One that exists is left as it is, whether it holds the same or not.
Start(p, out, content) ==
    dirs[out] = Absent /\ Run(p, [pc |-> "rename", out |-> out, content |-> content])

(***************************************************************************)
(* Compile                                                                 *)
(***************************************************************************)
Compile(p, source, packc, out) ==
    LET bundle == CompileProfile(source, packc, checkout)
    IN bundle # Refused /\ Start(p, out, Alone(bundle))

CompileCandidates(p, source, packc, out) ==
    LET pair == Candidates(source, packc, checkout)
    IN pair # Refused /\ Start(p, out, [kind |-> "bundles", bundles |-> pair])

(***************************************************************************)
(* Build.  An artifact answers the operations of its features with the     *)
(* semantics of the tree it was built from.                                *)
(***************************************************************************)
Answers(artifact, row) == row.op \in artifact.ops /\ Reviewed[artifact.source][row.op] = row.expects
Covered(corpus) == {row.op : row \in corpus}

StartBuild(p, bundle, corpus, out) ==
    LET profile == ProfileOf(bundle) IN
    /\ profile.bindings.core = checkout /\ Verifies(bundle)
    /\ profile.specialization = "selected" /\ profile.target = "no-import-wasm"
    /\ profile.ops \subseteq Covered(corpus)
    /\ Run(p, [pc |-> "cargo", out |-> out, bundle |-> bundle,
               corpus |-> {row \in corpus : row.op \in profile.ops}])

\* Cargo compiles the tree as it is now, and the artifact is checked against the budget and the rows.
Cargo(p) ==
    /\ job[p].pc = "cargo"
    /\ LET profile == ProfileOf(job[p].bundle)
           artifact == [source |-> checkout, ops |-> profile.ops, calc |-> profile.calc, bytes |-> 1 + Cardinality(profile.ops)]
       IN IF artifact.bytes <= profile.artifactBytes /\ \A row \in job[p].corpus : Answers(artifact, row)
          THEN job' = [job EXCEPT ![p] = [pc |-> "record", out |-> job[p].out, bundle |-> job[p].bundle,
                                          corpus |-> job[p].corpus, artifact |-> artifact]]
          ELSE Exit(p)
    /\ UNCHANGED <<checkout, dirs, started>>

Provenance(bundle, source, artifact) ==
    [bundle |-> bundle.sha, profile |-> ProfileOf(bundle), source |-> source,
     core |-> ProfileOf(bundle).bindings.core, artifact |-> artifact,
     ops |-> ProfileOf(bundle).ops, calc |-> ProfileOf(bundle).calc]

\* The build record names the tree as it is after the checks, which need not be the one cargo read.
Record(p) ==
    /\ job[p].pc = "record"
    /\ job' = [job EXCEPT ![p] =
           [pc |-> "rename", out |-> job[p].out,
            content |-> [kind |-> "build", artifact |-> job[p].artifact, corpus |-> job[p].corpus,
                         provenance |-> Provenance(job[p].bundle, checkout, job[p].artifact)]]]
    /\ UNCHANGED <<checkout, dirs, started>>

(***************************************************************************)
(* Bind                                                                    *)
(***************************************************************************)
\* A slip: the record of the build is not compared with the tree it was built from.
ProvenanceOfAnyTree(provenance, bundle, artifact) ==
    /\ provenance.bundle = bundle.sha /\ provenance.profile = ProfileOf(bundle)
    /\ provenance.core = ProfileOf(bundle).bindings.core
    /\ provenance.artifact = artifact
    /\ provenance.ops = ProfileOf(bundle).ops /\ provenance.calc = ProfileOf(bundle).calc
\* verify_build_provenance
ProvenanceVerifies(provenance, bundle, artifact) ==
    /\ provenance.bundle = bundle.sha /\ provenance.profile = ProfileOf(bundle)
    /\ provenance.source = checkout /\ provenance.core = ProfileOf(bundle).bindings.core
    /\ provenance.artifact = artifact
    /\ provenance.ops = ProfileOf(bundle).ops /\ provenance.calc = ProfileOf(bundle).calc

\* The corpus covers the selected operations, no more and no less, and names the gold of a native core.
Exercises(corpus, profile) == Covered(corpus) = profile.ops
NativeAgrees(corpus, profile, core) ==
    /\ \A row \in corpus : Reviewed[core][row.op] = row.expects
    /\ profile.domain = "economics" => \A row \in corpus : Reviewed[checkout][row.op] = row.expects

BoundFiles(bundle, artifact, corpus, revision, provenance) ==
    LET old == ProfileOf(bundle)
        extra == File("runtime.wasm", artifact) ++ File("benchmark-mapping.jsonl", corpus)
                 ++ File("conformance.json", [artifact |-> artifact, corpus |-> corpus])
                 ++ (IF provenance = Absent THEN <<>> ELSE File("build-provenance.json", provenance))
        files == extra ++ bundle.files
        contract == SurfaceContract([old EXCEPT !.revision = revision], CatalogOf(bundle), files)
        profile == [old EXCEPT !.revision = revision, !.bindings.artifact = artifact, !.bindings.contract = contract,
                               !.evidence.suite = [artifact |-> artifact, corpus |-> corpus], !.evidence.mapping = corpus]
    IN File("surface-contract.json", contract) ++ File("profile.json", profile) ++ files

BoundBundle(bundle, artifact, corpus, core, revision, provenance) ==
    Bundle(Append(bundle.sha, [bound |-> artifact, corpus |-> corpus, core |-> core,
                               revision |-> revision, provenance |-> provenance # Absent]),
           BoundFiles(bundle, artifact, corpus, revision, provenance),
           [bundle.manifest EXCEPT !.provenance = provenance, !.artifactBytes = artifact.bytes])

Bind(p, bundle, artifact, corpus, core, revision, provenance, out) ==
    LET profile == ProfileOf(bundle) IN
    /\ profile.bindings.core = checkout
    /\ profile.target = "no-import-wasm" /\ revision > profile.revision
    /\ provenance = Absent => profile.domain = "statistics"
    /\ provenance # Absent => ProvenanceVerifies(provenance, bundle, artifact)
    /\ artifact.bytes <= profile.artifactBytes
    /\ Exercises(corpus, profile) /\ NativeAgrees(corpus, profile, core)
    /\ \A row \in corpus : Answers(artifact, row)
    /\ Verifies(bundle)
    /\ Start(p, out, Alone(BoundBundle(bundle, artifact, corpus, core, revision, provenance)))

(***************************************************************************)
(* Attach model evidence.  A benchmark run names the bundle it measured;   *)
(* its corpus is the bundle's own mapping, or an external one that was     *)
(* registered for a capability before the run.                             *)
(***************************************************************************)
\* capability_contract_sha256: everything a model is served, without the revision-coupled contract.
ServingContract(profile) ==
    [profile EXCEPT !.revision = 0, !.bindings.contract = Absent, !.evidence = Absent]

\* A slip: every bundle stands for itself.
CurrentIdentity(bundle) ==
    [bundle |-> bundle.sha, revision |-> ProfileOf(bundle).revision, contract |-> ServingContract(ProfileOf(bundle))]
\* benchmark_source_identity: the revision that every evidence-only descendant measures.
SourceIdentity(bundle) ==
    IF bundle.manifest.lineage # <<>> THEN bundle.manifest.lineage[1]
    ELSE [bundle |-> bundle.sha, revision |-> ProfileOf(bundle).revision, contract |-> ServingContract(ProfileOf(bundle))]

\* A lineage counts only under the contract it was measured under.
LineageHolds(bundle) ==
    /\ SourceIdentity(bundle).revision <= ProfileOf(bundle).revision
    /\ SourceIdentity(bundle).contract = ServingContract(ProfileOf(bundle))

\* What a benchmark run writes of a bundle it measured, complete or cut short.  A run over a
\* corpus of its own was registered for the capability before it started.
External == {[external |-> TRUE]}
Measured(bundle, status, own) ==
    LET profile == ProfileOf(bundle) IN
    [bundle |-> bundle.sha, id |-> profile.id, revision |-> profile.revision,
     artifact |-> profile.bindings.artifact, status |-> status,
     corpus |-> IF own THEN External ELSE profile.evidence.mapping,
     registered |-> IF own THEN [revision |-> profile.revision, artifact |-> profile.bindings.artifact,
                                 core |-> profile.bindings.core] ELSE Absent]

\* validate_external_benchmark: the registration names the revision measured and the runtime at hand.
RegisteredFor(results, bundle) ==
    /\ results.registered # Absent
    /\ results.registered = [revision |-> SourceIdentity(bundle).revision,
                             artifact |-> ProfileOf(bundle).bindings.artifact, core |-> ProfileOf(bundle).bindings.core]

\* validate_model_results
ResultsVerify(results, bundle) ==
    LET profile == ProfileOf(bundle) source == SourceIdentity(bundle) IN
    /\ results.status = "complete"
    /\ Verifies(bundle) /\ LineageHolds(bundle)
    /\ results.bundle = source.bundle /\ results.revision = source.revision /\ results.id = profile.id
    /\ profile.bindings.artifact # Absent /\ results.artifact = profile.bindings.artifact
    /\ results.corpus # profile.evidence.mapping => RegisteredFor(results, bundle)

EvidenceIndex(results, bundle) ==
    [source |-> SourceIdentity(bundle), parent |-> bundle.sha, artifact |-> results.artifact, corpus |-> results.corpus]

\* A slip: the contract of the surface keeps the revision it was issued for.
AttachedWithOldContract(bundle, index, revision) ==
    LET profile == [ProfileOf(bundle) EXCEPT !.revision = revision, !.evidence.results = Append(@, index)]
    IN File("profile.json", profile) ++ bundle.files
AttachedFiles(bundle, index, revision) ==
    LET contract == SurfaceContract([ProfileOf(bundle) EXCEPT !.revision = revision], CatalogOf(bundle), bundle.files)
        profile == [ProfileOf(bundle) EXCEPT !.revision = revision, !.bindings.contract = contract,
                                             !.evidence.results = Append(@, index)]
    IN File("surface-contract.json", contract) ++ File("profile.json", profile) ++ bundle.files

Attach(p, bundle, results, revision, out) ==
    LET index == EvidenceIndex(results, bundle) IN
    /\ ResultsVerify(results, bundle) /\ revision > ProfileOf(bundle).revision
    /\ \A i \in DOMAIN ProfileOf(bundle).evidence.results : ProfileOf(bundle).evidence.results[i] # index
    /\ Start(p, out, Alone(Bundle(
           Append(bundle.sha, [evidence |-> index, revision |-> revision]),
           AttachedFiles(bundle, index, revision),
           [bundle.manifest EXCEPT !.lineage = <<SourceIdentity(bundle)>>])))

(***************************************************************************)
(* Publish                                                                 *)
(***************************************************************************)
\* A rename onto a directory that appeared meanwhile fails.
Rename(p) ==
    /\ job[p].pc = "rename"
    /\ dirs' = IF dirs[job[p].out] = Absent THEN [dirs EXCEPT ![job[p].out] = job[p].content] ELSE dirs
    /\ Exit(p) /\ UNCHANGED <<checkout, started>>

(***************************************************************************)
(* Serve: the adapter loads a bundle, asks once, and checks the reply.     *)
(***************************************************************************)
Ask(p, bundle, lane, policy) ==
    /\ IF lane = "eval" THEN ServesEval(bundle, policy) ELSE ServesCalc(bundle, policy)
    /\ Run(p, [pc |-> "ask", lane |-> lane, bundle |-> bundle])

\* A call that the checks accept is forwarded to the core; any other ends the command.
Receive(p, reply) ==
    /\ job[p].pc = "ask"
    /\ IF IF job[p].lane = "eval" THEN EvalCallOK(job[p].bundle, reply) ELSE CalcCallOK(reply)
       THEN job' = [job EXCEPT ![p] = [pc |-> "forward", bundle |-> job[p].bundle, reply |-> reply]]
       ELSE Exit(p)
    /\ UNCHANGED <<checkout, dirs, started>>

Forward(p) == job[p].pc = "forward" /\ Exit(p) /\ UNCHANGED <<checkout, dirs, started>>

Crash(p) == job[p].pc # "idle" /\ Exit(p) /\ UNCHANGED <<checkout, dirs, started>>

MoveTree(to) == checkout # to /\ checkout' = to /\ UNCHANGED <<dirs, job, started>>

(***************************************************************************)
(* What the commands leave of a bundle, whatever made it.                  *)
(***************************************************************************)
Step(bundle) == bundle.sha[Len(bundle.sha)]
RuntimeOf(bundle) == ProfileOf(bundle).bindings.artifact
EvidenceOf(bundle) == ProfileOf(bundle).evidence.results
Operations == UNION {DOMAIN Reviewed[c] : c \in Checkouts}
Definitions == UNION {{Reviewed[c][key] : key \in DOMAIN Reviewed[c]} : c \in Checkouts}

SourceFields == {"id", "revision", "domain", "families", "ops", "calc", "tools", "steps", "bytes",
                 "specialization", "target", "artifactBytes"}
BindingFields == {"tools", "grammars", "prompts", "core", "hotset", "contract", "artifact"}
Complete(bundle) ==
    /\ {"profile.json", "catalog.json", "surface-contract.json", "task-map.json"} \subseteq DOMAIN bundle.files
    /\ DOMAIN bundle.manifest = {"measurements", "operations", "lineage", "provenance", "artifactBytes"}
    /\ DOMAIN ProfileOf(bundle) = SourceFields \cup {"bindings", "evidence"}
    /\ DOMAIN ProfileOf(bundle).bindings = BindingFields
    /\ DOMAIN ProfileOf(bundle).evidence = {"suite", "mapping", "results"}
    /\ Len(bundle.sha) \in Nat \ {0} /\ DOMAIN bundle.sha = 1 .. Len(bundle.sha)
    /\ Len(EvidenceOf(bundle)) \in Nat /\ DOMAIN EvidenceOf(bundle) = 1 .. Len(EvidenceOf(bundle))

\* The digest names the revision, and the catalog holds the definitions of the sources the profile names.
Identified(bundle) ==
    /\ ProfileOf(bundle).revision \in Nat
    /\ ProfileOf(bundle).revision =
          IF "compiled" \in DOMAIN Step(bundle) THEN Step(bundle).compiled.revision ELSE Step(bundle).revision
    /\ \A key \in ProfileOf(bundle).ops :
          /\ CatalogOf(bundle)[key] \in Definitions
          /\ CatalogOf(bundle)[key] = Reviewed[ProfileOf(bundle).bindings.core][key]
    /\ ProfileOf(bundle).ops \subseteq Operations
    /\ ProfileOf(bundle).calc \in BOOLEAN

\* The runtime answers the gold rows bound with it, which cover every operation; a build record
\* names the sources of the profile and a runtime with the plan lane, where the profile has it.
Serviceable(bundle) ==
    RuntimeOf(bundle) # Absent =>
        /\ Covered(ProfileOf(bundle).evidence.mapping) = ProfileOf(bundle).ops
        /\ \A row \in ProfileOf(bundle).evidence.mapping : Answers(RuntimeOf(bundle), row)
        /\ bundle.manifest.provenance # Absent =>
               /\ bundle.manifest.provenance.source = ProfileOf(bundle).bindings.core
               /\ ProfileOf(bundle).calc => RuntimeOf(bundle).calc

\* All evidence has one source, the lineage, and was measured with its runtime; the lineage is
\* still the contract that is served when evidence was the last thing that was added.
Attested(bundle) ==
    LET lineage == bundle.manifest.lineage IN
    /\ lineage = <<>> => EvidenceOf(bundle) = <<>>
    /\ \A i \in DOMAIN EvidenceOf(bundle) :
          /\ EvidenceOf(bundle)[i].source = lineage[1]
          /\ EvidenceOf(bundle)[i].artifact = lineage[1].contract.bindings.artifact
    /\ "evidence" \in DOMAIN Step(bundle) =>
          lineage # <<>> /\ lineage[1].contract = ServingContract(ProfileOf(bundle))

Made(bundle) ==
    Complete(bundle) /\ Verifies(bundle) /\ Identified(bundle) /\ Serviceable(bundle) /\ Attested(bundle)

\* Requests have their fields, revisions are numbers, Absent is no artifact, what was there
\* before was made by these commands, and a plan that parses has operands of one kind.
ASSUME RequestAssumption ==
    /\ \A source \in Sources : /\ DOMAIN source = SourceFields
                                /\ source.domain \in DOMAIN Families
                                /\ source.revision \in Nat /\ source.calc \in BOOLEAN
    /\ Increments \subseteq Nat
    /\ \A definition \in Definitions : RevisionOf[definition] \in Nat
ASSUME ArtifactAssumption ==
    /\ Absent \notin PrebuiltArtifacts
    /\ Absent \notin [source : Checkouts, ops : SUBSET Operations, calc : BOOLEAN,
                      bytes : {1 + Cardinality(ops) : ops \in SUBSET Operations}]
ASSUME EarlierAssumption == \A left \in Earlier : \A d \in DOMAIN left : Made(left[d])
ASSUME ReplyAssumption ==
    \A reply \in Replies : reply.tool = "xs_calc" =>
        reply.plan \in Seq([o : STRING, a : Seq([lit : Literals] \cup [ref : Nat])])

Init ==
    /\ checkout \in Checkouts
    /\ \E left \in Earlier : dirs = [d \in Dirs |-> IF d \in DOMAIN left THEN Alone(left[d]) ELSE Absent]
    /\ job = [p \in Procs |-> Idle] /\ started = 0

\* A process that is free starts any command on what is there.
Command(p, out) ==
    \/ \E source \in Sources, packc \in Checkouts :
           Compile(p, source, packc, out) \/ CompileCandidates(p, source, packc, out)
    \/ \E bundle \in Bundles :
           \/ \E corpus \in Corpora : StartBuild(p, bundle, corpus, out)
           \/ \E artifact \in PrebuiltArtifacts, corpus \in Corpora, core \in Checkouts, by \in Increments :
                  Bind(p, bundle, artifact, corpus, core, ProfileOf(bundle).revision + by, Absent, out)
           \/ \E build \in Builds, core \in Checkouts, by \in Increments :
                  Bind(p, bundle, build.artifact, build.corpus, core, ProfileOf(bundle).revision + by,
                       build.provenance, out)
           \/ \E measured \in Bundles, status \in {"complete", "partial"}, own \in BOOLEAN, by \in Increments :
                  Attach(p, bundle, Measured(measured, status, own), ProfileOf(bundle).revision + by, out)
           \/ \E lane \in {"eval", "calc"}, policy \in Policies : Ask(p, bundle, lane, policy)

Next ==
    \/ \E p \in Procs :
           \/ Ready(p) /\ \E out \in NewDirs : Command(p, out)
           \/ Cargo(p) \/ Record(p) \/ Rename(p) \/ Forward(p) \/ Crash(p)
           \/ \E reply \in Replies : Receive(p, reply)
    \/ \E to \in Checkouts : MoveTree(to)

Spec == Init /\ [][Next]_vars

(***************************************************************************)
(* Properties                                                              *)
(***************************************************************************)
\* Whatever sequence of commands made a bundle, the files in it agree: the next command,
\* and every host, accepts it (verify_bundle after compile, bind and attach).
EveryBundleVerifies == \A bundle \in Bundles : Verifies(bundle)

\* A bundle that attach publishes carries only evidence measured with its own runtime
\* under the serving contract it has, however many bindings and attachments came before.
AttachedEvidenceMatches ==
    \A bundle \in Bundles : "evidence" \in DOMAIN Step(bundle) =>
        \A i \in DOMAIN EvidenceOf(bundle) :
            /\ EvidenceOf(bundle)[i].artifact = RuntimeOf(bundle)
            /\ EvidenceOf(bundle)[i].source.contract = ServingContract(ProfileOf(bundle))

\* Through every chain of builds, bindings and attachments, the runtime of a bundle answers the gold of every
\* operation the bundle offers to a model, as its mapping has it; and one bound with its build record has the
\* plan lane its profile enables and a record that names the profile's sources, although the tree moves between
\* the check, the compilation and the record (build_capability_wasm.py:64, 207, 256; bind_capability.py:38-72).
\* Whether cargo read those very sources is not said: a tree that moves and comes back in between is not noticed.
BoundRuntimeServes == \A bundle \in Bundles : Serviceable(bundle)

\* Two transparent upgrades in a row are one: a host that follows them step by step ends
\* with an upgrade of where it began (check_operation_revision_compat).
UpgradesCompose ==
    \A a, b \in Bundles, allow \in BOOLEAN : TransparentUpgrade(a, b, allow) =>
        \A c \in Bundles : TransparentUpgrade(b, c, allow) => TransparentUpgrade(a, c, allow)

\* A call that is forwarded fits what is to serve it.  An operation is one the bundle offers, with the number,
\* the shapes and the exactness of arguments that the reviewed sources named by the profile give it, no more
\* decimals than the wire takes, and in the runtime, if one is bound.  A plan is one the bundle's own grammar
\* admits, base or position-aware, each reference names an earlier step, and a runtime bound with its build
\* record has the plan lane; one bound without a record need not.
ForwardedCallsAreServable ==
    \A p \in Procs : job[p].pc = "forward" =>
        LET reply == job[p].reply bundle == job[p].bundle IN
        IF reply.tool = "xs_calc"
        THEN /\ GrammarAdmitsPlan(bundle.files["xs-calc.gbnf"], reply.plan)
             /\ \A i \in DOMAIN reply.plan : \A j \in DOMAIN reply.plan[i].a :
                    "ref" \in DOMAIN reply.plan[i].a[j] => reply.plan[i].a[j].ref < i - 1
             /\ RuntimeOf(bundle) # Absent /\ bundle.manifest.provenance # Absent => RuntimeOf(bundle).calc
        ELSE /\ reply.op \in ProfileOf(bundle).ops
             /\ LET shapes == ArgsOf[Reviewed[ProfileOf(bundle).bindings.core][reply.op]] IN
                /\ Len(reply.args) = Len(shapes)
                /\ \A i \in DOMAIN shapes : reply.args[i].shape = shapes[i] /\ reply.args[i].exact
             /\ Decimals(reply.args) <= MaxDecimals
             /\ RuntimeOf(bundle) # Absent => reply.op \in RuntimeOf(bundle).ops
=============================================================================
