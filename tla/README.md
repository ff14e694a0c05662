# A verification project for ExactScope

TLA+ models of the parts of ExactScope that keep state or decide under failure,
the TLC runs that check them on small instances, and theorems that the TLAPS
proof system checks for every instance. `PROJECT.json` maps each definition to
the source lines it stands for; paths below are relative to `src/`.

To check one run: `tlc -workers 2 -config <cfg> <MC module>`. To check the
proofs: `tlapm <X>_proofs.tla`.

## 1. What the system consists of

ExactScope evaluates small numeric and grounding capabilities for a host that
embeds it, and comes with offline Python commands that compile, calibrate and
bind what the host will use. There is no server and no thread of its own: every
part is called by a host and answers. What is hard is therefore not locks but
*sequences*: calls in any order, callbacks that fail half-way, power that goes
away, a world that changes between two calls, two hand-written passes that must
agree. The offline commands do share directories and a cache, so there commands
of several processes interleave, and any of them may die half-way.

| component | state it keeps | operations | talks to | what is hard |
|---|---|---|---|---|
| wearable A/B journal (`adapters/wearable/exactscope_wearable_ab.c`) | two 96-byte record copies on the device, the caller's RAM state | recover, bootstrap, candidate slot, commit, accept, rollback | the product's read / write / flush callbacks | power loss and errors between callbacks, torn records, stale callers |
| update sequence (`adapters/wearable/AB_UPDATE.md`, `tests/wearable/ab_update_test.c`) | two image slots, the updater's decision | stage, validate, commit, accept, roll back, recover | the journal | images and journal must never disagree; the device must come back |
| reference host (`adapters/wearable/exactscope_wearable_ref.c`) | its table of slots, lengths, counts; its mode | init, mount, unmount, finish, reset, lookup, find, eval | one C ABI context | a table kept beside the context's own; handles that outlive mounts |
| C ABI context (`crates/exactscope-cabi`) | flags, frozen bit, dynamic slots | init, reset, mount, unmount, freeze, lookup, eval | packs, the kernel | keys that must stay unambiguous under every order of mounts |
| formula VM (`crates/exactscope-kernel/src/vm.rs`, `evaluate.rs`, `exactscope-pack/src/dynamic.rs`) | a stack and value flags during a call | parse, validate, execute, classify, answer | packs, the caller's arguments | validator and executor are separate tables; rounding marks must survive |
| exact plan, rational and decimal arithmetic | none | checked arithmetic, rounding, plan steps | evaluate | overflow at the width, ties, zero |
| statistics and economics kernels | none | fixed formulas | evaluate | numeric edges |
| scope packs: fused registries, recall | none (borrowed bytes) | lookup, discovery, recall | context | bounded top-k with ties |
| native grounding index | none (borrowed bytes) | search | C ABI | bounded top-k with ties |
| WebAssembly boundary | request and response regions | the exported calls | the kernel | overlapping regions, lengths |
| qualified execution (`tools/qualified_execution.py`) | none; artifacts are passed in | compile, attest, make profile, plan requalification, admit, finalize | trusted host, qualification authority | everything can drift between two calls |
| grounding runtime and engine (`tools/grounding_runtime.py`, `grounding_engine.py`) | a session: loaded profile, prepared amplifier, caches | route, retrieve, build frame, decide who answers | providers, the model | failures that look like "nothing found", conflicting evidence |
| harness distillation (`tools/harness_distillation.py`, `exactscope_calibrate.py`, `adapters/bridge/compiled_profile.py`) | bundle directories; a bound profile | compile, qualify, verify; prepare and plan on the bridge | the host's qualification, the file system | measuring few policies to choose among all, two commands at one output, a host that drifts after the profile was made |
| evidence search, projections, context fit (`tools/grounding_corpus.py`, `grounding_projection*.py`, `adapters/bridge/ranked_hits.py`, `context_fit.py`) | a compiled index; a negotiation | build and search an index, shape hits, offer tiers | the corpus or the host's ranking, the host's measuring callback | byte counts kept beside the bytes, evidence dropped as a duplicate, a callback that contradicts itself |
| answer contracts, capability records, model adapters (`tools/grounding_answer_contract.py`, `grounding_v1_surface.py`, `adapters/llama-cpp`, `openai-compatible`, `ort-genai`, `litert-lm`) | the capability cache, one file per model and policy | calibrate, load, plan, answer | a model server, the grounding engine | a proof with as few requests as possible, racing and dying writers, a policy replaced under a command |
| capability bundles, tool-call adapters (`tools/compile_capability*.py`, `build_capability_wasm.py`, `bind_capability.py`, `attach_model_evidence.py`, `check_*.py`, `adapters/llama-cpp/direct_eval_smoke.py`, `calc_plan_smoke.py`) | bundle, candidate and build directories | compile, build, bind, attach, check an upgrade, serve a call | the source tree, cargo, a model server | evidence that survives a rebinding, a tree that moves, compatibility step by step |
| delivery record, runtime identity, host probes (`adapters/bridge`) | none | describe what was delivered or installed | hosts | none that a state model shows |
| tiny JSON adapter, pack and hotset compilers, conformance, packaging, benchmarks | files | one pass each | file system | none that a state model shows |

What makes each modelled component correct:

* **Journal.** It is one atomic register: an activation happens whole or not at
  all, generations go up by one, and what a caller is told is the latest
  durable activation.
* **Update sequence.** The slot named active holds the complete image named,
  whatever fails; the image a rollback returns to is intact while the release
  is provisional; a provisioned device gets back to a host that knows its state.
* **Host and context.** The host's table equals the context's; a key means one
  operation; a handle answers with its own operation until the host starts over.
* **Formula pipeline.** What was mounted never runs into the machine's own
  checks; the declared depth suffices; a rounded value is never answered as
  exact; a required class is decided exactly or not at all.
* **Qualified execution.** A profile that can be admitted rests on evidence
  about the host as it is; an output is released only for the request, the host
  and the windows it was admitted under.
* **Grounding.** "none" is proven absence; a grounded target rests on all its
  evidence; the order of answers decides nothing; a model that is asked with the
  evidence sees, of an authoritative target, what all its required sources agree
  on, or no content and the state that says why; without the evidence it is
  asked about supplemental targets alone.
* **Distillation.** A bundle that exists is complete and final; no policy of the
  whole catalog dominates the one it selects, although not all were measured;
  only what also holds on the held-out items is marked for deployment; the host
  is asked only for what it was qualified for.
* **Evidence.** The search through postings ranks as a scan would; a frame is as
  long as it was counted; no text that adds a queried term is dropped as a
  mirror; a projection is empty only when no row it tries fits; what is
  delivered the host accepted, and where it reported its numbers, they agree.
* **Model adapters.** A record holds what the full calibration would have
  selected; a llama.cpp command uses the contract and surface its caller named,
  or those of a record made for its model and the policy in its prompt; an
  answer meets its contract after at most one request; the surface never forbids
  an accepted answer.
* **Capabilities.** Every bundle passes its own verification; attached evidence
  and bound runtimes belong to the bundle; upgrades compose; a call an adapter
  forwards fits the operation, or the grammar, and the runtime that is to serve
  it.

## 2. Modules

```
ABRecord ------ ABJournal ------ ABUpdate          ABActivation  (abstract register)
                    |  \____________________________/ refines
XsContext ----- WearableHost -- refines -- PackService (abstract service)
ScalarVM ------ FormulaPipeline
ExecutionArtifacts -- QualifiedExecution
GroundingFrame ------ GroundingDelivery
HarnessDistillation ------ DistillationBundles
EvidenceProjection ------ LegacyProjections ------ EvidenceDelivery
AnswerContract, CapabilityPreflight ------ CapabilityCache
CapabilityCompiler ------ ToolCalls ------ CapabilityBundles
```

The first module of a line holds the data and the pure decisions, the second
the state machine. `MC*` modules hold the small instances, `*_proofs` modules
the theorems.

**ABRecord, ABJournal.** `durable` and `staged` are what the callbacks see;
`pc`, `op`, `arg`, `seen`, `next` are the locals of the C call, `ram` the
caller's `xsw_ab_state_v1`. There is one action per callback (`ReadFirst`,
`ReadSecond`, `Write`, `Flush`, `Reread`); the computation that follows a
callback in the C function belongs to its action, so anything may happen between
two callbacks and nothing inside. A copy is a record, blank, torn or a read
fault: those are all the code distinguishes. `Land` is a write-back device that
makes a staged copy durable early, `Crash` loses RAM and tears or drops what is
staged, `RotOlder` decays the copy that is not selected. CRC-32 is taken to
detect every torn record. `Begin` and `Refuse` split on the same `Admission`.

**ABActivation** is the promise: a register with provision, activate, accept and
roll back. `ImplementsRegister` is the refinement, under `Latest`, the record a
recovery would select at this instant.

**ABUpdate** adds the image slots, the updater's place in the documented
sequence (`job`) and whether its RAM state may still be used (`trusted`). A
failed call makes it untrusted: AB_UPDATE.md:71 says that the caller must
recover before it decides again.

**XsContext** makes a context a value and its calls operators;
**WearableHost** is the C host around one context, with the handles a product
keeps (`held`) as the observer. Refused calls change nothing and stutter.
**PackService** is the promise to the product.

**ScalarVM** has the two opcode tables side by side: the validator's
(`ValidatorStatus`, `TypesAfter`) and the executor's (`ExecutorPops`,
`ExecutorStatus`). They are separate in vm.rs and separate here; that they agree
is proved, not assumed. A number is its *grade*, exact or quantized.
**FormulaPipeline** runs them one instruction per step: parse, mount, then any
number of calls, each of which validates again and executes formula and
predicates. `typing` is a history variable: what the parse knew before each
instruction.

**ExecutionArtifacts** is what the validators, the compiler and the planner say
of artifacts. An artifact stands for its digest; lists with unique ids are
functions; the order of a manifest's lists is one field, `order`, on which only
the identity depends. **QualifiedExecution** is the life around them. The Python
functions keep no state, so the trusted host's clock, manifest, observations and
retained receipts are the state, and the qualification authority is external: it
may attest anything, but carries evidence over only where the planner says so.

**GroundingFrame** is the evidence policy (`build_frame`) and the decisions a
host takes from a frame; **GroundingDelivery** is a session of requests. An
outcome is modelled whole, with malformed, repeated, lost and late ones.
`run_grounding_frame` asks one provider for each binding in turn; `build_frame`
and the provider protocol are public and take a list, so the model lets outcomes
arrive in any order. Text matching is a choice of which indexed items match.

**HarnessDistillation** is the compiler as operators: the catalog of policies
for a host, the cells that must be executed, the gates, the Pareto selection
(`Frontier`, `Finalists`, `Selected`), the profile and the transfer report. A
file of observations is a function from any set of places to rows, because
nothing depends on their order; a sum is the number of its units (`Total`), so
that it needs no recursion; latencies, floats in the code, are numbers here.
`Catalog` and `Executed` are separate, as in the code: of the 21 policies only
those the host can run are measured, and the controls that one of those is
compared with. **DistillationBundles** runs `compile` and `qualify` in several
processes over one set of output directories. `job` is where a command is:
*check* whether the output exists, *stage* beside it, *publish* by renaming,
*verify*. A directory is a function from file names to contents and a digest is
the value it names. A command reads a whole published bundle in one step;
`PublishedNeverChanges` justifies that. `world` fixes what each policy would do
on each item, `host` is the host's qualification, which may drift, and `service`
is the bridge: `Prepare` binds a profile, `Plan` derives the hints of one
request.

**EvidenceProjection** and **LegacyProjections** are the index, its search, its
binary form and each projection that turns ranked hits into at most `max_bytes`.
A document is its title terms and its sentences; text is a size and a set of
terms, a score an integer. The projections keep a running byte count where the
code does (`size`), so that it can be compared with the length of the frame. A
loop of the code is a function `run` on the rounds so far, with its body as a
named step (`ProjectStep`, `CoverageStep`, `Expand`, `HybridStep`,
`CompactStep`, `ContextStep`, `LegacyStep`); a sort is `Ranked`, which puts each
element at the number of those before it; a score is `SumFunction` over the
terms. Nothing is recursive, so all of it can be proved about.
**EvidenceDelivery** is one question: hits come from the index (`SearchCorpus`)
or the host (`HostRanks`), one projection shapes them, or the tiers are offered
one by one to a host whose free context (`room`) changes between measurements.
There are two negotiations (`fit.api`): `precision_ranked_evidence_fit_v1` asks
for a bool and believes it (`flag`), `select_fitting_delivery` asks for a report
(`report`) whose numbers are optional, and compares them only where both the
count and the capacity are there (`Believable`). The callback may raise or
contradict its own numbers (`Measure`, `MeasureFails`).

**AnswerContract** compiles a typed answer contract, says what each of the two
constrained surfaces lets a model write (`Constrained`), and reads what it wrote
(`Parse`). These are three separate passages of the code. **CapabilityPreflight**
is the staged calibration and the proof its record carries. **CapabilityCache**
runs the commands of four adapters over one cache. A llama.cpp command takes
contract and surface from one of three places (`Resolve`, `options`): a contract
its caller names needs no record, a record its caller names needs no cache, and
without either it loads the file of its model and policy (`Load`), or calibrates
and creates it (`ProbeSurface`, `CalibrateContract`, `Create`, `Write`). The
command `calibrate` writes a record to an output file. Then all of them plan,
ask at most once and deliver: the ORT bridge prints a generation its contract
refuses as it is, with no reply (`GenerateOrt`), the LiteRT bridge hands every
generation back for the host to finalize (`GenerateLiteRt`). A file is created
and written in two steps, so a crash leaves an empty one (`Partial`), and the
policy may be replaced at any moment. Whether the engine answers itself or asks
the model is left open.

**CapabilityCompiler** turns a request into a profile and a bundle of files, and
reads a bundle back (`Verifies`) from its files only; `TransparentUpgrade` and
`AcceptedBy` compare bundles. **ToolCalls** is what the two tool-call adapters
accept and what the grammar in the bundle admits, again as separate operators.
**CapabilityBundles** is the life of bundles in one tree. A digest is the value
it names; the digest of a bundle is its lineage `sha`, the sequence of commands
that made it, which determines every byte. A refused command leaves nothing and
is not a step. A command reads the tree at one moment, except the builder: it
validates the profile (`StartBuild`), compiles the tree and checks the artifact
against the rows (`Cargo`), and names the tree in its record (`Record`). The
tree may move between these three, and move back. The record of an artifact
compiled from another tree then names the one the profile does; what binding can
rely on is that the artifact answers the gold rows (`BoundRuntimeServes`).

## 3. Runs

| run | asks | shows |
|---|---|---|
| `journal_serial` | is the journal one atomic register? | yes, with power loss, errors and torn records at every point, for hosts that do not overlap their calls |
| `journal_lone_read_fault` (violation) | is a returned state the latest when one copy's read fails? | no: recover returns the older activation with status OK |
| `update_sequence` | can a fault make a partial image active, damage the retained one, or brick the device? | no, if errors settle |
| `host_install` | does the host's table ever contradict the context, or a handle change its meaning? | no, for ten packs in every order |
| `formula_programs` | do validator and executor agree, and is rounding never lost? | yes |
| `execution_drift` | can drift between any two calls release what was not qualified? | no |
| `grounding_requests` | can a failure pass for absence, a part of the evidence for all of it, or the order of answers decide? | no |
| `grounding_precedence` (violation) | is a contradiction reported ahead of missing coverage? | no: `unavailable` hides it |
| `distillation_bundles` | can a crash, a race at one output or a misleading calibration publish or deploy something it should not? | no |
| `evidence_delivery` | is evidence ranked, counted, kept and fitted as promised, through every projection? | yes, for the projections named in the properties; section 5 for the others |
| `capability_cache` | can a race, a crash, a named record or a replaced policy make a record or an answer untrue, or a constraint forbid an answer that counts? | no |
| `capability_bundles` | can any order of commands publish a bundle that contradicts itself, its evidence or its runtime, or an adapter forward a call that does not fit? | no |

### Bounds, and why they are enough

* `journal_serial`: two hosts (one can be stale while the other acts), two
  images (an activation and a different one), generation 5 (bootstrap, a commit
  with its accept or rollback, another commit, and the limit that stands for
  `UINT64_MAX`), three faults (one during an update, one during the recovery
  from it, one more). Hosts and images are interchangeable, so symmetry is
  used; the properties of this run are all safety.
* `update_sequence`: one updater, three images (active, retained, staged),
  generation 7, four faults. No symmetry, because liveness is checked.
* `host_install`: `max_packs` 6 instead of the shipped 4, because with 4 only
  two packs fit and the byte budget (6) could never bind. The ten packs contain
  each kind of refusal: an update under the same identity, a rival for a key, a
  shadow of a fused key, too long, too wide, broken, reserved.
* `formula_programs`: every program of up to three instructions before its end,
  out of each kind of instruction and of each kind of bad operand; two longer
  programs (a branch with a square root; one that fills the stack of 3) with
  every single instruction replaced, dropped or doubled; two predicates with
  every pairing of ids and priorities. `MaxClasses` is 2 so that the limit is
  passed. The theorems remove the bounds.
* `execution_drift`: seven manifests, one for each way the planner tells drifts
  apart (identity, assurance, behaviour, expiry, order, surface, none), three
  source policies (fine, too many calls, a check the host does not have), three
  measurements (honest, dishonest, failed), two time instants, two requests. One
  receipt at a time: receipts do not influence one another. The two evidence
  snapshots are interchangeable.
* `grounding_requests`: a target with two sources and one with one, three
  profiles (all required; one optional and the ambiguity rule; narrow limits),
  three collected outcomes: both sources and a repeat, or both targets. The tip
  has two texts in one source, so a supplemental target can be grounded on
  several items or go over its limits.
  Order is checked by swapping neighbours in every reachable list; swaps
  generate all permutations.
* `distillation_bundles`: two processes and three commands (a compile, a
  qualification of it, and one that meets either at its output), one drift, two
  hosts (everything qualified, nothing qualified), two objectives (no
  regression; one allowed with slack), two calibration items and one held-out.
  Compile and qualify share the output `c`, so that a qualification can find a
  compile bundle there. The five worlds are those in which the selection is
  delicate: a cheap policy that is harmful only on held-out items, totals that
  hide a regression, a policy whose prefix reuse changes an answer, one whose
  reuse does not. Each input may lack a required row (`missing`).
* `evidence_delivery`: three corpora out of six documents (a mirror, a shared
  sentence, a text whose first sentence answers, one too long for any budget,
  one that only its title matches), seven host-ranked pools (one of them a text
  whose first sentence answers and whose second is long), four queries, top-k 1
  to 3, budgets of 7, 12 and 20 bytes (nothing, one row, several), item limits 1
  and 3, rooms and reserves on both sides of every tier, each number of a report
  there or not.
* `capability_cache`: two processes, three commands (two that race for a file
  and one that loads it), one model key, two policies, five abilities (each
  surface first, both contracts tied, none solved, nothing supported), one
  output file of `calibrate`, five ways to name a contract, a surface and a
  record: nothing, a contract alone, a contract and a surface with a record that
  does not count, the output file, a file of the cache that may be another
  policy's. Six sets of arguments, thirteen contents of a reply out of ten
  values, one for each class the reader tells apart. Commands meet in the files
  and nowhere else, so a command with arguments of its own, or a reply other
  than the plain one, runs while the other process is idle (the constraint
  `Apart`). Keys of different models never meet in the code, so one is enough.
* `capability_bundles`: three commands of two processes after a start that is
  empty or holds a compiled bundle and its binding; five directories (what three
  commands can write besides those two); two source trees that differ in the
  revision of one operation; six requests, two of them plan profiles at the
  revisions that get the base grammar and the position-aware one; two prebuilt
  artifacts of different coverage, four gold corpora (one empty), two host
  policies, and eleven replies, one for each refusal and each limit.

The processes of `distillation_bundles`, `capability_cache` and
`capability_bundles` are interchangeable and the properties are safety, so
symmetry is used there.

### Fairness

Only `ServiceRestored` needs any. `UpdateFairness` has weak fairness of
`RecoverState` (the caller must recover after an error, AB_UPDATE.md:71; a device
that never does is not running this code) and of `Proceeding` (a storage callback
returns). Nothing else is fair: no updater has to stage, commit or accept. Faults
are bounded by `MaxFaults`; without a bound on faults no journal serves.

### Deadlock

Checked for the journal, the update sequence, the host, qualified execution and
grounding requests: there some call is always possible. Not checked where the
system may really stop: a refused pack ends a formula run, a delivery ends a
question of `evidence_delivery`, and the offline commands of the other three
runs end (their number is bounded by `MaxJobs` or `MaxCommands`).

## 4. Theorems

All are for every value of the constants, under the `ASSUME`s of the modules.

* **Journal** (`WearableAB_proofs`). `TypeCorrect`
  needs no assumption on hosts or devices: generations never pass the limit. The
  others assume `Disciplined`: calls do not overlap (`Serialized`), a failed
  callback leaves nothing staged (`ErrorsSettle`), and a device fails the reads
  of both copies or of neither (`~PartialReadFaults`). The run
  `journal_lone_read_fault` shows what happens without the third; section 5 says
  what happens without the other two. The invariant `IInv` says, beyond the
  properties, what a call that is half-way knows: its first read is still good
  or was of the older copy (`ReadersAreCurrent`), a writer works from the
  selected record (`ProgressKnown`), only the call that waits for its flush has
  something staged (`StagedByFlusher`). From it follow `CopiesStayChained`,
  `WritersStayCurrent`, `JournalAdvances`, `CallersGetLatest` and the refinement
  `JournalImplementsRegister`.
* **Update sequence** (`WearableAB_proofs`, on top of the journal's). Assumed
  besides `Disciplined`: one updater (`OneUpdater`), because the decision of a
  second one would be stale once the first commits. `UpdateIInv` adds to `IInv`
  that a trusted updater's RAM state is the latest activation between calls
  (`TrustedIsLatest`), that staging happens between calls, into the slot that is
  not active, and never while a rollback is retained (`StagingIsAside`), that
  what was validated or named by a running call is in its slot
  (`NamedImagesComplete`), and that a commit writes the activation it was asked
  for (`CommitsAsAsked`). The
  lemmas follow one record through a step: a copy changes only to what a call
  was writing (`CopiesComeFromWriters`), an old copy never becomes the latest by
  itself (`OldCopyIsNotNewer`), and so the latest activation moves only where
  the updater asked it to (`LatestMoves`, `OkIsLatest`). Gives
  `SequenceInvariant`, `ActiveImageStaysComplete`, `RetainedImageStaysIntact`.
* **Host** (`WearableHost_proofs`). `HostIInv` adds that the context is frozen
  exactly when the host is; a held handle is then about slots that cannot change.
  Gives `HandlesAnswerForGood`, `KeysMeanOneOperation`, `HostTypes` (in
  particular the unsigned subtraction in `xsw_ref_mount` never wraps). The
  refinement needs more: `TableIInv` says that the host's table names each
  mounted slot in one row with its length (`Table`), that the two totals count
  the mounted packs and their bytes, and that each pack was held to the limits
  when it came (`Fits`). A pigeonhole argument gives a mount its row
  (`RowsSuffice`), an unmount finds totals that cover what it subtracts, so no
  sequence of calls reaches the host's faulted state (`HostTable`), and every
  call is a step of `PackService` or none (`HostImplementsService`). Lengths are
  added up by counting bytes (`Bytes`), because the library has theorems about
  cardinality and none about sums.
* **Pipeline** (`FormulaPipeline_proofs`). `PipelineInv`: what the parse typed
  (`typing`) is what each call's validator computes again and what the types on
  the executor's stack are. The heart is one lemma per opcode class that the two
  tables agree. Gives `MountedOperationsNeverFault`, `FormulasKeepTheirDepth`,
  `RoundingIsNeverLost`, `RequiredClassesAreExact`.
* **Qualified execution** (`QualifiedExecution_proofs`). `ExecutionInv`: the
  attestation at hand and the one in service rest on evidence that covers the
  host they name. The key lemma is that each kind of plan carries evidence only
  across changes it does not disturb, whatever the chain before it. Gives
  `EvidenceIsNeverCarriedTooFar`, `ServedProfilesPass`,
  `ReleasesFollowAdmissions`, `ExecutionTypes`.
* **Grounding** (`Grounding_proofs`, first part). `DeliveryInv`: the frame is
  the one the outcomes at hand make, and a delivery was decided on that frame.
  The lemmas below it say what a state of a target means: `Counted`,
  `CoverageOfTarget`, `NothingLeftOut` and `ApprovedIsBound`. Assumed of a
  profile: finitely many items and targets, and routes to known targets only
  (the loader rejects others). Gives `AbsenceIsProven`, `GroundingRestsOnAll`,
  `NoGuessing`, `HostAnswersAreEvidence`, `KeysNamePrompts` and, for lists of
  any length, `OrderDecidesNothing`.
* **Evidence** (`Grounding_proofs`, second part; `EvidenceSpec` has variables of
  its own). `EvidenceInv`: the index is the one built from a corpus, the hits are
  typed and no more than that corpus or a pool can yield, what is shaped is the
  projection of typed items that its kind says, within its budget (`Projected`),
  and each tier carries the length of its frame. The properties alone are not
  inductive: `CoverageIsKept` compares a result with the items it came from, and
  `SearchRanksAsScan` needs to know where the index is from. The argument has
  three layers.
  *Loops and sums.* A run of steps exists and stays in any set its steps stay in
  (`FoldExists`, `FoldStays`). The library's induction theorems take an operator
  as a parameter; these go round it by well-founded induction with the *set* of
  rounds that satisfy the claim. `SumSplit` takes one summand out of a sum and
  `SumReindex` changes what it runs over; `RankedMeaning` says that `Ranked` is
  the order asked for, once.
  *Search.* `IndexCovers` and `IndexPosts` say that a posting list holds exactly
  the documents with its term, `PostingsOfDocument` turns the postings of one
  document into its own terms, and `SearchIsScan` compares the two sums and the
  two orders.
  *Projections.* One lemma per step says that it keeps the count equal to the
  bytes and within the budget (`ProjectionCounts` and its neighbours for the other
  projections); an enlarged row stays at its place with its first sentence
  (`MultihopMeaning`); an empty result means that each item's span, its
  fallback, and its anchor unless that opens a longer text, were too long
  (`NothingFits`), also across the budgets of a sequence (`PrecisionEnds`);
  the first of several mirrors that names a term is kept (`MirrorKept`).
  Assumed, because loader and protocol refuse anything else: document ids that
  are unique and ordered, documents with at least one sentence and finitely many
  terms, nonempty pools, positive limits. The adaptive tiers are a constant of the
  code with three values; two are enough here. Scores and weights are whole
  numbers, floats in the code; which numbers they are is left open.
  Gives `EvidenceAlways`, `SearchRanks`, `AccountingIsExact`, `CoverageKept` and
  `EvidenceIsNotWithheld`. The context fit needs only `FitInv`: every tier the
  negotiation is past held nothing or was refused, and what is delivered the
  host accepted, within the capacity it reported, if it reported one and a
  count. It holds for any tiers, so nothing about the projections that
  made them is used. Gives `DeliveredEvidenceFits`.
* **Distillation** (`DistillationBundles_proofs`). Two arguments meet. The first
  is about the compiler, for any measurements: a strict order has a minimum on a
  finite set (`Minimal`, from the well-foundedness of inclusion), so a surviving
  policy leads to a frontier (`FrontierExists`: `DominatesOrders`), the frontier
  to finalists (`FinalistsExist`), these to one that is first by key
  (`SelectedExists`: keys are tuples of integers of one length that end with the
  policy's own rank). Whatever is wrong with the rest of a file, its rows about
  executed policies say what they did (`MeasuredRows`), so a compilation that
  succeeds is a function of the measurements (`CompiledFromMeasurements`), and
  what it selects is undominated in the *whole* catalog (`Distilled`): an
  eligible policy is executed, and so is its parity peer (`ExecutedFacts`). The
  second follows bundles: in `BundlesIInv` every directory and every command
  under way has a `SoundBundle`, which verifies, holds the profile calibration
  selects for its own request, and, once marked for deployment, one that
  transfers; a bound profile was checked against the host at hand. The
  properties alone are not inductive: a qualification copies the *candidate* of
  a directory and takes the manifest's word for it. Assumed, because the
  constructors and parsers refuse anything else: well-formed hosts, a nonempty
  calibration split, at most one call and no negative resources per observation,
  a slack that is not negative; and that `Flaws` names flaws of `Measured`.
  Gives `BundlesVerify`, `SelectsUndominated`, `DeploysWhatTransfers`,
  `PlansStayWithinQualification` and `BundlesAreFinal`.
* **Model adapters** (`CapabilityCache_proofs`). `IInv` says what each command
  carries: the probes and profiles so far are what this model gives
  (`ProbedSoFar`, `ProfiledSoFar`), a command that writes owns an empty file
  that no other command writes (`Writers`), a llama.cpp command that plans or
  answers holds what its caller named or what the record it was sent to says
  (`Serves`), and one that is done has an answer of its contract (`Answered`).
  The heart is that stopping early loses nothing: the first supported surface
  and a perfect preferred contract are what the full calibration selects.
  Assumed: finitely many calibration cases and at least one, values that differ
  where the code tells them apart, a text that is not blank has a character, the
  output of `calibrate` is not a file of the cache directory. Gives
  `SelectionProven`, `AnswersBound`, `ConstraintsAdmit`.
* **Capabilities** (`CapabilityBundles_proofs`). `IInv`: every bundle in a
  directory or in the hands of a command is `Made`: complete and verified; its
  digest names its revision and its catalog the definitions of the sources it
  names (`Identified`); its runtime answers its gold rows, which cover its
  operations, and a build record names those sources and a runtime with the plan
  lane it needs (`Serviceable`); and its evidence has one source, which is the
  lineage's contract with the runtime it was measured with (`Attested`). The
  last is what makes attaching after attaching and binding after attaching
  inductive; `EvidenceMatches` alone is not. One lemma per command shows that
  what it writes is `Made`. `UpgradesChain` then holds for any three bundles.
  `ForwardedServable` says of an evaluation that its arguments have the shapes,
  the exactness and the size the reviewed operation takes, and of a plan that
  the grammar admits it and each step refers to earlier ones; it needs that a
  parsed plan is well typed. Assumed: requests have their fields and numeric
  revisions, what was there before was made by these commands, an operand is a
  literal or a reference. Gives `BundlesVerify`, `EvidenceMatches`,
  `RuntimeServes`, `UpgradesChain`, `ForwardedServable`.

Some theorems state what no run lists, because it only supports the others: the
types (`HostTypes`, `ExecutionTypes`), the invariants themselves,
`HostTable`, `CopiesStayChained`, `FormulasKeepTheirDepth`, `KeysNamePrompts`.

Only model-checked: `ServiceRestored`, because liveness under fairness is out of
the prover's reach. Every other property of a passing run is a theorem. The
properties of the two runs that expect a violation are, of course, not, except
`ReturnedStateIsLatest`, which is a theorem under the assumption that its run
drops.

## 5. Where code and documents disagree

Two runs expect a violation; their quotations are in `PROJECT.json`:

1. a read error on the newest copy steps back one activation silently
   (`exactscope_wearable_ab.c:383`);
2. missing coverage hides a contradiction (`grounding_runtime.py:735`).

Met while modelling, without a run of their own. In the native parts:

* overlapping updaters can replace a newer durable activation, because the
  comparison and the write are separate (`exactscope_wearable_ab.c:507`, against
  `AB_UPDATE.md:168-174`); a record that lands after its call failed can
  activate a slot that is being staged again (`exactscope_wearable_ab.c:293`,
  against `AB_UPDATE.md:5`). The theorems assume both away;
* with the shipped limit of four, two packs fit, because fused slots count
  (`exactscope-cabi/src/lib.rs:929`, against `adapters/wearable/README.md:120-125`);
* `REQUIRE_CLASSIFICATION` is accepted and has no effect
  (`exactscope-cabi/src/lib.rs:2295`, against `CORE_ABI_V0_1.md:146`);
* the stricter instruction subset of classification programs
  (`spec/SCOPEPACK_V0_1.md:325`) is not enforced; class ids are compared between
  neighbours only (`dynamic.rs:885`, against `SCOPEPACK_V0_1.md:319`); an
  operation that does not *require* a class still classifies a rounded value
  (`spec/NUMERIC_V0_1.md:202`).

In grounding and projection:

* a repeated outcome of an optional source is dropped where the reference profile
  promises to reject it (`grounding_runtime.py:722`,
  `grounding/reference-profile-v0.1/merge.json:1`);
* an unresolved authoritative target stops the whole question, a grounded
  supplemental target included (`grounding_runtime.py:827`), although
  `GROUNDING_CONTRACT_V0_1.md:450` and D-075 confine it to its target.
  `ModelNeverGuesses` is about questions the model is asked and does not hide it;
* the fallback of the selected projection shows the last preferred sentence, not
  the anchor (`grounding_projection.py:265`, against
  `V1_1_RUNTIME_AMPLIFIER.md:159-160` and `llama-cpp/README.md:76`; the legacy
  copy shows the anchor, `grounding_projection_legacy.py:331`). It may repeat a
  sentence already shown, and nothing of a hit is delivered whose first-sentence
  anchor fits while the pair and the successor do not; `EvidenceNotWithheld`
  names this exception;
* `precision_ranked_evidence_fit_v1` and a report without numbers leave a host
  that contradicts itself unnoticed (`grounding_projection.py:551-559`,
  `context_fit.py:77`): there the host is taken at its word;
* `grounding_projection_experiments.py:46` passes the index where the weights are
  expected, against its docstring at line 35;
* `ranked_hits.py:421-480` looks snippets up by host ids it never checked for
  uniqueness, and counts truncated fragments as emitted (485-488);
* `validate_index` never compares postings with the text
  (`grounding_corpus.py:188-198`).

In the offline commands and adapters:

* D-085 asks for a policy strictly cheaper than the fixed maximum;
  `harness_distillation.py:688` takes the most successful one of the frontier;
* `bind` keeps `model_result_bundles` of the old binding
  (`bind_capability.py:162`, against D-052 at `DECISIONS.md:259`), which is why
  `AttachedEvidenceMatches` is about bundles that *attach* published; binding
  again without a build record leaves the old `build-provenance.json`; the
  artifact and the corpus are read twice from their paths;
* a build whose tree moves before cargo runs and returns before its record is
  written names a tree it was not compiled from
  (`build_capability_wasm.py:207`, 256); only the gold rows stand against it;
* a Statistics runtime bound without a build record may lack the plan lane that
  its profile enables, because the gold rows do not exercise it
  (`bind_capability.py:106`, against `CAPABILITY_PROFILE_V0_1.md:38,42`);
  `ForwardedCallsAreServable` demands the lane of recorded builds only;
* a crash between `open("xb")` and the write leaves an empty capability file that
  every later command refuses (`llama-cpp/grounding_v1.py:445-449`);
* `RUNTIME_AMPLIFIER_LANDSCAPE.md:165` says 13 calibration requests, 14 are
  possible; `adapters/llama-cpp/README.md:29` words the default differently and
  names a `calibrate-staged` that does not exist;
* the OpenAI-compatible adapter ignores answer constraints without
  `--answer-kind` (`openai-compatible/grounding_v1.py:113-117`), llama.cpp
  rejects them; the schema admits blank text and the grammar numbers out of
  range, which the reader then refuses without a retry; an integer too large for
  a float is an uncaught `OverflowError` under kind `number`.

## 6. What is not modelled

Pointer and struct-size checks, argument marshalling, telemetry formatting;
schema checks, error reasons and command lines of the Python tools; CRC, SHA-256
and canonical JSON (taken as perfect identities); tokenizing and sentence
splitting (a text is its terms and its size); JSON text; prompts and HTTP
framing; the values of numbers in the VM (only their grade). Of the offline
parts: the interaction statistics of the distillation report, the
semantic-baseline bundle of `attach`, `xs-calc.grammar-source.json`, and the
`doctor` command of the llama.cpp adapter, which only loads a record. The
conformance program of Statistics replays gold rows (`Answers`) and does not
exercise the calculator. The output of `calibrate` is taken to lie outside the
cache directory. `CapabilityCache` leaves open whether the engine answers
itself; that decision is in `GroundingFrame`. The bridges' own `main` always
uses the default answer contract; the model lets the host that embeds them pass
one. Not modelled at all: the record a delivery attaches
(`adapters/bridge/capability_record.py`), runtime identity, host probes.
Components without a module are listed in `PROJECT.json` with the reason: some
are pure input and output, the others are planned.

## 7. Plan

In this order, and by extending existing runs where a new module fits one:

1. serving: `ABUpdate` composed with two `XsContext` values, one being served
   and one candidate;
2. numerics: rational addition, rounding at ties and the square-root midpoint on
   a small width against exact fractions; the exact plan's evaluation order and
   its loop over output scales;
3. bounded top-k of recall and of the native grounding index against the sorted
   list of all hits;
4. the corpus and answer-spec caches of a grounding session;
5. the WebAssembly regions.
