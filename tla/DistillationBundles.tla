------------------------- MODULE DistillationBundles -------------------------
(***************************************************************************)
(* tools/exactscope_calibrate.py on a shared file system, and the bridge   *)
(* that executes the profile (adapters/bridge/compiled_profile.py).        *)
(* Processes compile and qualify into output directories; a directory is   *)
(* compared when it exists and otherwise staged beside and renamed.  Any   *)
(* process may die between two steps, two may share an output, and the     *)
(* host may drift between compilation and use.                             *)
(*                                                                         *)
(* A directory is a function from file names to contents, a digest is the  *)
(* content it names.  One step reads a whole compile bundle: published     *)
(* directories never change (PublishedNeverChanges).                       *)
(***************************************************************************)
EXTENDS HarnessDistillation

CONSTANTS Procs, CompilePaths, QualifyPaths, MaxJobs, MaxDrifts,
          Hosts, Objectives, Worlds, Outcome(_, _, _), Flaws,
          CalibrationItems, HeldOutItems, FixedMax, NoDir

ASSUME DirAssumption == NoDir # None

\* The constructor of a qualification refuses any other host.
ASSUME HostsAssumption == \A h \in Hosts : HostOK(h)

\* A split is a list of item ids, not empty.
ASSUME SplitAssumption ==
    /\ IsFiniteSet(CalibrationItems) /\ CalibrationItems # {}
    /\ None \notin CalibrationItems \cup HeldOutItems \cup PolicyIds

\* What may be wrong with a file of observations.
ASSUME FlawsAssumption == Flaws \subseteq {"none", "missing", "repeated", "foreign", "unknown"}

\* What an observation may say: at most one call, and no negative resources.
ASSUME OutcomeAssumption ==
    \A w \in Worlds, p \in PolicyIds, i \in CalibrationItems :
        Outcome(w, p, i).calls \in 0 .. 1 /\ \A m \in Meters : Outcome(w, p, i).used[m] \in Nat
ASSUME ObjectiveAssumption == \A objective \in Objectives : objective.slack \in Nat

VARIABLES world,    \* what the policies would do on each item
          host,     \* the host's current qualification
          dirs,     \* the output directories
          job,      \* the command each process runs
          started,  \* commands started, at most MaxJobs
          drifts,   \* changes of the host, at most MaxDrifts
          service   \* the prepared execution and the hints of its last plan
vars == <<world, host, dirs, job, started, drifts, service>>

Paths == CompilePaths \cup QualifyPaths

Manifest == "manifest.json"
ManifestDigest == "manifest-sha256.txt"
Candidate == "candidate-profile.json"
Qualified == "amplifier-profile.json"
CalibrationReport == "calibration-report.json"
HeldOutReport == "heldout-transfer.json"
Context == "compile-context.json"

-----------------------------------------------------------------------------
(* Requests. *)

\* The benchmark that measures policies on items; its file may be wrong in one of the ways the compiler refuses.
Measured(w, policies, items, flaw) ==
    LET Row(p, i) == [policy |-> p, item |-> i, seen |-> Outcome(w, p, i)]
        rows == [cell \in policies \X items |-> Row(cell[1], cell[2])]
        one == CHOOSE cell \in policies \X items : TRUE
        With(row) == [cell \in DOMAIN rows \cup {None} |-> IF cell = None THEN row ELSE rows[cell]]
    IN CASE flaw = "missing" -> [cell \in DOMAIN rows \ {one} |-> rows[cell]]
         [] flaw = "repeated" -> With(rows[one])
         [] flaw = "foreign" -> With([rows[one] EXCEPT !.item = None])
         [] flaw = "unknown" -> With([rows[one] EXCEPT !.policy = None])
         [] flaw = "none" -> rows

\* _parse_compile_request, and _context_bytes, which freezes the held-out split with the rest.
Request(objective) ==
    [host |-> host, objective |-> objective, calibration |-> CalibrationItems,
     heldOut |-> HeldOutItems, baseline |-> "Base", fixedMax |-> FixedMax]

\* _manifest, _finish_bundle
FinishBundle(stage, qualified, profileFile, files) ==
    LET manifest == [stage |-> stage, qualified |-> qualified, profileFile |-> profileFile,
                     profile |-> files[profileFile], selected |-> files[profileFile].id, files |-> files]
    IN [name \in DOMAIN files \cup {Manifest, ManifestDigest} |->
            IF name \in DOMAIN files THEN files[name] ELSE manifest]

\* build_compile_bundle
CompileBundle(request, result) ==
    FinishBundle("compile", FALSE, Candidate,
        [name \in {Candidate, CalibrationReport, Context} |->
            CASE name = Candidate -> result.profile [] name = CalibrationReport -> result.report [] OTHER -> request])

\* What a qualification adds to what it copies: the profile under its new name, and the transfer report.
QualifiedFiles(dir, name, transfer) ==
    [file \in {name, CalibrationReport, Context, HeldOutReport} |->
        IF file = name THEN dir[Candidate] ELSE IF file = HeldOutReport THEN transfer ELSE dir[file]]

\* A slip: the bundle is named for deployment whatever the transfer says.
AlwaysQualifiedBundle(dir, transfer) ==
    FinishBundle("qualification", TRUE, Qualified, QualifiedFiles(dir, Qualified, transfer))
\* build_qualification_bundle: the name of the profile file follows the verdict.
QualificationBundle(dir, transfer) ==
    LET name == IF transfer.passed THEN Qualified ELSE Candidate
    IN FinishBundle("qualification", transfer.passed, name, QualifiedFiles(dir, name, transfer))

\* verify_bundle
Verifies(dir) ==
    /\ {Manifest, ManifestDigest} \subseteq DOMAIN dir
    /\ dir[ManifestDigest] = dir[Manifest]
    /\ LET manifest == dir[Manifest] IN
       /\ DOMAIN dir = DOMAIN manifest.files \cup {Manifest, ManifestDigest}
       /\ \A name \in DOMAIN manifest.files : dir[name] = manifest.files[name]
       /\ dir[manifest.profileFile] = manifest.profile
       /\ Loads(manifest.profile, None)
       /\ manifest.profile.id = manifest.selected
       /\ manifest.stage = "compile" => ~manifest.qualified
       /\ manifest.stage = "qualification" => (manifest.qualified <=> manifest.profileFile = Qualified)

-----------------------------------------------------------------------------
(* The commands.  A command that fails exits with 1 and leaves nothing.    *)

Idle == [pc |-> "idle"]
Writing(out, payloads) == [pc |-> "check", out |-> out, payloads |-> payloads]
Exit(p) == job' = [job EXCEPT ![p] = Idle]
Goto(p, pc) == job' = [job EXCEPT ![p].pc = pc]

Start(p) == job[p].pc = "idle" /\ started < MaxJobs /\ started' = started + 1
Rest == UNCHANGED <<world, host, drifts, service>>

\* compile: parse, calibrate and build; anything raised ends the command.
Compile(p, objective, out, flaw) ==
    /\ Start(p)
    /\ LET request == Request(objective)
           policies == Executed(Catalog(host), request.baseline)
           result == CompileProfile(request, Measured(world, policies, CalibrationItems, flaw))
       IN IF result = None THEN Exit(p)
          ELSE job' = [job EXCEPT ![p] = Writing(out, CompileBundle(request, result))]
    /\ dirs' = dirs /\ Rest

\* qualify: verify the compile bundle, re-derive its catalog, score the frozen profile on the frozen split.
Qualify(p, from, out, flaw) ==
    /\ Start(p)
    /\ dirs[from] # NoDir
    /\ LET dir == dirs[from]
           context == dir[Context]
           profile == dir[Candidate]
           policies == {context.baseline, context.fixedMax, profile.id}
           transfer == TransferReport(context, profile, Measured(world, policies, HeldOutItems, flaw))
           valid == /\ Verifies(dir) /\ dir[Manifest].stage = "compile"
                    /\ Loads(profile, context.host.id) /\ profile.qualification = context.host
                    /\ HeldOutItems = context.heldOut
       IN IF valid /\ transfer # None
          THEN job' = [job EXCEPT ![p] = Writing(out, QualificationBundle(dir, transfer))]
          ELSE Exit(p)
    /\ dirs' = dirs /\ Rest

\* write_immutable_bundle: an existing directory is only ever compared.
Check(p) ==
    /\ job[p].pc = "check"
    /\ \/ dirs[job[p].out] = NoDir /\ Goto(p, "stage")
       \/ dirs[job[p].out] = job[p].payloads /\ Goto(p, "verify")
       \/ dirs[job[p].out] \notin {NoDir, job[p].payloads} /\ Exit(p)
    /\ UNCHANGED <<dirs, started>> /\ Rest

\* A slip: the payloads written into the output directory itself, the manifest not yet among them.
StageInPlace(p) ==
    /\ job[p].pc = "stage"
    /\ Goto(p, "publish")
    /\ dirs' = [dirs EXCEPT ![job[p].out] =
                   [name \in DOMAIN job[p].payloads \ {Manifest} |-> job[p].payloads[name]]]
    /\ UNCHANGED started /\ Rest
\* The payloads go to a temporary directory beside the output, which no other command reads.
Stage(p) ==
    /\ job[p].pc = "stage"
    /\ Goto(p, "publish")
    /\ UNCHANGED <<dirs, started>> /\ Rest

\* A slip: the directory another command published meanwhile is replaced.
PublishOver(p) ==
    /\ job[p].pc = "publish"
    /\ dirs' = [dirs EXCEPT ![job[p].out] = job[p].payloads] /\ Goto(p, "verify")
    /\ UNCHANGED started /\ Rest
\* rename: it fails on a directory that another command published meanwhile.
Publish(p) ==
    /\ job[p].pc = "publish"
    /\ IF dirs[job[p].out] = NoDir
       THEN dirs' = [dirs EXCEPT ![job[p].out] = job[p].payloads] /\ Goto(p, "verify")
       ELSE dirs' = dirs /\ Exit(p)
    /\ UNCHANGED started /\ Rest

\* The output is verified; the exit status says whether it did, and PublishedVerifies that it always does.
Verify(p) ==
    /\ job[p].pc = "verify"
    /\ Exit(p)
    /\ UNCHANGED <<dirs, started>> /\ Rest

\* The process dies; a staged directory is left behind under a name nothing reads.
Crash(p) ==
    /\ job[p].pc # "idle"
    /\ Exit(p)
    /\ UNCHANGED <<dirs, started>> /\ Rest

-----------------------------------------------------------------------------
(* The execution seam. *)

Drift ==
    /\ drifts < MaxDrifts
    /\ \E h \in Hosts \ {host} : host' = h
    /\ drifts' = drifts + 1
    /\ UNCHANGED <<world, dirs, job, started, service>>

NoHints == [surface |-> FALSE, gxh |-> FALSE, cache |-> "off", parity |-> FALSE, typed |-> FALSE]

\* A slip: only the host's name is compared, not what it was qualified for.
HonorsByName(profile) ==
    /\ Loads(profile, host.id)
    /\ "D" \in profile.policy.evidence
    /\ profile.policy.model # {"H"}
\* prepare_from_profile: identity first, then what this seam cannot execute.
Honors(profile) ==
    /\ Loads(profile, host.id)
    /\ profile.qualification = host
    /\ "D" \in profile.policy.evidence
    /\ profile.policy.model # {"H"}

\* The host hands over the profile of a bundle it was given, with an answer contract or a corpus index or not.
Prepare(path, contract, corpus) ==
    /\ dirs[path] # NoDir
    /\ LET profile == dirs[path][Manifest].profile IN
       /\ Honors(profile)
       /\ "G" \in profile.policy.model => contract
       /\ "I" \in profile.policy.evidence => ~corpus
       /\ service' = [profile |-> profile, host |-> host,
                      topK |-> IF "B" \in profile.policy.evidence THEN 12 ELSE 4, hints |-> NoHints]
    /\ UNCHANGED <<world, host, dirs, job, started, drifts>>

\* PreparedProfileExecution.plan: the retrieval query and the context fit given exactly when selected,
\* and hints only when the model is called; the engine decides that and the prefix's eligibility.
Plan(evidencePath, query, fit, generation, eligible) ==
    /\ service # None
    /\ LET profile == service.profile
           policy == profile.policy
           gh == generation /\ {"G", "H"} \subseteq policy.model
           cached == generation /\ eligible
       IN /\ evidencePath => /\ query <=> "A" \in policy.evidence
                             /\ fit <=> "I" \in policy.evidence
          /\ service' = [service EXCEPT !.hints =
                 [typed |-> generation /\ "G" \in policy.model,
                  surface |-> gh /\ profile.surface, gxh |-> gh /\ profile.gxh,
                  cache |-> IF cached THEN profile.cache ELSE "off", parity |-> cached /\ profile.parity]]
    /\ UNCHANGED <<world, host, dirs, job, started, drifts>>

-----------------------------------------------------------------------------
Init ==
    /\ world \in Worlds
    /\ host \in Hosts
    /\ dirs = [path \in Paths |-> NoDir]
    /\ job = [p \in Procs |-> Idle]
    /\ started = 0
    /\ drifts = 0
    /\ service = None

Next ==
    \/ \E p \in Procs :
          \/ \E objective \in Objectives, out \in CompilePaths, flaw \in Flaws : Compile(p, objective, out, flaw)
          \/ \E from \in Paths, out \in QualifyPaths, flaw \in Flaws : Qualify(p, from, out, flaw)
          \/ Check(p) \/ Stage(p) \/ Publish(p) \/ Verify(p) \/ Crash(p)
    \/ Drift
    \/ \E path \in Paths, contract, corpus \in BOOLEAN : Prepare(path, contract, corpus)
    \/ \E evidencePath, query, fit, generation, eligible \in BOOLEAN :
          Plan(evidencePath, query, fit, generation, eligible)

Spec == Init /\ [][Next]_vars

-----------------------------------------------------------------------------
(* Properties. *)

Published == {path \in Paths : dirs[path] # NoDir}
Seen(w, items) == [p \in PolicyIds |-> [i \in items |-> Outcome(w, p, i)]]

\* A policy keeps every success of the fixed maximum, and with prefix reuse its answers.
Keeps(w, context, p) ==
    LET seen == Seen(w, context.calibration)
        withoutReuse == IF p = "integrated" THEN "integrated-K-off" ELSE "K-off"
    IN /\ \A i \in context.calibration : seen[context.fixedMax][i].success => seen[p][i].success
       /\ "K" \in Catalog(context.host)[p].cost =>
              \A i \in context.calibration :
                  seen[p][i].output # None /\ seen[p][i].output = seen[withoutReuse][i].output
Undominated(w, context, selected) ==
    LET items == context.calibration
        aggregate == [p \in PolicyIds |-> Aggregate(Seen(w, items), items, p, context.baseline)]
    IN /\ Keeps(w, context, selected)
       /\ \A p \in PolicyIds :
              /\ Catalog(context.host)[p].eligible /\ Keeps(w, context, p)
              /\ HardGate(aggregate[p], aggregate[context.baseline], context.objective)
              => ~Dominates(aggregate[p], aggregate[selected])

\* Whatever processes die or meet at one output, a bundle directory that exists is complete and
\* verifies: its manifest, its payloads and its name agree (exactscope_calibrate.py, write_immutable_bundle).
PublishedVerifies == \A path \in Published : Verifies(dirs[path])

\* A published bundle is never written again, by its own command, a retry or another command.
PublishedNeverChanges == [][\A path \in Published : dirs'[path] = dirs[path]]_vars

\* The selected policy keeps every calibration success of the fixed maximum, answers with prefix reuse
\* exactly as without it, and no policy of the whole catalog that is as good dominates it, although only
\* the executed cells were measured (compile_profile against its reference definition).
SelectionIsUndominated ==
    \A path \in Published : Undominated(world, dirs[path][Context], dirs[path][Manifest].profile.id)

\* Calibration alone selects this profile, from a file without a flaw.
Calibrated(w, context) ==
    CompileProfile(context, Measured(w, Executed(Catalog(context.host), context.baseline),
                                     context.calibration, "none")).profile
\* The profile keeps every held-out success of the fixed maximum and adds no harm beyond the limits.
Transfers(w, context, p) ==
    LET seen == Seen(w, context.heldOut) IN
    /\ \A i \in context.heldOut : seen[context.fixedMax][i].success => seen[p][i].success
    /\ \A h \in Harms :
           Cardinality({i \in context.heldOut : h \in seen[p][i].harms \ seen[context.baseline][i].harms})
           <= context.objective.newHarm[h]

\* A bundle marked for deployment carries the profile that calibration alone selects, and that profile
\* keeps every held-out success of the fixed maximum within the safety limits: qualification may
\* accept or reject the frozen candidate and never reselects (build_qualification_bundle, DECISIONS D-087).
QualifiedProfileTransfers ==
    \A path \in Published : dirs[path][Manifest].qualified =>
        LET context == dirs[path][Context] profile == dirs[path][Qualified]
        IN profile = Calibrated(world, context) /\ Transfers(world, context, profile.id)

\* The hints a plan gives the host ask for a constrained surface or prefix reuse only if the host, as it
\* stood when the profile was bound, was qualified for them (prepare_from_profile, plan).
HintsWithinQualification ==
    service # None =>
        /\ service.hints.cache # "off" => service.host.parity /\ service.host.cache = service.hints.cache
        /\ service.hints.surface => HasGH(service.host)
        /\ service.profile.fit => service.host.fit
=============================================================================
