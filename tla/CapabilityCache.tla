--------------------------- MODULE CapabilityCache ---------------------------
(***************************************************************************)
(* The answer commands of the model adapters over one capability cache.    *)
(* A llama.cpp command takes surface and contract from its caller, from a  *)
(* record its caller names, or from the cache: it loads the file named     *)
(* after the model key and the policy, or calibrates and creates it; then  *)
(* it plans, and asks the model at most once.  "calibrate" writes a record *)
(* of its own, beside the cache directory.  The OpenAI-compatible adapter  *)
(* and the ORT and LiteRT bridges take plan and answer from the same       *)
(* engine with a surface the host chose.  Commands run beside each other,  *)
(* die at any step, and the policy of the profile may be replaced under    *)
(* them.                                                                   *)
(*                                                                         *)
(* A file is created and written in two steps, as in the code.  The engine *)
(* that decides between a host reply and a request is left open.           *)
(***************************************************************************)
EXTENDS AnswerContract, CapabilityPreflight

CONSTANTS Procs, ModelKeys, Policies, Abilities, Contents, HostReply,
          Outputs,      \* the files "calibrate" is told to write
          Calls,        \* answer arguments, and what a caller names: --contract, --surface, --contract-record
          MaxCommands, Absent, Partial, Unset

Arguments == {call.args : call \in Calls}
Options == {call.options : call \in Calls}
Identities == ModelKeys \X Policies
Files == Identities \cup Outputs

\* The calibration: the cases are fixed and not empty, a model is measured on them, with any of the surfaces.
ASSUME CalibrationAssumption ==
    /\ IsFiniteSet(Cases) /\ Cases # {}
    /\ Absent # Partial
    /\ NoRecord \notin ContractIds
    /\ \A n \in DOMAIN Surfaces : NoRecord # Surfaces[n]
    /\ \A able \in Abilities : /\ DOMAIN able.surface = {Surfaces[n] : n \in DOMAIN Surfaces}
                               /\ able.solved \in [ContractIds -> SUBSET Cases]

\* The answers: a text that is not blank has a character, "required" is a flag, and the reply of the host is
\* told from those of the model.
ASSUME AnswerAssumption ==
    /\ MaxChars \in Nat
    /\ \A args \in Arguments : "required" \in DOMAIN args => args.required \in BOOLEAN
    /\ HostReply.a # Null /\ "raw" \notin DOMAIN HostReply
    /\ \A content \in Contents \ {Refused} :
          /\ content.value.n \in Nat
          /\ content.value.type = "text" /\ content.value.text # Blank => content.value.n > 0
          /\ content.value # HostReply.a
          /\ [keys |-> {"a"}, repeated |-> FALSE, value |-> content.value] # Refused
          /\ \A d \in {"abstain", "answer"} : [a |-> content.value, disposition |-> d] # Refused

\* The files: those of the cache directory are told from the others, and a caller names one, or none.
ASSUME OptionsAssumption ==
    /\ Outputs \cap Identities = {} /\ Unset \notin Files
    /\ \A options \in Options : options.record \in Files \cup {Unset}

VARIABLES ability,  \* what the model does: [surface, solved]
          policy,   \* the policy of the profile directory
          files,    \* the capability records, cached or written by "calibrate"
          job,      \* the command each process runs
          started   \* commands started, at most MaxCommands
vars == <<ability, policy, files, job, started>>

Bridges == {"ort", "litert"}
Idle == [pc |-> "idle"]
Exit(p) == job' = [job EXCEPT ![p] = Idle]
Goto(p, pc) == job' = [job EXCEPT ![p].pc = pc]
Rest == UNCHANGED <<ability, policy, started>>

\* A slip: the policy read again from the profile when the file is named.
IdentityNow(p) == <<job[p].model, policy>>
\* The identity of model and policy: it names the file of the cache, capability_cache_key, and every record carries it.
Identity(p) == <<job[p].model, job[p].policy>>
File(p) == IF job[p].options.record = Unset THEN Identity(p) ELSE job[p].options.record

\* A slip: every adapter reads its arguments as the OpenAI-compatible one does.
LenientSpec(adapter, args) == FromOpenAIArguments(args)
SpecOf(adapter, args) == IF adapter = "openai" THEN FromOpenAIArguments(args) ELSE FromArguments(args)
SurfaceOf(options) == IF options.surface = Unset THEN Surfaces[1] ELSE options.surface
ContractOf(options) == IF options.contract = Unset THEN Preferred ELSE options.contract

\* The policy is read once, and the answer contract is compiled, before anything is asked.
Start(p, step, adapter, command, model, args, spec, options) ==
    /\ job[p].pc = "idle" /\ started < MaxCommands
    /\ started' = started + 1
    /\ job' = [job EXCEPT ![p] =
           [pc |-> step, adapter |-> adapter, command |-> command, model |-> model, policy |-> policy,
            args |-> args, spec |-> spec, options |-> options,
            surface |-> SurfaceOf(options), contract |-> ContractOf(options),
            probes |-> <<>>, profiles |-> <<>>, asked |-> 0, reply |-> Refused]]
    /\ UNCHANGED <<ability, policy, files>>

Nothing == [contract |-> Unset, surface |-> Unset, record |-> Unset]

\* "plan" and "answer" of the llama.cpp adapter.
Open(p, command, model, args, options) ==
    /\ SpecOf("llama", args) # Refused
    /\ Start(p, "resolve", "llama", command, model, args, SpecOf("llama", args), options)

\* "calibrate" of the llama.cpp adapter: an output that is there is not touched.
Calibrate(p, model, output) ==
    /\ files[output] = Absent
    /\ Start(p, "probe", "llama", "calibrate", model, <<>>, DefaultSpec, [Nothing EXCEPT !.record = output])

\* The OpenAI-compatible adapter: a contract and a wire profile, both JSON schemas, with defaults.
OpenOpenAI(p, command, model, args, options) ==
    /\ SpecOf("openai", args) # Refused /\ options.surface = Unset /\ options.record = Unset
    /\ Start(p, "plan", "openai", command, model, args, SpecOf("openai", args), options)

\* prepare_delivery of the bridges; the command of the ORT bridge takes no answer contract.
OpenBridge(p, adapter, model, args) ==
    /\ adapter = "ort" => DOMAIN args = {}
    /\ SpecOf(adapter, args) # Refused
    /\ Start(p, "plan", adapter, "answer", model, args, SpecOf(adapter, args), Nothing)

\* _resolve_cached_capability, _resolve_contract_and_surface: a contract its caller names needs no record, a record
\* its caller names no cache; a cached file is loaded, and only "answer" may calibrate.
Resolve(p) ==
    /\ job[p].pc = "resolve"
    /\ LET options == job[p].options
           absent == files[Identity(p)] = Absent
       IN \/ options.contract # Unset /\ Goto(p, "plan")
          \/ options.contract = Unset /\ (options.record # Unset \/ ~absent) /\ Goto(p, "load")
          \/ /\ options.contract = Unset /\ options.record = Unset /\ absent
             /\ IF job[p].command = "answer" THEN Goto(p, "probe") ELSE Exit(p)
    /\ UNCHANGED files /\ Rest

\* load_contract_record: a file that is not there, does not parse, does not prove its choice or was written for
\* another model or policy ends the command.
Load(p) ==
    /\ job[p].pc = "load"
    /\ LET record == files[File(p)] IN
       IF record \notin {Absent, Partial} /\ RecordOK(record, Identity(p))
       THEN job' = [job EXCEPT ![p].pc = "plan", ![p].surface = record.surface, ![p].contract = record.contract]
       ELSE Exit(p)
    /\ UNCHANGED files /\ Rest

\* calibrate_contract, the surfaces: a surface the server rejects, or answers outside the contract, is passed over.
ProbeSurface(p) ==
    /\ job[p].pc = "probe"
    /\ LET surface == Surfaces[Len(job[p].probes) + 1]
           probes == Append(job[p].probes, [surface |-> surface, valid |-> ability.surface[surface] = "valid"])
       IN IF ability.surface[surface] = "valid"
          THEN job' = [job EXCEPT ![p].pc = "calibrate", ![p].probes = probes]
          ELSE IF Len(probes) = Len(Surfaces) THEN Exit(p)
          ELSE job' = [job EXCEPT ![p].probes = probes]
    /\ UNCHANGED files /\ Rest

\* The contracts in the order they are measured, and the order in which the record lists them.
Measured == <<Preferred, "v1", "v4">>
InOrder(profiles) ==
    IF Len(profiles) = 1 THEN profiles
    ELSE [n \in DOMAIN Contracts |->
              profiles[CHOOSE m \in DOMAIN profiles : profiles[m].contract = Contracts[n]]]

\* _calibrate_candidate_profile, and whether another contract must be measured.
CalibrateContract(p) ==
    /\ job[p].pc = "calibrate"
    /\ LET contract == Measured[Len(job[p].profiles) + 1]
           profile == [contract |-> contract, solved |-> ability.solved[contract]]
           profiles == Append(job[p].profiles, profile)
       IN IF (Len(profiles) = 1 /\ StopsAt(profile)) \/ Len(profiles) = Len(Contracts)
          THEN IF ProfiledContract(InOrder(profiles)) = NoRecord THEN Exit(p)
               ELSE job' = [job EXCEPT ![p].pc = "create", ![p].profiles = InOrder(profiles)]
          ELSE job' = [job EXCEPT ![p].profiles = profiles]
    /\ UNCHANGED files /\ Rest

\* open("xb"): the first to finish creates the file; a command that comes later loads it, "calibrate" fails.
Create(p) ==
    /\ job[p].pc = "create"
    /\ IF files[File(p)] = Absent
       THEN files' = [files EXCEPT ![File(p)] = Partial] /\ Goto(p, "write")
       ELSE files' = files /\ (IF job[p].command = "calibrate" THEN Exit(p) ELSE Goto(p, "load"))
    /\ Rest

Write(p) ==
    /\ job[p].pc = "write"
    /\ files' = [files EXCEPT ![File(p)] = Record(Identity(p), job[p].probes, job[p].profiles)]
    /\ IF job[p].command = "calibrate" THEN Exit(p) ELSE Goto(p, "load")
    /\ Rest

\* The server cannot be reached, times out or answers nonsense: no retry, the command ends.
RequestFails(p) ==
    /\ job[p].pc \in {"probe", "calibrate", "ask"}
    /\ Exit(p) /\ UNCHANGED files /\ Rest

\* The process dies; a file it had created stays as it is.
Crash(p) ==
    /\ job[p].pc # "idle"
    /\ Exit(p) /\ UNCHANGED files /\ Rest

\* The engine answers itself, or hands over messages; "plan" only prints what it decided.
Plan(p, generate) ==
    /\ job[p].pc = "plan" /\ job[p].adapter \notin Bridges
    /\ IF generate THEN (IF job[p].command = "plan" THEN Exit(p) ELSE Goto(p, "ask"))
       ELSE job' = [job EXCEPT ![p].pc = "done", ![p].reply = HostReply]
    /\ UNCHANGED files /\ Rest

\* A bridge takes any plan it is handed, and refuses one that carries a reply and messages, or neither.
Deliver(p, called, reply, messages) ==
    /\ job[p].pc = "plan" /\ job[p].adapter \in Bridges
    /\ LET delivery == Delivery(called, reply, messages) IN
       \/ delivery = Refused /\ Exit(p)
       \/ delivery = "generate" /\ Goto(p, "ask")
       \/ delivery = "complete" /\ job' = [job EXCEPT ![p].pc = "done", ![p].reply = HostReply]
    /\ UNCHANGED files /\ Rest

Answer(p, reply) == job' = [job EXCEPT ![p].pc = "done", ![p].asked = @ + 1, ![p].reply = reply]

\* request_answer: one request, no repair; a server may ignore the constraint it was given.
Ask(p, content) ==
    /\ job[p].pc = "ask" /\ job[p].adapter \notin Bridges
    /\ LET reply == Normalize(Parse(content, job[p].spec)) IN
       IF reply = Refused THEN Exit(p) ELSE Answer(p, reply)
    /\ UNCHANGED files /\ Rest

\* One generation of the ORT bridge: what does not satisfy the contract is printed as it is, with no reply.
GenerateOrt(p, content) ==
    /\ job[p].pc = "ask" /\ job[p].adapter = "ort"
    /\ LET reply == Finalize(content, job[p].spec) IN
       Answer(p, IF reply = Refused THEN [raw |-> content] ELSE reply)
    /\ UNCHANGED files /\ Rest

\* One generation of the LiteRT bridge: it is handed back as it is, for the host to finalize.
GenerateLiteRt(p, content) ==
    /\ job[p].pc = "ask" /\ job[p].adapter = "litert"
    /\ Answer(p, [raw |-> content])
    /\ UNCHANGED files /\ Rest

Finish(p) == job[p].pc = "done" /\ Exit(p) /\ UNCHANGED files /\ Rest

\* The grounding profile is replaced.
ReplacePolicy ==
    /\ \E other \in Policies \ {policy} : policy' = other
    /\ UNCHANGED <<ability, files, job, started>>

Init ==
    /\ ability \in Abilities
    /\ policy \in Policies
    /\ files = [f \in Files |-> Absent]
    /\ job = [p \in Procs |-> Idle]
    /\ started = 0

Starts(p) ==
    \/ \E model \in ModelKeys, output \in Outputs : Calibrate(p, model, output)
    \/ \E model \in ModelKeys, call \in Calls :
          \/ \E command \in {"plan", "answer"} :
                \/ Open(p, command, model, call.args, call.options)
                \/ OpenOpenAI(p, command, model, call.args, call.options)
          \/ \E adapter \in Bridges : OpenBridge(p, adapter, model, call.args)

Next ==
    \/ \E p \in Procs :
          \/ Starts(p)
          \/ Resolve(p) \/ Load(p) \/ ProbeSurface(p) \/ CalibrateContract(p) \/ Create(p) \/ Write(p)
          \/ RequestFails(p) \/ Crash(p) \/ Finish(p)
          \/ \E generate \in BOOLEAN : Plan(p, generate)
          \/ \E called, reply, messages \in BOOLEAN : Deliver(p, called, reply, messages)
          \/ \E content \in Contents : Ask(p, content) \/ GenerateOrt(p, content) \/ GenerateLiteRt(p, content)
    \/ ReplacePolicy

Spec == Init /\ [][Next]_vars

-----------------------------------------------------------------------------
(* Properties. *)

\* Whatever raced or died before, a capability file, cached or written by "calibrate", holds the surface and the
\* contract that the full calibration of the model would have selected, although most of it was never run, and
\* validates under the model and the policy it was calibrated for, which name it if it is cached
\* (calibrate_contract, validate_contract_record).
SelectionIsProven ==
    \A f \in Files : files[f] \notin {Absent, Partial} =>
        /\ files[f].key \in Identities
        /\ f \in Identities => files[f].key = f
        /\ RecordOK(files[f], files[f].key)
        /\ files[f].surface = SelectSurface([s \in DOMAIN ability.surface |-> ability.surface[s] = "valid"])
        /\ files[f].contract = SelectContract([c \in ContractIds |-> Cardinality(ability.solved[c])])

\* What a llama.cpp command used: the contract and the surface its caller named, if it named a contract; and else
\* those of a record that carries its model and the very policy in its prompt, although the profile may have been
\* replaced meanwhile.
UsesItsRecord(j) ==
    LET identity == <<j.model, j.policy>>
        record == files[IF j.options.record = Unset THEN identity ELSE j.options.record]
    IN IF j.options.contract # Unset
       THEN j.contract = j.options.contract /\ j.surface = SurfaceOf(j.options)
       ELSE /\ record \notin {Absent, Partial} /\ record.key = identity
            /\ j.surface = record.surface /\ j.contract = record.contract

\* A reply printed satisfies the contract of its caller, was obtained with at most one request, and none when the
\* host replied itself; a llama.cpp command used the surface and the contract it was told to, or those calibrated
\* for the policy in its prompt; and a bridge that hands the raw generation back instead of a reply is LiteRT's, or
\* ORT's when the contract refuses it.
AnswersAreBound ==
    \A p \in Procs : job[p].pc = "done" =>
        LET j == job[p] IN
        /\ j.adapter = "llama" => UsesItsRecord(j)
        /\ j.asked = IF j.reply = HostReply THEN 0 ELSE 1
        /\ "raw" \in DOMAIN j.reply =>
              j.adapter = "litert" \/ (j.adapter = "ort" /\ Parse(j.reply.raw, j.spec) = Refused)
        /\ j.reply # HostReply /\ "raw" \notin DOMAIN j.reply =>
              /\ Parse([keys |-> {"a"}, repeated |-> FALSE, value |-> j.reply.a], j.spec) # Refused
              /\ j.reply.disposition = "abstain" <=> j.reply.a = Null
              /\ /\ Field(j.args, "required", FALSE)
                 /\ j.adapter = "openai" => "kind" \in DOMAIN j.args
                 => j.reply.a # Null

\* The surface a model is constrained to lets it write every answer its contract accepts.
ConstraintsAdmitEveryAnswer ==
    \A p \in Procs : job[p].pc = "ask" =>
        \A content \in Contents : Parse(content, job[p].spec) # Refused =>
            Constrained(job[p].surface, job[p].spec, content.value)
=============================================================================
