----------------------- MODULE CapabilityCache_proofs -----------------------
(***************************************************************************)
(* Proofs about the answer commands over a capability cache, for every set *)
(* of processes, models, policies, abilities, arguments and replies: a     *)
(* file that was written holds the choice of the full calibration, every   *)
(* answer is bound to its contract, and no output surface keeps a model    *)
(* from an answer that its contract accepts.                               *)
(***************************************************************************)
EXTENDS CapabilityCache, FiniteSetTheorems, TLAPS

-----------------------------------------------------------------------------
(* The pure operators. *)

(* What a compiled contract keeps of the fields it was compiled from.      *)
LEMMA CanonicalKeeps ==
  ASSUME NEW given, "kind" \in DOMAIN given, Canonical(given) # Refused
  PROVE  /\ Canonical(given).kind = given.kind
         /\ Canonical(given).nullable = Field(given, "nullable", TRUE)
         /\ given.kind = "text" => Canonical(given).max_chars \in 1 .. MaxChars
<1> DEFINE keep == DOMAIN given \cup {"nullable"} \cup (IF given.kind = "text" THEN {"max_chars"} ELSE {})
           spec == [f \in keep |-> CASE f = "nullable" -> Field(given, f, TRUE)
                                     [] f = "max_chars" -> Field(given, f, MaxChars)
                                     [] OTHER -> given[f]]
<1>1. Canonical(given) = spec /\ Field(given, "max_chars", MaxChars) \in 1 .. MaxChars
  BY DEF Canonical
<1>2. spec.kind = given.kind /\ spec.nullable = Field(given, "nullable", TRUE)
  OBVIOUS
<1>3. given.kind = "text" => spec.max_chars = Field(given, "max_chars", MaxChars)
  OBVIOUS
<1> QED  BY <1>1, <1>2, <1>3

(* The contract a command line compiles to: its text has a bound, and an   *)
(* answer that is required cannot be null.                                 *)
LEMMA ArgumentsCompile ==
  ASSUME NEW args, FromArguments(args) # Refused,
         "required" \in DOMAIN args => args.required \in BOOLEAN
  PROVE  LET spec == FromArguments(args) IN
         /\ spec.kind = "text" => spec.max_chars \in Int
         /\ Field(args, "required", FALSE) => spec.nullable = FALSE
<1> DEFINE kind == Field(args, "kind", "none")
           choices == Field(args, "choices", {})
           bounds == DOMAIN args \cap {"minimum", "maximum"}
           required == Field(args, "required", FALSE)
           chosen == [kind |-> "choice", nullable |-> FALSE, choices |-> choices]
           typed == [f \in {"kind", "nullable"} \cup bounds |-> IF f = "nullable" THEN ~required ELSE args[f]]
<1>0. required \in BOOLEAN
  BY DEF Field
<1>1. CASE kind = "none"
  <2>1. ~required
    BY <1>1 DEF FromArguments
  <2>2. FromArguments(args) \in {DefaultSpec, Canonical(chosen)}
    BY <1>1 DEF FromArguments
  <2>3. CASE FromArguments(args) = DefaultSpec
    <3>1. FromArguments(args).max_chars \in Int
      BY <2>3, AnswerAssumption DEF DefaultSpec
    <3> QED  BY <2>1, <3>1, Zenon
  <2>4. CASE FromArguments(args) = Canonical(chosen)
    <3>1. FromArguments(args).kind = "choice"
      BY <2>4, CanonicalKeeps
    <3>2. FromArguments(args).kind # "text"
      BY <3>1
    <3> QED  BY <2>1, <3>2, Zenon
  <2> QED  BY <2>2, <2>3, <2>4
<1>2. CASE kind = "choice"
  <2>1. FromArguments(args) = Canonical(chosen)
    BY <1>2 DEF FromArguments
  <2>2. /\ FromArguments(args).kind = "choice"
        /\ FromArguments(args).nullable = FALSE
    <3>1. /\ FromArguments(args).kind = chosen.kind
          /\ FromArguments(args).nullable = Field(chosen, "nullable", TRUE)
      BY <2>1, CanonicalKeeps
    <3>2. Field(chosen, "nullable", TRUE) = FALSE
      BY DEF Field
    <3> QED  BY <3>1, <3>2
  <2>3. FromArguments(args).kind # "text"
    BY <2>2
  <2> QED  BY <2>2, <2>3, Zenon
<1>3. CASE kind # "none" /\ kind # "choice"
  <2>1. FromArguments(args) = Canonical(typed)
    BY <1>3 DEF FromArguments
  <2>2. /\ FromArguments(args).kind = typed.kind
        /\ FromArguments(args).nullable = Field(typed, "nullable", TRUE)
        /\ typed.kind = "text" => FromArguments(args).max_chars \in 1 .. MaxChars
    BY <2>1, CanonicalKeeps
  <2>3. ASSUME required
        PROVE  FromArguments(args).nullable = FALSE
    <3>1. typed.nullable = ~required
      OBVIOUS
    <3> QED  BY <2>2, <2>3, <3>1 DEF Field
  <2>4. FromArguments(args).kind = "text" => FromArguments(args).max_chars \in Int
    BY <2>2, AnswerAssumption
  <2> QED  BY <2>3, <2>4, Zenon
<1> QED  BY <1>1, <1>2, <1>3

(* The same for both command lines; the OpenAI-compatible adapter takes    *)
(* "required" only with a kind.                                            *)
LEMMA SpecsCompile ==
  ASSUME NEW adapter, NEW args \in Arguments, SpecOf(adapter, args) # Refused
  PROVE  LET spec == SpecOf(adapter, args) IN
         /\ spec.kind = "text" => spec.max_chars \in Int
         /\ Field(args, "required", FALSE) /\ (adapter = "openai" => "kind" \in DOMAIN args)
            => spec.nullable = FALSE
<1> DEFINE few == [f \in DOMAIN args \cap {"choices"} |-> args[f]]
<1>0. "required" \in DOMAIN args => args.required \in BOOLEAN
  BY AnswerAssumption
<1>1. CASE adapter = "openai" /\ "kind" \notin DOMAIN args
  <2>1. SpecOf(adapter, args) = FromArguments(few) /\ "required" \notin DOMAIN few
    BY <1>1 DEF SpecOf, FromOpenAIArguments
  <2>2. FromArguments(few).kind = "text" => FromArguments(few).max_chars \in Int
    BY <2>1, ArgumentsCompile
  <2> QED  BY <1>1, <2>1, <2>2
<1>2. CASE ~(adapter = "openai" /\ "kind" \notin DOMAIN args)
  <2>1. SpecOf(adapter, args) = FromArguments(args)
    BY <1>2 DEF SpecOf, FromOpenAIArguments
  <2> QED  BY <1>0, <2>1, ArgumentsCompile
<1> QED  BY <1>1, <1>2

(* Null satisfies a contract only when it is nullable.                     *)
LEMMA NullIsNullable ==
  ASSUME NEW spec, Validates(spec, Null), spec.nullable = FALSE
  PROVE  FALSE
BY DEF Validates, Null

(* What a contract accepts, either surface lets a model write.             *)
LEMMA SurfacesAdmit ==
  ASSUME NEW surface, NEW spec, NEW value, Validates(spec, value),
         spec.kind = "text" => spec.max_chars \in Int, value.n \in Nat,
         value.type = "text" /\ value.text # Blank => value.n > 0
  PROVE  Constrained(surface, spec, value)
<1>1. SchemaAdmits(spec, value)
  BY DEF Validates, SchemaAdmits
<1>2. GrammarAdmits(spec, value)
  BY DEF Validates, GrammarAdmits
<1> QED  BY <1>1, <1>2 DEF Constrained

-----------------------------------------------------------------------------
(* Calibration. *)

Scores(able) == [c \in ContractIds |-> Cardinality(able.solved[c])]
Supported(able) == [s \in DOMAIN able.surface |-> able.surface[s] = "valid"]

(* What a calibration of the model finds: a probe, and a profile.          *)
Probed(able, n) == [surface |-> Surfaces[n], valid |-> able.surface[Surfaces[n]] = "valid"]
Profiled(able, c) == [contract |-> c, solved |-> able.solved[c]]

ProbedSoFar(able, probes) ==
    \/ probes = <<>>
    \/ probes = <<Probed(able, 1)>> /\ ~Supported(able)[Surfaces[1]]
ProbedTo(able, probes) ==
    \/ probes = <<Probed(able, 1)>> /\ Supported(able)[Surfaces[1]]
    \/ /\ probes = <<Probed(able, 1), Probed(able, 2)>>
       /\ ~Supported(able)[Surfaces[1]] /\ Supported(able)[Surfaces[2]]
ProfiledSoFar(able, profiles) ==
    \/ profiles = <<>>
    \/ /\ able.solved[Preferred] # Cases
       /\ profiles \in {<<Profiled(able, "v3")>>, <<Profiled(able, "v3"), Profiled(able, "v1")>>}
ProfiledTo(able, profiles) ==
    /\ \/ profiles = <<Profiled(able, "v3")>> /\ able.solved[Preferred] = Cases
       \/ /\ profiles = <<Profiled(able, "v1"), Profiled(able, "v3"), Profiled(able, "v4")>>
          /\ able.solved[Preferred] # Cases
    /\ ProfiledContract(profiles) # NoRecord

(* The lists of the calibration, written out.                              *)
LEMMA Names ==
  /\ Preferred = "v3"
  /\ ContractIds = {"v1", "v3", "v4"}
  /\ DOMAIN Surfaces = {1, 2} /\ Len(Surfaces) = 2
  /\ Surfaces[1] = "json-schema" /\ Surfaces[2] = "compact-gbnf"
  /\ DOMAIN TiePreference = {1, 2, 3}
  /\ TiePreference[1] = "v3" /\ TiePreference[2] = "v4" /\ TiePreference[3] = "v1"
  /\ DOMAIN Contracts = {1, 2, 3} /\ Len(Contracts) = 3
  /\ Contracts[1] = "v1" /\ Contracts[2] = "v3" /\ Contracts[3] = "v4"
<1>1. /\ DOMAIN Contracts = {1, 2, 3} /\ Len(Contracts) = 3
      /\ Contracts[1] = "v1" /\ Contracts[2] = "v3" /\ Contracts[3] = "v4"
  BY DEF Contracts
<1> QED  BY <1>1 DEF Preferred, ContractIds, Surfaces, TiePreference

(* The probes of a calibration prove the surface that probing every one    *)
(* would have selected.                                                    *)
LEMMA ProbesSelect ==
  ASSUME NEW able \in Abilities, NEW probes, ProbedTo(able, probes)
  PROVE  /\ ProbesProve(probes)
         /\ ProbedSurface(probes) # NoRecord
         /\ ProbedSurface(probes) = SelectSurface(Supported(able))
<1> DEFINE valid == Supported(able)
           ok == {n \in DOMAIN Surfaces : valid[Surfaces[n]]}
<1>0. DOMAIN able.surface = {"json-schema", "compact-gbnf"}
  BY Names, CalibrationAssumption
<1>1. /\ valid["json-schema"] = (able.surface["json-schema"] = "valid")
      /\ valid["compact-gbnf"] = (able.surface["compact-gbnf"] = "valid")
  BY <1>0 DEF Supported
<1>2. CASE probes = <<Probed(able, 1)>> /\ valid[Surfaces[1]]
  <2>1. Len(probes) = 1 /\ DOMAIN probes = {1} /\ probes[1].surface = Surfaces[1] /\ probes[1].valid = TRUE
    BY <1>1, <1>2, Names DEF Probed
  <2>2. SelectSurface(valid) = Surfaces[1]
    <3>1. 1 \in ok /\ ok \subseteq {1, 2}
      BY <1>2, Names
    <3>2. (CHOOSE n \in ok : \A m \in ok : n <= m) = 1
      BY <3>1
    <3> QED  BY <3>1, <3>2 DEF SelectSurface
  <2> QED  BY <2>1, <2>2, Names, CalibrationAssumption DEF ProbesProve, ProbedSurface
<1>3. CASE probes = <<Probed(able, 1), Probed(able, 2)>> /\ ~valid[Surfaces[1]] /\ valid[Surfaces[2]]
  <2>1. /\ Len(probes) = 2 /\ DOMAIN probes = {1, 2}
        /\ probes[1].surface = Surfaces[1] /\ probes[1].valid = FALSE
        /\ probes[2].surface = Surfaces[2] /\ probes[2].valid = TRUE
    BY <1>1, <1>3, Names DEF Probed
  <2>2. SelectSurface(valid) = Surfaces[2]
    <3>1. ok = {2}
      BY <1>3, Names
    <3>2. (CHOOSE n \in ok : \A m \in ok : n <= m) = 2
      BY <3>1
    <3> QED  BY <3>1, <3>2 DEF SelectSurface
  <2> QED  BY <2>1, <2>2, Names, CalibrationAssumption DEF ProbesProve, ProbedSurface
<1> QED  BY <1>2, <1>3 DEF ProbedTo

(* A list given by its two or three elements.                              *)
LEMMA TwoInOrder ==
  ASSUME NEW f, f = [n \in {1, 2} |-> f[n]]
  PROVE  f = <<f[1], f[2]>>
OBVIOUS

LEMMA ThreeInOrder ==
  ASSUME NEW f, f = [n \in {1, 2, 3} |-> f[n]]
  PROVE  f = <<f[1], f[2], f[3]>>
OBVIOUS

(* Short lists, one element longer.                                        *)
LEMMA Appended ==
  ASSUME NEW x, NEW y, NEW z
  PROVE  /\ Append(<<>>, x) = <<x>>
         /\ Append(<<x>>, y) = <<x, y>>
         /\ Len(<<x>>) = 1 /\ Len(<<x, y>>) = 2 /\ Len(<<x, y, z>>) = 3
         /\ DOMAIN <<x, y, z>> = {1, 2, 3}
         /\ <<x, y, z>>[1] = x /\ <<x, y, z>>[2] = y /\ <<x, y, z>>[3] = z
<1>1. Append(<<>>, x) = <<x>>
  OBVIOUS
<1>2. Append(<<x>>, y) = <<x, y>>
  <2> DEFINE f == Append(<<x>>, y)
  <2>1. f = [n \in {1, 2} |-> f[n]] /\ f[1] = x /\ f[2] = y
    OBVIOUS
  <2>2. f = <<f[1], f[2]>>
    <3> HIDE DEF f
    <3> QED  BY <2>1, TwoInOrder
  <2> QED  BY <2>1, <2>2
<1>3. Len(<<x>>) = 1 /\ Len(<<x, y>>) = 2 /\ Len(<<x, y, z>>) = 3
  OBVIOUS
<1>4. /\ DOMAIN <<x, y, z>> = {1, 2, 3}
      /\ <<x, y, z>>[1] = x /\ <<x, y, z>>[2] = y /\ <<x, y, z>>[3] = z
  OBVIOUS
<1> QED  BY <1>1, <1>2, <1>3, <1>4

LEMMA AppendedThird ==
  ASSUME NEW x, NEW y, NEW z
  PROVE  Append(<<x, y>>, z) = <<x, y, z>>
<1> DEFINE f == Append(<<x, y>>, z)
<1>1. Len(<<x, y>>) = 2 /\ DOMAIN <<x, y>> = {1, 2}
  OBVIOUS
<1>2. f = [n \in {1, 2, 3} |-> f[n]]
  BY <1>1
<1>3. f[1] = x /\ f[2] = y /\ f[3] = z
  BY <1>1
<1>4. f = <<f[1], f[2], f[3]>>
  <2> HIDE DEF f
  <2> QED  BY <1>2, ThreeInOrder
<1> QED  BY <1>3, <1>4

(* A contract that solves every case beats the others by score or by       *)
(* preference, so the preferred one, if perfect, need not be compared.     *)
LEMMA PerfectPreferredWins ==
  ASSUME NEW able \in Abilities, able.solved[Preferred] = Cases
  PROVE  SelectContract(Scores(able)) = Preferred
<1> DEFINE score == Scores(able)
           Beats(c, d) == \/ score[c] > score[d]
                          \/ score[c] = score[d] /\ \E m \in DOMAIN TiePreference, n \in DOMAIN TiePreference :
                                m < n /\ TiePreference[m] = c /\ TiePreference[n] = d
           best == CHOOSE c \in ContractIds : \A d \in ContractIds \ {c} : Beats(c, d)
<1>1. /\ Cardinality(Cases) \in Nat /\ Cardinality(Cases) >= 1
      /\ \A c \in ContractIds : score[c] \in Nat /\ score[c] <= Cardinality(Cases)
  <2>1. Cardinality(Cases) \in Nat /\ Cardinality(Cases) # 0
    BY CalibrationAssumption, FS_CardinalityType, FS_EmptySet
  <2>2. ASSUME NEW c \in ContractIds
        PROVE  score[c] \in Nat /\ score[c] <= Cardinality(Cases)
    <3>1. able.solved[c] \subseteq Cases
      BY CalibrationAssumption
    <3>2. IsFiniteSet(able.solved[c]) /\ Cardinality(able.solved[c]) <= Cardinality(Cases)
      BY <3>1, CalibrationAssumption, FS_Subset
    <3> QED  BY <3>2, FS_CardinalityType DEF Scores
  <2> QED  BY <2>1, <2>2
<1>2. score["v3"] = Cardinality(Cases)
  BY Names DEF Scores
<1>3. \A d \in ContractIds \ {"v3"} : Beats("v3", d)
  BY <1>1, <1>2, Names
<1>4. ASSUME NEW c \in ContractIds, c # "v3"
      PROVE  ~Beats(c, "v3")
  BY <1>1, <1>2, <1>4, Names
<1>5. best = "v3"
  <2>1. "v3" \in ContractIds /\ \A d \in ContractIds \ {"v3"} : Beats("v3", d)
    BY <1>3, Names
  <2>2. best \in ContractIds /\ \A d \in ContractIds \ {best} : Beats(best, d)
    BY <2>1
  <2> HIDE DEF Beats, best
  <2> QED  BY <1>4, <2>1, <2>2
<1>6. SelectContract(score) = IF score[best] >= MinCorrect THEN best ELSE NoRecord
  BY DEF SelectContract
<1> QED  BY <1>1, <1>2, <1>5, <1>6, Names DEF MinCorrect

(* The profiles of a calibration prove the contract that measuring every   *)
(* one would have selected.                                                *)
LEMMA ProfilesSelect ==
  ASSUME NEW able \in Abilities, NEW profiles, ProfiledTo(able, profiles)
  PROVE  /\ ProfiledContract(profiles) # NoRecord
         /\ ProfiledContract(profiles) = SelectContract(Scores(able))
<1>1. CASE profiles = <<Profiled(able, "v3")>> /\ able.solved[Preferred] = Cases
  <2>1. Len(profiles) = 1 /\ profiles[1].contract = "v3" /\ profiles[1].solved = Cases
    BY <1>1, Names DEF Profiled
  <2>2. ProfiledContract(profiles) = Preferred
    BY <2>1, Names DEF ProfiledContract, StopsAt, Perfect
  <2> QED  BY <1>1, <2>2, PerfectPreferredWins DEF ProfiledTo
<1>2. CASE /\ profiles = <<Profiled(able, "v1"), Profiled(able, "v3"), Profiled(able, "v4")>>
           /\ able.solved[Preferred] # Cases
  <2>1. /\ Len(profiles) = 3 /\ DOMAIN profiles = {1, 2, 3}
        /\ profiles[1].contract = "v1" /\ profiles[1].solved = able.solved["v1"]
        /\ profiles[2].contract = "v3" /\ profiles[2].solved = able.solved["v3"]
        /\ profiles[3].contract = "v4" /\ profiles[3].solved = able.solved["v4"]
    BY <1>2 DEF Profiled
  <2>2. ProfiledContract(profiles) = FullSelection(profiles)
    BY <1>2, <2>1, Names DEF ProfiledContract, StopsAt, Perfect
  <2>3. {profiles[n].contract : n \in DOMAIN profiles} = ContractIds /\ Len(profiles) = Len(Contracts)
    BY <2>1, Names
  <2>4. ASSUME NEW c \in ContractIds
        PROVE  profiles[CHOOSE n \in DOMAIN profiles : profiles[n].contract = c].solved = able.solved[c]
    BY <2>1, Names
  <2>5. [c \in ContractIds |->
            Cardinality(profiles[CHOOSE n \in DOMAIN profiles : profiles[n].contract = c].solved)] = Scores(able)
    BY <2>4 DEF Scores
  <2>6. FullSelection(profiles) = SelectContract(Scores(able))
    BY <2>3, <2>5 DEF FullSelection
  <2> QED  BY <2>2, <2>6 DEF ProfiledTo
<1> QED  BY <1>1, <1>2 DEF ProfiledTo

(* So the record written after a calibration is the one its key asks for.  *)
LEMMA RecordsAreProven ==
  ASSUME NEW able \in Abilities, NEW probes, NEW profiles, NEW key,
         ProbedTo(able, probes), ProfiledTo(able, profiles)
  PROVE  LET record == Record(key, probes, profiles) IN
         /\ RecordOK(record, key)
         /\ record.surface = SelectSurface(Supported(able))
         /\ record.contract = SelectContract(Scores(able))
BY ProbesSelect, ProfilesSelect DEF Record, RecordOK

-----------------------------------------------------------------------------
(* The inductive invariant.                                                *)
(*                                                                         *)
(* A command between probing and writing carries evidence that only this   *)
(* model can have given; a command that writes owns the empty file under   *)
(* its key; and one that plans or answers serves the record under its key, *)
(* which nothing overwrites.                                               *)

Fields == {"pc", "adapter", "command", "model", "policy", "args", "spec", "options",
           "surface", "contract", "probes", "profiles", "asked", "reply"}
Steps == {"resolve", "load", "probe", "calibrate", "create", "write", "plan", "ask", "done"}
KeyOf(j) == <<j.model, j.policy>>
FileOf(j) == IF j.options.record = Unset THEN KeyOf(j) ELSE j.options.record

\* A command as it started; but for "calibrate", its contract is the one its arguments compile to.
Shaped(j) ==
    /\ j = [f \in Fields |-> j[f]]
    /\ j.pc \in Steps
    /\ j.model \in ModelKeys /\ j.policy \in Policies
    /\ j.options.record \in Files \cup {Unset}
    /\ j.command # "calibrate" => /\ j.args \in Arguments
                                  /\ j.spec = SpecOf(j.adapter, j.args) /\ j.spec # Refused

Serves(store, j) ==
    LET record == store[FileOf(j)] IN
    IF j.options.contract # Unset
    THEN j.contract = j.options.contract /\ j.surface = SurfaceOf(j.options)
    ELSE /\ record \notin {Absent, Partial} /\ record.key = KeyOf(j)
         /\ j.surface = record.surface /\ j.contract = record.contract

Answered(j) ==
    /\ j.asked = IF j.reply = HostReply THEN 0 ELSE 1
    /\ "raw" \in DOMAIN j.reply =>
          j.adapter = "litert" \/ (j.adapter = "ort" /\ Parse(j.reply.raw, j.spec) = Refused)
    /\ j.reply # HostReply /\ "raw" \notin DOMAIN j.reply =>
          /\ Parse([keys |-> {"a"}, repeated |-> FALSE, value |-> j.reply.a], j.spec) # Refused
          /\ j.reply.disposition = "abstain" <=> j.reply.a = Null
          /\ /\ Field(j.args, "required", FALSE)
             /\ j.adapter = "openai" => "kind" \in DOMAIN j.args
             => j.reply.a # Null

Progress(able, store, j) ==
    /\ j.command = "calibrate" => j.pc \in {"probe", "calibrate", "create", "write"}
    /\ j.pc \in {"probe", "calibrate", "create", "write"} => j.options.record \in Outputs \cup {Unset}
    /\ j.pc \in {"load", "probe", "calibrate", "create", "write"} => j.options.contract = Unset
    /\ j.pc = "resolve" => /\ j.probes = <<>> /\ j.profiles = <<>>
                           /\ j.surface = SurfaceOf(j.options) /\ j.contract = ContractOf(j.options)
    /\ j.pc = "probe" => ProbedSoFar(able, j.probes) /\ j.profiles = <<>>
    /\ j.pc \in {"calibrate", "create", "write"} => ProbedTo(able, j.probes)
    /\ j.pc = "calibrate" => ProfiledSoFar(able, j.profiles)
    /\ j.pc \in {"create", "write"} => ProfiledTo(able, j.profiles)
    /\ j.pc = "write" => store[FileOf(j)] = Partial
    /\ j.pc \in {"plan", "ask", "done"} /\ j.adapter = "llama" => Serves(store, j)
    /\ j.pc # "done" => j.asked = 0
    /\ j.pc = "done" => Answered(j)

JobOK(able, store, j) == j = Idle \/ (Shaped(j) /\ Progress(able, store, j))

TypeOK ==
    /\ ability \in Abilities /\ policy \in Policies
    /\ files = [f \in Files |-> files[f]]
    /\ job = [p \in Procs |-> job[p]]
\* No two commands write one file.
Writers == \A p, q \in Procs : p # q /\ job[p].pc = "write" /\ job[q].pc = "write" => File(p) # File(q)

IInv ==
    /\ TypeOK
    /\ \A p \in Procs : JobOK(ability, files, job[p])
    /\ Writers
    /\ SelectionIsProven

(* The program counters of a command are told from the idle one.           *)
LEMMA IdleOrNot ==
  ASSUME NEW able, NEW store, NEW j, JobOK(able, store, j)
  PROVE  /\ Idle.pc = "idle"
         /\ j.pc # "idle" => Shaped(j) /\ Progress(able, store, j) /\ DOMAIN j = Fields
BY DEF JobOK, Shaped, Idle, Steps

(* A command is not disturbed by a change of other files, nor by the       *)
(* creation of its own file while it does not own it.                      *)
LEMMA OthersUndisturbed ==
  ASSUME NEW able, NEW store, NEW store2, NEW j, JobOK(able, store, j),
         j.pc = "write" => store2[FileOf(j)] = store[FileOf(j)],
         j.pc # "idle" /\ store[FileOf(j)] \notin {Absent, Partial} => store2[FileOf(j)] = store[FileOf(j)]
  PROVE  JobOK(able, store2, j)
<1>1. CASE j = Idle
  BY <1>1 DEF JobOK
<1>2. CASE Shaped(j) /\ Progress(able, store, j)
  <2>1. j.pc # "idle"
    BY <1>2 DEF Shaped, Steps
  <2>2. Serves(store, j) => Serves(store2, j)
    BY <2>1 DEF Serves
  <2>3. Progress(able, store2, j)
    BY <1>2, <2>1, <2>2 DEF Progress
  <2> QED  BY <1>2, <2>3 DEF JobOK
<1> QED  BY <1>1, <1>2 DEF JobOK

(* A step of one command that leaves the files alone.                      *)
LEMMA LocalStep ==
  ASSUME IInv, NEW p \in Procs,
         UNCHANGED <<ability, files>>, policy' \in Policies,
         job' = [job EXCEPT ![p] = job'[p]],
         JobOK(ability, files, job'[p]), job'[p].pc # "write"
  PROVE  IInv'
<1>1. \A q \in Procs : q # p => job'[q] = job[q]
  BY DEF IInv, TypeOK
<1>2. TypeOK'
  BY DEF IInv, TypeOK
<1>3. \A q \in Procs : JobOK(ability, files, job[q])'
  BY <1>1 DEF IInv
<1>4. Writers'
  BY <1>1 DEF IInv, Writers, File, Identity
<1>5. SelectionIsProven'
  BY DEF IInv, SelectionIsProven
<1> QED  BY <1>2, <1>3, <1>4, <1>5 DEF IInv

(* A command that ends.                                                    *)
LEMMA ExitStep ==
  ASSUME IInv, NEW p \in Procs, Exit(p), UNCHANGED files, Rest
  PROVE  IInv'
<1>1. job'[p] = Idle /\ job' = [job EXCEPT ![p] = job'[p]]
  BY DEF IInv, TypeOK, Exit
<1> QED  BY <1>1, LocalStep DEF Rest, JobOK, Idle, IInv, TypeOK

(* A command that moves on and keeps the rest.                             *)
LEMMA GotoStep ==
  ASSUME IInv, NEW p \in Procs, job[p].pc # "idle", NEW pc \in Steps, Goto(p, pc)
  PROVE  /\ job' = [job EXCEPT ![p] = job'[p]]
         /\ job'[p].pc = pc
         /\ \A f \in Fields \ {"pc"} : job'[p][f] = job[p][f]
         /\ Shaped(job[p]) => Shaped(job'[p])
<1>1. Shaped(job[p]) /\ DOMAIN job[p] = Fields
  BY IdleOrNot DEF IInv
<1>2. /\ job'[p] = [job[p] EXCEPT !.pc = pc]
      /\ job' = [job EXCEPT ![p] = job'[p]]
  BY DEF Goto, IInv, TypeOK
<1> QED  BY <1>1, <1>2 DEF Shaped, Fields

-----------------------------------------------------------------------------
(* One lemma per action. *)

LEMMA StartStep ==
  ASSUME IInv, NEW p \in Procs, NEW step \in {"resolve", "probe", "plan"}, NEW adapter, NEW command,
         NEW model \in ModelKeys, NEW args, NEW spec, NEW options,
         options.record \in Files \cup {Unset},
         command # "calibrate" => args \in Arguments /\ spec = SpecOf(adapter, args) /\ spec # Refused,
         command = "calibrate" => step = "probe",
         step = "probe" => options.record \in Outputs \cup {Unset} /\ options.contract = Unset,
         step = "plan" => adapter # "llama",
         Start(p, step, adapter, command, model, args, spec, options)
  PROVE  IInv'
<1> DEFINE j == job'[p]
<1>1. /\ job' = [job EXCEPT ![p] = j]
      /\ j = [pc |-> step, adapter |-> adapter, command |-> command, model |-> model, policy |-> policy,
              args |-> args, spec |-> spec, options |-> options,
              surface |-> SurfaceOf(options), contract |-> ContractOf(options),
              probes |-> <<>>, profiles |-> <<>>, asked |-> 0, reply |-> Refused]
  BY DEF Start, IInv, TypeOK
<1>2. Shaped(j)
  BY <1>1 DEF Shaped, Fields, Steps, IInv, TypeOK
<1>3. Progress(ability, files, j)
  BY <1>1 DEF Progress, ProbedSoFar
<1>4. j.pc # "write"
  BY <1>1
<1> QED  BY <1>1, <1>2, <1>3, <1>4, LocalStep DEF JobOK, Start, IInv, TypeOK

LEMMA StartsStep ==
  ASSUME IInv, NEW p \in Procs, Starts(p)
  PROVE  IInv'
<1>0. /\ Nothing.record = Unset
      /\ \A output \in Outputs : /\ [Nothing EXCEPT !.record = output].record = output
                                  /\ [Nothing EXCEPT !.record = output].contract = Unset
  BY DEF Nothing
<1>1. ASSUME NEW model \in ModelKeys, NEW output \in Outputs, Calibrate(p, model, output)
      PROVE  IInv'
  <2> DEFINE options == [Nothing EXCEPT !.record = output]
  <2>1. /\ options.record \in Files \cup {Unset} /\ options.record \in Outputs \cup {Unset}
        /\ options.contract = Unset
    BY <1>0 DEF Files
  <2>2. Start(p, "probe", "llama", "calibrate", model, <<>>, DefaultSpec, options)
    BY <1>1 DEF Calibrate
  <2> HIDE DEF options
  <2> QED  BY <2>1, <2>2, StartStep
<1>2. ASSUME NEW model \in ModelKeys, NEW args \in Arguments, NEW command \in {"plan", "answer"},
             NEW options \in Options, Open(p, command, model, args, options)
      PROVE  IInv'
  BY <1>2, StartStep, OptionsAssumption DEF Open
<1>3. ASSUME NEW model \in ModelKeys, NEW args \in Arguments, NEW command \in {"plan", "answer"},
             NEW options \in Options, OpenOpenAI(p, command, model, args, options)
      PROVE  IInv'
  BY <1>3, StartStep, OptionsAssumption DEF OpenOpenAI
<1>4. ASSUME NEW model \in ModelKeys, NEW args \in Arguments, NEW adapter \in Bridges,
             OpenBridge(p, adapter, model, args)
      PROVE  IInv'
  <2>1. adapter # "llama"
    BY DEF Bridges
  <2> QED  BY <1>0, <1>4, <2>1, StartStep DEF OpenBridge
<1>5. \A call \in Calls : call.args \in Arguments /\ call.options \in Options
  BY DEF Arguments, Options
<1> QED  BY <1>1, <1>2, <1>3, <1>4, <1>5 DEF Starts

LEMMA ResolveStep ==
  ASSUME IInv, NEW p \in Procs, Resolve(p)
  PROVE  IInv'
<1> DEFINE j == job'[p]
<1>0. Shaped(job[p]) /\ Progress(ability, files, job[p]) /\ job[p].pc = "resolve" /\ job[p].command # "calibrate"
  BY IdleOrNot DEF IInv, Resolve, Progress
<1>1. CASE Exit(p)
  BY <1>1, ExitStep DEF Resolve
<1>2. ASSUME NEW pc \in {"load", "probe", "plan"}, Goto(p, pc),
             pc = "probe" => job[p].options.record = Unset,
             (pc = "plan") <=> (job[p].options.contract # Unset)
      PROVE  IInv'
  <2>2. /\ job' = [job EXCEPT ![p] = j]
        /\ j.pc = pc
        /\ \A f \in Fields \ {"pc"} : j[f] = job[p][f]
        /\ Shaped(j)
    BY <1>0, <1>2, GotoStep DEF Steps
  <2>3. /\ j.probes = <<>> /\ j.profiles = <<>> /\ j.asked = 0 /\ j.command # "calibrate"
        /\ j.options = job[p].options
        /\ j.surface = SurfaceOf(j.options) /\ j.contract = ContractOf(j.options)
    BY <1>0, <2>2 DEF Progress, Fields
  <2>4. pc = "plan" => Serves(files, j)
    BY <1>2, <2>3 DEF Serves, ContractOf
  <2>5. Progress(ability, files, j)
    BY <1>2, <2>2, <2>3, <2>4 DEF Progress, ProbedSoFar
  <2> QED  BY <2>2, <2>5, LocalStep DEF JobOK, Resolve, Rest, IInv, TypeOK
<1> QED  BY <1>1, <1>2 DEF Resolve

LEMMA LoadStep ==
  ASSUME IInv, NEW p \in Procs, Load(p)
  PROVE  IInv'
<1> DEFINE record == files[File(p)]
           j == job'[p]
<1>1. CASE Exit(p)
  BY <1>1, ExitStep DEF Load
<1>2. CASE ~Exit(p)
  <2>1. Shaped(job[p]) /\ Progress(ability, files, job[p]) /\ job[p].pc = "load" /\ DOMAIN job[p] = Fields
    BY IdleOrNot DEF IInv, Load
  <2>2. /\ record \notin {Absent, Partial} /\ record.key = Identity(p)
        /\ job' = [job EXCEPT ![p].pc = "plan", ![p].surface = record.surface, ![p].contract = record.contract]
    BY <1>2 DEF Load, RecordOK
  <2>3. /\ job' = [job EXCEPT ![p] = j]
        /\ j = [[[job[p] EXCEPT !.pc = "plan"] EXCEPT !.surface = record.surface] EXCEPT !.contract = record.contract]
    BY <2>2 DEF IInv, TypeOK
  <2>4. /\ j.pc = "plan" /\ j.surface = record.surface /\ j.contract = record.contract
        /\ \A f \in Fields \ {"pc", "surface", "contract"} : j[f] = job[p][f]
    BY <2>1, <2>3 DEF Fields
  <2>5. Shaped(j)
    BY <2>1, <2>3, <2>4 DEF Shaped, Fields, Steps
  <2>6. Serves(files, j)
    <3>1. j.options.contract = Unset
      BY <2>1, <2>4 DEF Progress, Fields
    <3>2. FileOf(j) = File(p) /\ KeyOf(j) = Identity(p)
      BY <2>4 DEF FileOf, KeyOf, File, Identity, Fields
    <3> QED  BY <2>2, <2>4, <3>1, <3>2 DEF Serves
  <2>7. Progress(ability, files, j)
    BY <2>1, <2>4, <2>6 DEF Progress, Fields
  <2> QED  BY <2>3, <2>4, <2>5, <2>7, LocalStep DEF JobOK, Load, Rest, IInv, TypeOK
<1> QED  BY <1>1, <1>2

(* What one probe adds to the probes of a calibration.                     *)
LEMMA OneMoreProbe ==
  ASSUME NEW able \in Abilities, NEW old, ProbedSoFar(able, old)
  PROVE  LET surface == Surfaces[Len(old) + 1]
             probes == Append(old, [surface |-> surface, valid |-> able.surface[surface] = "valid"])
         IN IF able.surface[surface] = "valid" THEN ProbedTo(able, probes)
            ELSE Len(probes) # Len(Surfaces) => ProbedSoFar(able, probes)
<1> DEFINE surface == Surfaces[Len(old) + 1]
           probe == [surface |-> surface, valid |-> able.surface[surface] = "valid"]
           probes == Append(old, probe)
           first == Probed(able, 1)
           second == Probed(able, 2)
<1> SUFFICES IF able.surface[surface] = "valid" THEN ProbedTo(able, probes)
             ELSE Len(probes) # Len(Surfaces) => ProbedSoFar(able, probes)
  OBVIOUS
<1>1. \A n \in {1, 2} : Supported(able)[Surfaces[n]] = (able.surface[Surfaces[n]] = "valid")
  BY Names, CalibrationAssumption DEF Supported
<1>2. CASE old = <<>>
  <2>1. surface = Surfaces[1] /\ probe = first
    BY <1>2 DEF Probed
  <2>2. probes = <<first>>
    <3> HIDE DEF probe, first
    <3> QED  BY <1>2, <2>1, Appended
  <2> HIDE DEF probes, surface
  <2> QED  BY <1>1, <2>1, <2>2 DEF ProbedTo, ProbedSoFar
<1>3. CASE old = <<first>> /\ ~Supported(able)[Surfaces[1]]
  <2>1. Len(old) = 1
    <3> HIDE DEF first
    <3> QED  BY <1>3, Appended
  <2>2. surface = Surfaces[2] /\ probe = second
    BY <2>1 DEF Probed
  <2>3. probes = <<first, second>> /\ Len(probes) = 2
    <3> HIDE DEF probe, first, second
    <3>1. Append(<<first>>, second) = <<first, second>> /\ Len(<<first, second>>) = 2
      BY Appended
    <3> QED  BY <1>3, <2>2, <3>1
  <2> HIDE DEF probes, surface
  <2> QED  BY <1>1, <1>3, <2>2, <2>3, Names DEF ProbedTo
<1> QED  BY <1>2, <1>3 DEF ProbedSoFar

LEMMA ProbeStep ==
  ASSUME IInv, NEW p \in Procs, ProbeSurface(p)
  PROVE  IInv'
<1> DEFINE old == job[p].probes
           surface == Surfaces[Len(old) + 1]
           probes == Append(old, [surface |-> surface, valid |-> ability.surface[surface] = "valid"])
           j == job'[p]
<1>1. /\ Shaped(job[p]) /\ Progress(ability, files, job[p]) /\ job[p].pc = "probe" /\ DOMAIN job[p] = Fields
      /\ ability \in Abilities
  BY IdleOrNot DEF IInv, TypeOK, ProbeSurface
<1>2. /\ ability.surface[surface] = "valid" => ProbedTo(ability, probes)
      /\ ability.surface[surface] # "valid" /\ Len(probes) # Len(Surfaces) => ProbedSoFar(ability, probes)
  BY <1>1, OneMoreProbe DEF Progress
<1>3. job[p].profiles = <<>>
  BY <1>1 DEF Progress
<1>4. CASE ability.surface[surface] = "valid"
  <2>1. /\ job' = [job EXCEPT ![p] = j]
        /\ j = [[job[p] EXCEPT !.pc = "calibrate"] EXCEPT !.probes = probes]
    BY <1>4 DEF ProbeSurface, IInv, TypeOK
  <2>2. /\ j.pc = "calibrate" /\ j.probes = probes
        /\ \A f \in Fields \ {"pc", "probes"} : j[f] = job[p][f]
    BY <1>1, <2>1 DEF Fields
  <2>3. Shaped(j)
    BY <1>1, <2>1, <2>2 DEF Shaped, Fields, Steps
  <2>4. Progress(ability, files, j)
    BY <1>1, <1>2, <1>3, <1>4, <2>2 DEF Progress, ProfiledSoFar, Fields
  <2> QED  BY <2>1, <2>2, <2>3, <2>4, LocalStep DEF JobOK, ProbeSurface, Rest, IInv, TypeOK
<1>5. CASE ability.surface[surface] # "valid" /\ ~Exit(p)
  <2>1. /\ Len(probes) # Len(Surfaces)
        /\ job' = [job EXCEPT ![p] = j]
        /\ j = [job[p] EXCEPT !.probes = probes]
    BY <1>5 DEF ProbeSurface, IInv, TypeOK
  <2>2. /\ j.probes = probes
        /\ \A f \in Fields \ {"probes"} : j[f] = job[p][f]
    BY <1>1, <2>1 DEF Fields
  <2>3. Shaped(j)
    BY <1>1, <2>1, <2>2 DEF Shaped, Fields
  <2>4. Progress(ability, files, j) /\ j.pc = "probe"
    BY <1>1, <1>2, <1>3, <1>5, <2>1, <2>2 DEF Progress, Fields
  <2> QED  BY <2>1, <2>3, <2>4, LocalStep DEF JobOK, ProbeSurface, Rest, IInv, TypeOK
<1>6. CASE Exit(p)
  BY <1>6, ExitStep DEF ProbeSurface
<1> QED  BY <1>4, <1>5, <1>6

(* What one measurement adds to the profiles of a calibration.             *)
LEMMA OneMoreProfile ==
  ASSUME NEW able \in Abilities, NEW old, ProfiledSoFar(able, old)
  PROVE  LET contract == Measured[Len(old) + 1]
             profile == [contract |-> contract, solved |-> able.solved[contract]]
             profiles == Append(old, profile)
         IN IF (Len(profiles) = 1 /\ StopsAt(profile)) \/ Len(profiles) = Len(Contracts)
            THEN ProfiledContract(InOrder(profiles)) # NoRecord => ProfiledTo(able, InOrder(profiles))
            ELSE ProfiledSoFar(able, profiles)
<1> DEFINE contract == Measured[Len(old) + 1]
           profile == [contract |-> contract, solved |-> able.solved[contract]]
           profiles == Append(old, profile)
<1>0. Measured[1] = "v3" /\ Measured[2] = "v1" /\ Measured[3] = "v4"
  BY Names DEF Measured
<1>1. CASE old = <<>>
  <2>1. profiles = <<Profiled(able, "v3")>> /\ Len(profiles) = 1 /\ profile = Profiled(able, "v3")
    BY <1>0, <1>1 DEF Profiled
  <2>2. InOrder(profiles) = profiles
    BY <2>1 DEF InOrder
  <2>3. StopsAt(profile) <=> able.solved[Preferred] = Cases
    BY <2>1, Names DEF StopsAt, Perfect, Profiled
  <2> QED  BY <2>1, <2>2, <2>3, Names DEF ProfiledTo, ProfiledSoFar
<1>2. CASE old = <<Profiled(able, "v3")>> /\ able.solved[Preferred] # Cases
  <2>1. Len(old) = 1 /\ profile = Profiled(able, "v1")
    BY <1>0, <1>2 DEF Profiled
  <2>2. profiles = <<Profiled(able, "v3"), Profiled(able, "v1")>> /\ Len(profiles) = 2
    <3>1. /\ Append(<<Profiled(able, "v3")>>, Profiled(able, "v1")) = <<Profiled(able, "v3"), Profiled(able, "v1")>>
          /\ Len(<<Profiled(able, "v3"), Profiled(able, "v1")>>) = 2
      BY Appended
    <3> HIDE DEF profile
    <3> QED  BY <1>2, <2>1, <3>1
  <2> QED  BY <1>2, <2>2, Names DEF ProfiledSoFar
<1>3. CASE old = <<Profiled(able, "v3"), Profiled(able, "v1")>> /\ able.solved[Preferred] # Cases
  <2>1. Len(old) = 2 /\ profile = Profiled(able, "v4")
    BY <1>0, <1>3 DEF Profiled
  <2>2. profiles = <<Profiled(able, "v3"), Profiled(able, "v1"), Profiled(able, "v4")>>
    <3>1. Append(<<Profiled(able, "v3"), Profiled(able, "v1")>>, Profiled(able, "v4"))
            = <<Profiled(able, "v3"), Profiled(able, "v1"), Profiled(able, "v4")>>
      BY AppendedThird
    <3> HIDE DEF profile
    <3> QED  BY <1>3, <2>1, <3>1
  <2>3. /\ Len(profiles) = 3 /\ DOMAIN profiles = {1, 2, 3}
        /\ profiles[1] = Profiled(able, "v3") /\ profiles[1].contract = "v3"
        /\ profiles[2] = Profiled(able, "v1") /\ profiles[2].contract = "v1"
        /\ profiles[3] = Profiled(able, "v4") /\ profiles[3].contract = "v4"
    <3> HIDE DEF profiles
    <3> QED  BY <2>2, Appended DEF Profiled
  <2> DEFINE place(c) == CHOOSE m \in DOMAIN profiles : profiles[m].contract = c
  <2>4. place("v1") = 2 /\ place("v3") = 1 /\ place("v4") = 3
    <3> HIDE DEF profiles
    <3> QED  BY <2>3
  <2>5. InOrder(profiles) = [n \in {1, 2, 3} |-> profiles[place(Contracts[n])]]
    BY <2>3, Names DEF InOrder
  <2>6. InOrder(profiles) = <<Profiled(able, "v1"), Profiled(able, "v3"), Profiled(able, "v4")>>
    <3> DEFINE ordered == InOrder(profiles)
    <3>1. ordered = [n \in {1, 2, 3} |-> ordered[n]]
      BY <2>5
    <3>2. ordered = <<ordered[1], ordered[2], ordered[3]>>
      <4> HIDE DEF ordered
      <4> QED  BY <3>1, ThreeInOrder
    <3>3. ordered[1] = Profiled(able, "v1") /\ ordered[2] = Profiled(able, "v3") /\ ordered[3] = Profiled(able, "v4")
      <4> HIDE DEF profiles, place
      <4> QED  BY <2>3, <2>4, <2>5, Names
    <3> QED  BY <3>2, <3>3
  <2> QED  BY <1>3, <2>3, <2>6, Names DEF ProfiledTo
<1> QED  BY <1>1, <1>2, <1>3 DEF ProfiledSoFar

LEMMA CalibrateStep ==
  ASSUME IInv, NEW p \in Procs, CalibrateContract(p)
  PROVE  IInv'
<1> DEFINE old == job[p].profiles
           contract == Measured[Len(old) + 1]
           profile == [contract |-> contract, solved |-> ability.solved[contract]]
           profiles == Append(old, profile)
           last == (Len(profiles) = 1 /\ StopsAt(profile)) \/ Len(profiles) = Len(Contracts)
           j == job'[p]
<1>1. /\ Shaped(job[p]) /\ Progress(ability, files, job[p]) /\ job[p].pc = "calibrate" /\ DOMAIN job[p] = Fields
      /\ ability \in Abilities
  BY IdleOrNot DEF IInv, TypeOK, CalibrateContract
<1>2. IF last
      THEN ProfiledContract(InOrder(profiles)) # NoRecord => ProfiledTo(ability, InOrder(profiles))
      ELSE ProfiledSoFar(ability, profiles)
  BY <1>1, OneMoreProfile DEF Progress
<1>3. CASE last /\ ~Exit(p)
  <2>1. /\ ProfiledContract(InOrder(profiles)) # NoRecord
        /\ job' = [job EXCEPT ![p] = j]
        /\ j = [[job[p] EXCEPT !.pc = "create"] EXCEPT !.profiles = InOrder(profiles)]
    BY <1>3 DEF CalibrateContract, IInv, TypeOK
  <2>2. /\ j.pc = "create" /\ j.profiles = InOrder(profiles)
        /\ \A f \in Fields \ {"pc", "profiles"} : j[f] = job[p][f]
    BY <1>1, <2>1 DEF Fields
  <2>3. Shaped(j)
    BY <1>1, <2>1, <2>2 DEF Shaped, Fields, Steps
  <2>4. Progress(ability, files, j)
    <3>1. ProfiledTo(ability, InOrder(profiles))
      BY <1>2, <1>3, <2>1
    <3> QED  BY <1>1, <2>2, <3>1 DEF Progress, Fields
  <2> QED  BY <2>1, <2>2, <2>3, <2>4, LocalStep DEF JobOK, CalibrateContract, Rest, IInv, TypeOK
<1>4. CASE ~last
  <2>1. /\ job' = [job EXCEPT ![p] = j]
        /\ j = [job[p] EXCEPT !.profiles = profiles]
    BY <1>4 DEF CalibrateContract, IInv, TypeOK
  <2>2. /\ j.profiles = profiles
        /\ \A f \in Fields \ {"profiles"} : j[f] = job[p][f]
    BY <1>1, <2>1 DEF Fields
  <2>3. Shaped(j)
    BY <1>1, <2>1, <2>2 DEF Shaped, Fields
  <2>4. Progress(ability, files, j) /\ j.pc = "calibrate"
    <3>1. ProfiledSoFar(ability, profiles)
      BY <1>2, <1>4
    <3> QED  BY <1>1, <2>2, <3>1 DEF Progress, Fields
  <2> QED  BY <2>1, <2>3, <2>4, LocalStep DEF JobOK, CalibrateContract, Rest, IInv, TypeOK
<1>5. CASE Exit(p)
  BY <1>5, ExitStep DEF CalibrateContract
<1> QED  BY <1>3, <1>4, <1>5

(* The file of a command is one of the files.                              *)
LEMMA FileTyped ==
  ASSUME IInv, NEW p \in Procs, job[p].pc # "idle"
  PROVE  /\ File(p) = FileOf(job[p]) /\ Identity(p) = KeyOf(job[p])
         /\ File(p) \in Files /\ Identity(p) \in Identities
<1>1. Shaped(job[p])
  BY IdleOrNot DEF IInv
<1>2. KeyOf(job[p]) \in Identities
  BY <1>1 DEF Shaped, KeyOf, Identities
<1> QED  BY <1>1, <1>2 DEF Shaped, File, Identity, FileOf, KeyOf, Files

(* The first to finish owns the empty file it creates: nobody else writes  *)
(* it, for every writer's file is there and empty.                         *)
LEMMA CreateStep ==
  ASSUME IInv, NEW p \in Procs, Create(p)
  PROVE  IInv'
<1> DEFINE file == File(p)
           j == job'[p]
<1>1. /\ Shaped(job[p]) /\ Progress(ability, files, job[p]) /\ job[p].pc = "create"
      /\ file = FileOf(job[p]) /\ file \in Files
  BY IdleOrNot, FileTyped DEF IInv, Create
<1>2. CASE files[file] # Absent
  <2>1. CASE Exit(p)
    BY <1>2, <2>1, ExitStep DEF Create
  <2>2. CASE job[p].command # "calibrate"
    <3>1. files' = files /\ Goto(p, "load")
      BY <1>2, <2>2 DEF Create
    <3>2. /\ job' = [job EXCEPT ![p] = j] /\ j.pc = "load" /\ Shaped(j)
          /\ \A f \in Fields \ {"pc"} : j[f] = job[p][f]
      BY <1>1, <3>1, GotoStep DEF Steps
    <3>3. Progress(ability, files, j)
      BY <1>1, <2>2, <3>2 DEF Progress, Fields
    <3> QED  BY <3>1, <3>2, <3>3, LocalStep DEF JobOK, Create, Rest, IInv, TypeOK
  <2> QED  BY <1>2, <2>1, <2>2 DEF Create
<1>3. CASE files[file] = Absent
  <2>1. files' = [files EXCEPT ![file] = Partial] /\ Goto(p, "write")
    BY <1>3 DEF Create
  <2>2. /\ job' = [job EXCEPT ![p] = j] /\ j.pc = "write" /\ Shaped(j)
        /\ \A f \in Fields \ {"pc"} : j[f] = job[p][f]
    BY <1>1, <2>1, GotoStep DEF Steps
  <2>3. files'[file] = Partial /\ \A f \in Files \ {file} : files'[f] = files[f]
    BY <1>1, <2>1 DEF IInv, TypeOK
  <2>4. TypeOK'
    BY <2>1, <2>2 DEF IInv, TypeOK, Create, Rest
  <2>5. ASSUME NEW q \in Procs, q # p
        PROVE  job'[q] = job[q] /\ (job[q].pc = "write" => FileOf(job[q]) # file)
    <3>1. job'[q] = job[q]
      BY <2>2, <2>5 DEF IInv, TypeOK
    <3>2. job[q].pc = "write" => files[FileOf(job[q])] = Partial
      BY IdleOrNot DEF IInv, Progress
    <3> QED  BY <1>3, <3>1, <3>2, CalibrationAssumption
  <2>6. ASSUME NEW q \in Procs
        PROVE  JobOK(ability', files', job'[q])
    <3>0. ability' = ability
      BY DEF Create, Rest
    <3>1. CASE q = p
      <4>1. FileOf(j) = file
        BY <1>1, <2>2 DEF FileOf, KeyOf, Fields
      <4>2. Progress(ability, files', j)
        BY <1>1, <2>2, <2>3, <4>1 DEF Progress, Fields
      <4> QED  BY <2>2, <3>0, <3>1, <4>2 DEF JobOK
    <3>2. CASE q # p
      <4>1. job[q].pc # "idle" => FileOf(job[q]) \in Files
        BY FileTyped
      <4>2. job[q].pc = "write" => files'[FileOf(job[q])] = files[FileOf(job[q])]
        BY <2>3, <2>5, <3>2, <4>1
      <4>3. job[q].pc # "idle" /\ files[FileOf(job[q])] \notin {Absent, Partial}
              => files'[FileOf(job[q])] = files[FileOf(job[q])]
        BY <1>3, <2>3, <4>1
      <4>4. JobOK(ability, files, job[q])
        BY DEF IInv
      <4>5. JobOK(ability, files', job[q])
        BY <4>2, <4>3, <4>4, OthersUndisturbed
      <4> QED  BY <2>5, <3>0, <3>2, <4>5
    <3> QED  BY <3>1, <3>2
  <2>7. Writers'
    <3>1. \A q \in Procs : FileOf(job'[q]) = File(q)'
      BY DEF FileOf, KeyOf, File, Identity
    <3>2. \A q \in Procs : FileOf(job[q]) = File(q)
      BY DEF FileOf, KeyOf, File, Identity
    <3>3. FileOf(j) = file
      BY <1>1, <2>2 DEF FileOf, KeyOf, Fields
    <3> QED  BY <2>5, <3>1, <3>2, <3>3 DEF IInv, Writers
  <2>8. SelectionIsProven'
    BY <2>3, <2>1 DEF IInv, SelectionIsProven, Create, Rest
  <2> QED  BY <2>4, <2>6, <2>7, <2>8 DEF IInv
<1> QED  BY <1>2, <1>3

(* The owner of an empty file writes what its calibration proved.          *)
LEMMA WriteStep ==
  ASSUME IInv, NEW p \in Procs, Write(p)
  PROVE  IInv'
<1> DEFINE file == File(p)
           record == Record(Identity(p), job[p].probes, job[p].profiles)
           j == job'[p]
<1>1. /\ Shaped(job[p]) /\ Progress(ability, files, job[p]) /\ job[p].pc = "write"
      /\ file = FileOf(job[p]) /\ file \in Files /\ ability \in Abilities
      /\ Identity(p) \in Identities
  BY IdleOrNot, FileTyped DEF IInv, TypeOK, Write
<1>2. /\ files[file] = Partial
      /\ files'[file] = record
      /\ \A f \in Files \ {file} : files'[f] = files[f]
  BY <1>1 DEF IInv, TypeOK, Progress, Write
<1>3. /\ job' = [job EXCEPT ![p] = j]
      /\ j.pc # "write" /\ JobOK(ability, files', j)
  <2>1. CASE job[p].command = "calibrate"
    <3>1. job' = [job EXCEPT ![p] = j] /\ j = Idle
      BY <2>1 DEF Write, Exit, IInv, TypeOK
    <3> QED  BY <3>1 DEF JobOK, Idle
  <2>2. CASE job[p].command # "calibrate"
    <3>1. /\ job' = [job EXCEPT ![p] = j] /\ j.pc = "load" /\ Shaped(j)
          /\ \A f \in Fields \ {"pc"} : j[f] = job[p][f]
      BY <1>1, <2>2, GotoStep DEF Write, Steps
    <3>2. Progress(ability, files', j)
      BY <1>1, <2>2, <3>1 DEF Progress, Fields
    <3> QED  BY <3>1, <3>2 DEF JobOK
  <2> QED  BY <2>1, <2>2
<1>4. TypeOK'
  BY <1>3 DEF IInv, TypeOK, Write, Rest
<1>5. ASSUME NEW q \in Procs
      PROVE  JobOK(ability', files', job'[q])
  <2>0. ability' = ability
    BY DEF Write, Rest
  <2>1. CASE q = p
    BY <1>3, <2>0, <2>1
  <2>2. CASE q # p
    <3>1. job'[q] = job[q]
      BY <1>3, <2>2 DEF IInv, TypeOK
    <3>2. job[q].pc # "idle" => FileOf(job[q]) = File(q) /\ File(q) \in Files
      BY FileTyped
    <3>3. job[q].pc = "write" => FileOf(job[q]) # file
      BY <1>1, <2>2, <3>2 DEF IInv, Writers
    <3>4. JobOK(ability, files, job[q])
      BY DEF IInv
    <3>5. JobOK(ability, files', job[q])
      <4>1. job[q].pc = "write" => files'[FileOf(job[q])] = files[FileOf(job[q])]
        BY <1>2, <3>2, <3>3
      <4>2. job[q].pc # "idle" /\ files[FileOf(job[q])] \notin {Absent, Partial}
              => files'[FileOf(job[q])] = files[FileOf(job[q])]
        BY <1>2, <3>2
      <4> QED  BY <3>4, <4>1, <4>2, OthersUndisturbed
    <3> QED  BY <2>0, <3>1, <3>5
  <2> QED  BY <2>1, <2>2
<1>6. Writers'
  <2>1. \A q \in Procs : q # p => job'[q] = job[q]
    BY <1>3 DEF IInv, TypeOK
  <2>2. \A q \in Procs : q # p => File(q)' = File(q)
    BY <2>1 DEF File, Identity
  <2> QED  BY <1>3, <2>1, <2>2 DEF IInv, Writers
<1>7. SelectionIsProven'
  <2>1. /\ RecordOK(record, Identity(p)) /\ record.key = Identity(p)
        /\ record.surface = SelectSurface(Supported(ability))
        /\ record.contract = SelectContract(Scores(ability))
    <3>1. ProbedTo(ability, job[p].probes) /\ ProfiledTo(ability, job[p].profiles)
      BY <1>1 DEF Progress
    <3> QED  BY <1>1, <3>1, RecordsAreProven DEF Record
  <2>2. ability' = ability
    BY DEF Write, Rest
  <2>3. file \in Identities => file = Identity(p)
    BY <1>1, OptionsAssumption DEF Progress, FileOf, File
  <2> HIDE DEF record, file
  <2>4. ASSUME NEW f \in Files, files'[f] \notin {Absent, Partial}
        PROVE  /\ files'[f].key \in Identities
               /\ f \in Identities => files'[f].key = f
               /\ RecordOK(files'[f], files'[f].key)
               /\ files'[f].surface = SelectSurface(Supported(ability))
               /\ files'[f].contract = SelectContract(Scores(ability))
    <3>1. CASE f = file
      BY <1>1, <1>2, <2>1, <2>3, <3>1
    <3>2. CASE f # file
      BY <1>2, <2>4, <3>2 DEF IInv, SelectionIsProven, Supported, Scores
    <3> QED  BY <3>1, <3>2
  <2> QED  BY <2>2, <2>4 DEF SelectionIsProven, Supported, Scores
<1> QED  BY <1>4, <1>5, <1>6, <1>7 DEF IInv

(* The host replies itself: no request was made.                           *)
LEMMA HostReplies ==
  ASSUME IInv, NEW p \in Procs, job[p].pc = "plan",
         job' = [job EXCEPT ![p].pc = "done", ![p].reply = HostReply],
         UNCHANGED files, Rest
  PROVE  IInv'
<1> DEFINE j == job'[p]
<1>1. Shaped(job[p]) /\ Progress(ability, files, job[p]) /\ DOMAIN job[p] = Fields
  BY IdleOrNot DEF IInv
<1>2. /\ job' = [job EXCEPT ![p] = j]
      /\ j = [[job[p] EXCEPT !.pc = "done"] EXCEPT !.reply = HostReply]
  BY DEF IInv, TypeOK
<1>3. /\ j.pc = "done" /\ j.reply = HostReply
      /\ \A f \in Fields \ {"pc", "reply"} : j[f] = job[p][f]
  <2>1. "pc" \in DOMAIN job[p] /\ "reply" \in DOMAIN job[p]
    BY <1>1 DEF Fields
  <2> QED  BY <1>1, <1>2, <2>1
<1>4. Shaped(j)
  BY <1>1, <1>2, <1>3 DEF Shaped, Fields, Steps
<1>5. Serves(files, job[p]) => Serves(files, j)
  BY <1>3 DEF Serves, FileOf, KeyOf, Fields
<1>6. Answered(j)
  <2>1. j.asked = 0
    BY <1>1, <1>3 DEF Progress, Fields
  <2>2. "raw" \notin DOMAIN j.reply
    BY <1>3, AnswerAssumption
  <2>3. j.asked = IF j.reply = HostReply THEN 0 ELSE 1
    BY <1>3, <2>1
  <2> HIDE DEF j
  <2> QED  BY <1>3, <2>2, <2>3, Zenon DEF Answered
<1>7. Progress(ability, files, j)
  <2>1. j.command # "calibrate" /\ (j.adapter = "llama" => Serves(files, j))
    BY <1>1, <1>3, <1>5 DEF Progress, Fields
  <2> QED  BY <1>3, <1>6, <2>1 DEF Progress
<1> QED  BY <1>2, <1>3, <1>4, <1>7, LocalStep DEF JobOK, Rest, IInv, TypeOK

(* A plan that asks the model keeps the record it serves.                  *)
LEMMA AsksModel ==
  ASSUME IInv, NEW p \in Procs, job[p].pc = "plan", Goto(p, "ask"), UNCHANGED files, Rest
  PROVE  IInv'
<1> DEFINE j == job'[p]
<1>1. Shaped(job[p]) /\ Progress(ability, files, job[p])
  BY IdleOrNot DEF IInv
<1>2. /\ job' = [job EXCEPT ![p] = j] /\ j.pc = "ask" /\ Shaped(j)
      /\ \A f \in Fields \ {"pc"} : j[f] = job[p][f]
  BY <1>1, GotoStep DEF Steps
<1>3. Serves(files, job[p]) => Serves(files, j)
  BY <1>2 DEF Serves, FileOf, KeyOf, Fields
<1>4. Progress(ability, files, j)
  BY <1>1, <1>2, <1>3 DEF Progress, Fields
<1> QED  BY <1>2, <1>4, LocalStep DEF JobOK, Rest, IInv, TypeOK

LEMMA PlanStep ==
  ASSUME IInv, NEW p \in Procs, NEW generate \in BOOLEAN, Plan(p, generate)
  PROVE  IInv'
BY HostReplies, AsksModel, ExitStep DEF Plan

LEMMA DeliverStep ==
  ASSUME IInv, NEW p \in Procs, NEW called, NEW reply, NEW messages, Deliver(p, called, reply, messages)
  PROVE  IInv'
BY HostReplies, AsksModel, ExitStep DEF Deliver

(* What reading a content returns, if it returns: its value, which is not  *)
(* null if an answer is required.                                          *)
LEMMA ReadAnswers ==
  ASSUME NEW content \in Contents, NEW j, Shaped(j), j.command # "calibrate",
         NEW reply, reply # Refused,
         reply \in {Finalize(content, j.spec), Normalize(Parse(content, j.spec))}
  PROVE  /\ reply # HostReply /\ "raw" \notin DOMAIN reply
         /\ Parse([keys |-> {"a"}, repeated |-> FALSE, value |-> reply.a], j.spec) # Refused
         /\ reply.disposition = "abstain" <=> reply.a = Null
         /\ /\ Field(j.args, "required", FALSE)
            /\ j.adapter = "openai" => "kind" \in DOMAIN j.args
            => reply.a # Null
<1> DEFINE value == Parse(content, j.spec)
           again == [keys |-> {"a"}, repeated |-> FALSE, value |-> content.value]
<1>1. value # Refused /\ reply = [a |-> value, disposition |-> IF value = Null THEN "abstain" ELSE "answer"]
  BY DEF Finalize, Normalize
<1>2. content # Refused /\ value = content.value /\ Validates(j.spec, content.value)
  BY <1>1 DEF Parse
<1>3. /\ reply.a = content.value /\ (reply.disposition = "abstain" <=> reply.a = Null)
      /\ "raw" \notin DOMAIN reply
  BY <1>1, <1>2
<1>4. reply # HostReply
  BY <1>2, <1>3, AnswerAssumption
<1>5. again # Refused /\ Parse(again, j.spec) # Refused
  <2>1. again # Refused
    BY <1>2, AnswerAssumption
  <2>2. again.keys = {"a"} /\ again.repeated = FALSE /\ again.value = content.value
    OBVIOUS
  <2> HIDE DEF again
  <2> QED  BY <1>1, <1>2, <2>1, <2>2 DEF Parse
<1>6. ASSUME Field(j.args, "required", FALSE), j.adapter = "openai" => "kind" \in DOMAIN j.args
      PROVE  content.value # Null
  <2>1. j.spec.nullable = FALSE
    BY <1>6, SpecsCompile DEF Shaped
  <2> QED  BY <1>2, <2>1, NullIsNullable
<1> QED  BY <1>3, <1>4, <1>5, <1>6

(* A command that answers, with what may be answered after one request.    *)
LEMMA AnswerStep ==
  ASSUME IInv, NEW p \in Procs, job[p].pc = "ask", NEW reply, reply # HostReply,
         Answer(p, reply), UNCHANGED files, Rest,
         LET j == job[p] IN
         /\ "raw" \in DOMAIN reply =>
               j.adapter = "litert" \/ (j.adapter = "ort" /\ Parse(reply.raw, j.spec) = Refused)
         /\ "raw" \notin DOMAIN reply =>
               /\ Parse([keys |-> {"a"}, repeated |-> FALSE, value |-> reply.a], j.spec) # Refused
               /\ reply.disposition = "abstain" <=> reply.a = Null
               /\ /\ Field(j.args, "required", FALSE)
                  /\ j.adapter = "openai" => "kind" \in DOMAIN j.args
                  => reply.a # Null
  PROVE  IInv'
<1> DEFINE j == job'[p]
<1>1. /\ Shaped(job[p]) /\ Progress(ability, files, job[p]) /\ DOMAIN job[p] = Fields
      /\ job[p].asked = 0 /\ job[p].command # "calibrate"
  BY IdleOrNot DEF IInv, Progress
<1>2. /\ job' = [job EXCEPT ![p] = j]
      /\ j = [[[job[p] EXCEPT !.pc = "done"] EXCEPT !.asked = @ + 1] EXCEPT !.reply = reply]
  BY DEF Answer, IInv, TypeOK
<1>3. /\ j.pc = "done" /\ j.reply = reply /\ j.asked = 1
      /\ \A f \in Fields \ {"pc", "asked", "reply"} : j[f] = job[p][f]
  <2>1. "pc" \in DOMAIN job[p] /\ "asked" \in DOMAIN job[p] /\ "reply" \in DOMAIN job[p]
    BY <1>1 DEF Fields
  <2> DEFINE moved == [job[p] EXCEPT !.pc = "done"]
             asked == [moved EXCEPT !.asked = @ + 1]
  <2>2. moved.pc = "done" /\ DOMAIN moved = Fields /\ \A f \in Fields \ {"pc"} : moved[f] = job[p][f]
    BY <1>1, <2>1
  <2>3. moved.asked = 0
    BY <1>1, <2>1, <2>2
  <2> HIDE DEF moved
  <2>4. asked.pc = "done" /\ asked.asked = 1 /\ DOMAIN asked = Fields
    BY <1>1, <2>1, <2>2, <2>3
  <2>5. \A f \in Fields \ {"pc", "asked"} : asked[f] = job[p][f]
    BY <1>1, <2>1, <2>2
  <2>6. j = [asked EXCEPT !.reply = reply]
    BY <1>2 DEF moved
  <2> HIDE DEF asked
  <2> QED  BY <1>1, <2>1, <2>4, <2>5, <2>6
<1>4. Shaped(j)
  BY <1>1, <1>2, <1>3 DEF Shaped, Fields, Steps
<1>5. Answered(j)
  <2>1. /\ j.spec = job[p].spec /\ j.args = job[p].args /\ j.adapter = job[p].adapter
    BY <1>3 DEF Fields
  <2> QED  BY <1>3, <2>1 DEF Answered
<1>6. Serves(files, job[p]) => Serves(files, j)
  BY <1>3 DEF Serves, FileOf, KeyOf, Fields
<1>7. Progress(ability, files, j)
  BY <1>1, <1>3, <1>5, <1>6 DEF Progress, Fields
<1> QED  BY <1>2, <1>3, <1>4, <1>7, LocalStep DEF JobOK, Rest, IInv, TypeOK

(* A raw generation is not the host's reply.                               *)
LEMMA RawIsNoReply ==
  ASSUME NEW content
  PROVE  /\ [raw |-> content] # HostReply /\ "raw" \in DOMAIN [raw |-> content]
         /\ [raw |-> content].raw = content
<1>1. "raw" \in DOMAIN [raw |-> content] /\ [raw |-> content].raw = content
  OBVIOUS
<1> QED  BY <1>1, AnswerAssumption

LEMMA AskStep ==
  ASSUME IInv, NEW p \in Procs, NEW content \in Contents, Ask(p, content)
  PROVE  IInv'
<1> DEFINE reply == Normalize(Parse(content, job[p].spec))
<1>1. /\ Shaped(job[p]) /\ job[p].pc = "ask" /\ job[p].command # "calibrate"
  BY IdleOrNot DEF IInv, Ask, Progress
<1>2. CASE reply = Refused
  BY <1>2, ExitStep DEF Ask
<1>3. CASE reply # Refused
  <2>1. Answer(p, reply) /\ UNCHANGED files /\ Rest
    BY <1>3 DEF Ask
  <2>2. reply \in {Finalize(content, job[p].spec), Normalize(Parse(content, job[p].spec))}
    OBVIOUS
  <2> HIDE DEF reply
  <2> QED  BY <1>1, <1>3, <2>1, <2>2, ReadAnswers, AnswerStep
<1> QED  BY <1>2, <1>3

LEMMA GenerateOrtStep ==
  ASSUME IInv, NEW p \in Procs, NEW content \in Contents, GenerateOrt(p, content)
  PROVE  IInv'
<1> DEFINE reply == Finalize(content, job[p].spec)
           raw == [raw |-> content]
<1>1. /\ Shaped(job[p]) /\ job[p].pc = "ask" /\ job[p].command # "calibrate" /\ job[p].adapter = "ort"
  BY IdleOrNot DEF IInv, GenerateOrt, Progress
<1>2. CASE reply = Refused
  <2>1. Answer(p, raw) /\ UNCHANGED files /\ Rest
    BY <1>2 DEF GenerateOrt
  <2>2. raw # HostReply /\ "raw" \in DOMAIN raw /\ raw.raw = content
    BY RawIsNoReply
  <2>3. Parse(content, job[p].spec) = Refused
    <3> DEFINE value == Parse(content, job[p].spec)
               read == [a |-> value, disposition |-> IF value = Null THEN "abstain" ELSE "answer"]
    <3>1. ASSUME value # Refused PROVE FALSE
      <4>1. reply = read
        BY <3>1 DEF Finalize
      <4>2. content # Refused /\ value = content.value
        BY <3>1 DEF Parse
      <4> QED  BY <1>2, <4>1, <4>2, AnswerAssumption
    <3> QED  BY <3>1
  <2> HIDE DEF raw
  <2> QED  BY <1>1, <2>1, <2>2, <2>3, AnswerStep
<1>3. CASE reply # Refused
  <2>1. Answer(p, reply) /\ UNCHANGED files /\ Rest
    BY <1>3 DEF GenerateOrt
  <2>2. reply \in {Finalize(content, job[p].spec), Normalize(Parse(content, job[p].spec))}
    OBVIOUS
  <2> HIDE DEF reply
  <2> QED  BY <1>1, <1>3, <2>1, <2>2, ReadAnswers, AnswerStep
<1> QED  BY <1>2, <1>3

LEMMA GenerateLiteRtStep ==
  ASSUME IInv, NEW p \in Procs, NEW content \in Contents, GenerateLiteRt(p, content)
  PROVE  IInv'
<1> DEFINE raw == [raw |-> content]
<1>1. /\ job[p].pc = "ask" /\ job[p].adapter = "litert"
      /\ Answer(p, raw) /\ UNCHANGED files /\ Rest
  BY DEF GenerateLiteRt
<1>2. raw # HostReply /\ "raw" \in DOMAIN raw
  BY RawIsNoReply
<1> HIDE DEF raw
<1> QED  BY <1>1, <1>2, AnswerStep

LEMMA ReplaceStep ==
  ASSUME IInv, ReplacePolicy
  PROVE  IInv'
<1>1. TypeOK' /\ UNCHANGED <<ability, files, job>>
  BY DEF IInv, TypeOK, ReplacePolicy
<1> QED  BY <1>1 DEF IInv, Writers, File, Identity, SelectionIsProven

-----------------------------------------------------------------------------
(* The theorems. *)

LEMMA InitEstablishes ==
  ASSUME Init
  PROVE  IInv
BY DEF Init, IInv, TypeOK, JobOK, Writers, SelectionIsProven, Idle

LEMMA NextPreserves ==
  ASSUME IInv, [Next]_vars
  PROVE  IInv'
<1>1. CASE UNCHANGED vars
  BY <1>1 DEF vars, IInv, TypeOK, JobOK, Progress, Writers, File, Identity, SelectionIsProven
<1>2. CASE ReplacePolicy
  BY <1>2, ReplaceStep
<1>3. ASSUME NEW p \in Procs,
             \/ Starts(p)
             \/ Resolve(p) \/ Load(p) \/ ProbeSurface(p) \/ CalibrateContract(p) \/ Create(p) \/ Write(p)
             \/ RequestFails(p) \/ Crash(p) \/ Finish(p)
             \/ \E generate \in BOOLEAN : Plan(p, generate)
             \/ \E called, reply, messages \in BOOLEAN : Deliver(p, called, reply, messages)
             \/ \E content \in Contents : Ask(p, content) \/ GenerateOrt(p, content) \/ GenerateLiteRt(p, content)
      PROVE  IInv'
  <2>1. CASE Starts(p)  BY <2>1, StartsStep
  <2>2. CASE Resolve(p)  BY <2>2, ResolveStep
  <2>3. CASE Load(p)  BY <2>3, LoadStep
  <2>4. CASE ProbeSurface(p)  BY <2>4, ProbeStep
  <2>5. CASE CalibrateContract(p)  BY <2>5, CalibrateStep
  <2>6. CASE Create(p)  BY <2>6, CreateStep
  <2>7. CASE Write(p)  BY <2>7, WriteStep
  <2>8. CASE RequestFails(p) \/ Crash(p) \/ Finish(p)
    BY <2>8, ExitStep DEF RequestFails, Crash, Finish
  <2>9. CASE \E generate \in BOOLEAN : Plan(p, generate)
    BY <2>9, PlanStep
  <2>10. CASE \E called, reply, messages \in BOOLEAN : Deliver(p, called, reply, messages)
    BY <2>10, DeliverStep
  <2>11. CASE \E content \in Contents : Ask(p, content) \/ GenerateOrt(p, content) \/ GenerateLiteRt(p, content)
    BY <2>11, AskStep, GenerateOrtStep, GenerateLiteRtStep
  <2> QED  BY <1>3, <2>1, <2>2, <2>3, <2>4, <2>5, <2>6, <2>7, <2>8, <2>9, <2>10, <2>11
<1> QED  BY <1>1, <1>2, <1>3 DEF Next

(* The invariant holds throughout: types and shapes, owners of empty files *)
(* and the evidence each command carries.                                  *)
THEOREM Invariant == Spec => []IInv
<1>1. Init => IInv
  BY InitEstablishes
<1>2. IInv /\ [Next]_vars => IInv'
  BY NextPreserves
<1> QED  BY <1>1, <1>2, PTL DEF Spec

(* Whatever raced or died before, a capability file holds the surface and  *)
(* the contract that the full calibration would have selected, and         *)
(* validates under its key: the stop after a perfect preferred contract    *)
(* and after the first supported surface loses nothing.                    *)
THEOREM SelectionProven == Spec => []SelectionIsProven
<1>1. IInv => SelectionIsProven
  BY DEF IInv
<1> QED  BY <1>1, Invariant, PTL

(* A reply printed satisfies its caller's contract and cost one request,   *)
(* or none when the host replied; a llama.cpp command used the contract    *)
(* and the surface its caller named, or those of a record calibrated for   *)
(* its model and the policy in its prompt; a raw generation is handed back *)
(* only by LiteRT, or by ORT when the contract refuses it.                 *)
THEOREM AnswersBound == Spec => []AnswersAreBound
<1>1. IInv => AnswersAreBound
  <2> SUFFICES ASSUME IInv, NEW p \in Procs, job[p].pc = "done"
               PROVE  /\ job[p].adapter = "llama" => Serves(files, job[p])
                      /\ Answered(job[p])
    BY DEF AnswersAreBound, UsesItsRecord, Serves, FileOf, KeyOf, Answered
  <2> QED  BY IdleOrNot DEF IInv, Progress
<1> QED  BY <1>1, Invariant, PTL

(* The surface a model is constrained to lets it write every answer its    *)
(* contract accepts, whichever surface was calibrated or chosen.           *)
THEOREM ConstraintsAdmit == Spec => []ConstraintsAdmitEveryAnswer
<1>1. IInv => ConstraintsAdmitEveryAnswer
  <2> SUFFICES ASSUME IInv, NEW p \in Procs, job[p].pc = "ask",
                      NEW content \in Contents, Parse(content, job[p].spec) # Refused
               PROVE  Constrained(job[p].surface, job[p].spec, content.value)
    BY DEF ConstraintsAdmitEveryAnswer
  <2>1. Shaped(job[p]) /\ job[p].command # "calibrate"
    BY IdleOrNot DEF IInv, Progress
  <2>2. job[p].spec.kind = "text" => job[p].spec.max_chars \in Int
    BY <2>1, SpecsCompile DEF Shaped
  <2>3. content # Refused /\ Validates(job[p].spec, content.value)
    BY DEF Parse
  <2> QED  BY <2>2, <2>3, SurfacesAdmit, AnswerAssumption
<1> QED  BY <1>1, Invariant, PTL
=============================================================================
