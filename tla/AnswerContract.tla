--------------------------- MODULE AnswerContract ---------------------------
(***************************************************************************)
(* Typed answers: the answer contract a request is compiled to             *)
(* (tools/grounding_answer_contract.py), what its two constrained output   *)
(* surfaces let a model write, and the strict reading of what it wrote     *)
(* (tools/grounding_v1_surface.py).  Pure operators.                       *)
(*                                                                         *)
(* A value is [type, n, text]: the number, or the length of the text, and  *)
(* the text itself.  "infinite" is a literal such as 1e999, "huge" an      *)
(* integer no float holds; a blank text is white space only.               *)
(***************************************************************************)
EXTENDS Integers, FiniteSets

CONSTANTS MaxChars,   \* ANSWER_MAX_CHARS
          Blank,      \* the text of white space
          Refused     \* an exception

Kinds == {"text", "choice", "boolean", "integer", "number"}
Null == [type |-> "null", n |-> 0, text |-> Blank]

-----------------------------------------------------------------------------
(* Compilation.  What a caller gives is a record with some of the fields.  *)

Allowed(kind) ==
    {"kind", "nullable"} \cup CASE kind = "text" -> {"max_chars"} [] kind = "choice" -> {"choices"}
                                [] kind = "boolean" -> {} [] OTHER -> {"minimum", "maximum"}
Field(given, name, default) == IF name \in DOMAIN given THEN given[name] ELSE default
DefaultSpec == [kind |-> "text", nullable |-> TRUE, max_chars |-> MaxChars]
ChoicesOK(choices) == Cardinality(choices) >= 2 /\ Blank \notin choices

\* _canonical_spec, compile_answer_spec
Canonical(given) ==
    LET kind == given.kind
        keep == DOMAIN given \cup {"nullable"} \cup (IF kind = "text" THEN {"max_chars"} ELSE {})
    IN IF /\ kind \in Kinds
          /\ DOMAIN given \subseteq Allowed(kind)
          /\ Field(given, "max_chars", MaxChars) \in 1 .. MaxChars
          /\ kind = "choice" => "choices" \in DOMAIN given /\ ChoicesOK(given.choices)
          /\ {"minimum", "maximum"} \subseteq DOMAIN given => given.minimum <= given.maximum
       THEN [f \in keep |-> CASE f = "nullable" -> Field(given, f, TRUE)
                              [] f = "max_chars" -> Field(given, f, MaxChars)
                              [] OTHER -> given[f]]
       ELSE Refused

\* _answer_spec_from_args: the command line of the llama.cpp adapter; bounds and "required" need a kind.
FromArguments(args) ==
    LET kind == Field(args, "kind", "none")
        choices == Field(args, "choices", {})
        bounds == DOMAIN args \cap {"minimum", "maximum"}
        required == Field(args, "required", FALSE)
        chosen == Canonical([kind |-> "choice", nullable |-> FALSE, choices |-> choices])
    IN IF kind = "none"
       THEN IF bounds # {} \/ required THEN Refused ELSE IF choices = {} THEN DefaultSpec ELSE chosen
       ELSE IF kind = "choice" THEN IF choices = {} \/ bounds # {} THEN Refused ELSE chosen
       ELSE IF choices # {} \/ (bounds # {} /\ kind \notin {"integer", "number"}) THEN Refused
       ELSE Canonical([f \in {"kind", "nullable"} \cup bounds |-> IF f = "nullable" THEN ~required ELSE args[f]])

\* _answer_spec_from_args of the OpenAI-compatible adapter: without a kind, bounds and "required" are ignored.
FromOpenAIArguments(args) ==
    IF "kind" \in DOMAIN args THEN FromArguments(args)
    ELSE FromArguments([f \in DOMAIN args \cap {"choices"} |-> args[f]])

-----------------------------------------------------------------------------
(* Validation, and what the surfaces admit. *)

Within(spec, n) == Field(spec, "minimum", n) <= n /\ n <= Field(spec, "maximum", n)

\* CompiledAnswerSpec.validate.  An integer no float holds passes as "integer" and raises as "number".
Validates(spec, value) ==
    \/ value = Null /\ spec.nullable
    \/ spec.kind = "text" /\ value.type = "text" /\ value.text # Blank /\ value.n <= spec.max_chars
    \/ spec.kind = "choice" /\ value.type = "text" /\ value.text \in spec.choices
    \/ spec.kind = "boolean" /\ value.type = "boolean"
    \/ spec.kind = "integer" /\ value.type \in {"integer", "huge"} /\ Within(spec, value.n)
    \/ spec.kind = "number" /\ value.type \in {"integer", "number"} /\ Within(spec, value.n)

\* _schema
SchemaAdmits(spec, value) ==
    \/ value = Null /\ spec.nullable
    \/ spec.kind = "text" /\ value.type = "text" /\ value.n <= spec.max_chars
    \/ spec.kind = "choice" /\ value.type = "text" /\ value.text \in spec.choices
    \/ spec.kind = "boolean" /\ value.type = "boolean"
    \/ spec.kind = "integer" /\ value.type \in {"integer", "huge"} /\ Within(spec, value.n)
    \/ spec.kind = "number" /\ value.type \in {"integer", "number", "huge"} /\ Within(spec, value.n)

\* A slip: the last character the contract allows left out of the grammar.
GrammarOffByOne(spec, value) ==
    \/ value = Null /\ spec.nullable
    \/ spec.kind = "text" /\ value.type = "text" /\ value.n \in 1 .. spec.max_chars - 1
    \/ spec.kind = "choice" /\ value.type = "text" /\ value.text \in spec.choices
    \/ spec.kind = "boolean" /\ value.type = "boolean"
    \/ spec.kind = "integer" /\ value.type \in {"integer", "huge"}
    \/ spec.kind = "number" /\ value.type \in {"integer", "number", "huge", "infinite"}
\* _gbnf: at least one character of text; the bounds of numbers are not part of the grammar.
GrammarAdmits(spec, value) ==
    \/ value = Null /\ spec.nullable
    \/ spec.kind = "text" /\ value.type = "text" /\ value.n \in 1 .. spec.max_chars
    \/ spec.kind = "choice" /\ value.type = "text" /\ value.text \in spec.choices
    \/ spec.kind = "boolean" /\ value.type = "boolean"
    \/ spec.kind = "integer" /\ value.type \in {"integer", "huge"}
    \/ spec.kind = "number" /\ value.type \in {"integer", "number", "huge", "infinite"}

\* output_surface_request_fields: what a model constrained by the surface can write.
Constrained(surface, spec, value) ==
    IF surface = "json-schema" THEN SchemaAdmits(spec, value) ELSE GrammarAdmits(spec, value)

-----------------------------------------------------------------------------
(* Reading.  Content is [keys, repeated, value]: the keys of the object the  *)
(* model wrote, whether one is repeated, and the value of "a"; or Refused.   *)

\* parse_answer_object
Parse(content, spec) ==
    IF /\ content # Refused
       /\ content.keys = {"a"} /\ ~content.repeated
       /\ Validates(spec, content.value)
    THEN content.value ELSE Refused

\* finalize_answer of the bridges, a copy of both.
Finalize(content, spec) ==
    LET value == Parse(content, spec)
    IN IF value = Refused THEN Refused
       ELSE [a |-> value, disposition |-> IF value = Null THEN "abstain" ELSE "answer"]

\* normalize_answer
Normalize(value) ==
    IF value = Refused THEN Refused
    ELSE [a |-> value, disposition |-> IF value = Null THEN "abstain" ELSE "answer"]

\* from_v11_plan: a plan, which fields it has, is either complete or for the model, never both or neither.
Delivery(called, reply, messages) ==
    CASE called /\ ~reply /\ messages -> "generate"
      [] ~called /\ reply /\ ~messages -> "complete"
      [] OTHER -> Refused
=============================================================================
