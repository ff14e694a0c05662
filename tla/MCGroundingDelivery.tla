------------------------- MODULE MCGroundingDelivery -------------------------
(* A small instance of GroundingDelivery: a target with two sources and one  *)
(* with one, under three profiles.                                           *)
EXTENDS GroundingDelivery

CONSTANTS desk, tip   \* targets

Scalar(type, value, unit) == [kind |-> "scalar", type |-> type, value |-> value, unit |-> unit]
Text(text)                == [kind |-> "text", text |-> text]
Item(source, id, target, content, bytes) ==
  [source |-> source, id |-> id, target |-> target, content |-> content, bytes |-> bytes]

(* The directory holds two editions of the desk's room, the notes agree with *)
(* the first; the notes have two texts for the tip.                          *)
SmallItems ==
  {Item("directory", "room", desk, Scalar("integer", "14", NoUnit), 1),
   Item("directory", "annex", desk, Scalar("decimal", "14.1", NoUnit), 1),
   Item("notes", "room", desk, Scalar("integer", "14", NoUnit), 1),
   Item("notes", "tip", tip, Text("ring"), 2),
   Item("notes", "other", tip, Text("knock"), 1)}

Binding(provider, refs, required) == [provider |-> provider, refs |-> refs, required |-> required]

SmallProfile(notesRequired, tipAuthority, ambiguity, items, candidates, content) ==
  [targets |-> [t \in {desk, tip} |->
     IF t = desk
       THEN [authority |-> "authoritative",
             bindings |-> {Binding("local", <<"directory">>, TRUE),
                           Binding("local", <<"notes">>, notesRequired)}]
       ELSE [authority |-> tipAuthority, bindings |-> {Binding("local", <<"notes">>, TRUE)}]],
   items |-> SmallItems, ambiguity |-> ambiguity,
   limits |-> [groups |-> 2, candidates |-> candidates, items |-> items, content |-> content,
               frame |-> 3, model_items |-> 2]]

(* Every source required; the notes optional and the tip authoritative; and  *)
(* narrow limits.                                                            *)
SmallProfiles ==
  {SmallProfile(TRUE, "supplemental", FALSE, 2, 2, 2),
   SmallProfile(FALSE, "authoritative", TRUE, 2, 2, 2),
   [SmallProfile(FALSE, "supplemental", FALSE, 1, 1, 1) EXCEPT !.limits.groups = 1]}

Prepared(kind, accepts, prompt, corpus) ==
  [kind |-> kind, accepts |-> accepts, proof_first |-> TRUE, prompt |-> prompt, corpus |-> corpus]

SmallPreparations ==
  {Prepared("number", {"14", "14.0999"}, "full", TRUE),
   Prepared("text", {<<"14", NoUnit>>}, "no-policy", FALSE)}

SmallRoutes == {{desk}, {tip}}
Nearest(v)  == IF v = "14.1" THEN "14.0999" ELSE v
===============================================================================
