------------------------------ MODULE XsContext ------------------------------
(***************************************************************************)
(* The opaque context of the C ABI (crates/exactscope-cabi/src/lib.rs):    *)
(* its configuration flags, its frozen bit and its dynamic pack slots, and *)
(* what each call does to it or answers from it.                           *)
(*                                                                         *)
(* A context is a value and a call is an operator, so that a host may own  *)
(* several contexts and a wrapper may make several calls in one operation. *)
(* A pack stands for one .xsp file: its identity, its operations by        *)
(* pack-local id (ids and keys are unique in a pack that PackView::parse   *)
(* accepts), its length, its declared vector length, and whether parse     *)
(* accepts it.                                                             *)
(***************************************************************************)
EXTENDS Naturals, FiniteSetsExt

CONSTANTS
  Packs,         \* .xsp files: [id, ops, len, vector, valid]
  NoPack,        \* an empty slot
  NoKey,         \* no operation
  Fused,         \* operation key -> handle in the two fused registries
  ReservedIds,   \* identities of the fused packs
  MaxPacks,      \* xs_config_v1.max_packs
  MaxVectorLen   \* xs_config_v1.max_vector_len

FirstDynamicSlot == 3
FusedSlots       == {1, 2}
DynamicSlots     == FirstDynamicSlot .. MaxPacks
OpKeys(p)        == {p.ops[i] : i \in DOMAIN p.ops}

ASSUME ContextAssumption ==
  /\ MaxPacks \in 1 .. 8
  /\ MaxVectorLen \in Nat
  /\ NoPack \notin Packs
  /\ \A p \in Packs :
       /\ p.len \in Nat \ {0}
       /\ p.vector \in Nat
       /\ DOMAIN p.ops \subseteq Nat
       /\ NoKey \notin OpKeys(p)
       /\ \A i, j \in DOMAIN p.ops : p.ops[i] = p.ops[j] => i = j
  /\ NoKey \notin DOMAIN Fused
  /\ \A k \in DOMAIN Fused : Fused[k].slot \in FusedSlots
  /\ \A k, l \in DOMAIN Fused : Fused[k] = Fused[l] => k = l

Flags    == {"dynamic", "freeze", "discovery"}
Context  == [flags: SUBSET Flags, frozen: BOOLEAN, slots: [DynamicSlots -> Packs \union {NoPack}]]
NoHandle == [slot |-> 0, id |-> 0]    \* what a failed lookup writes

Mounted(ctx)   == {s \in DynamicSlots : ctx.slots[s] # NoPack}
Installed(ctx) == {ctx.slots[s] : s \in Mounted(ctx)}

-----------------------------------------------------------------------------
(* xs_context_init and xs_context_reset differ in nothing but the memory.  *)
ContextInit(flags) ==
  [flags |-> flags, frozen |-> "freeze" \in flags, slots |-> [s \in DynamicSlots |-> NoPack]]

ContextReset(ctx) == ContextInit(ctx.flags)

RegistryFreeze(ctx) == [ctx EXCEPT !.frozen = TRUE]

-----------------------------------------------------------------------------
(* Mutant: only the pack identities are compared.                          *)
RegistrableById(ctx, p) ==
  /\ p.id \notin ReservedIds
  /\ \A q \in Installed(ctx) : q.id # p.id

(* validate_dynamic_pack_registration: the pack identity and every key it  *)
(* brings are new to the fused registries and to the mounted packs.        *)
Registrable(ctx, p) ==
  /\ p.id \notin ReservedIds
  /\ OpKeys(p) \intersect DOMAIN Fused = {}
  /\ \A q \in Installed(ctx) : q.id # p.id /\ OpKeys(p) \intersect OpKeys(q) = {}

(* xs_pack_mount: its checks in order; a zero-copy mount needs no arena.   *)
MountStatus(ctx, p) ==
  IF "dynamic" \notin ctx.flags THEN "unsupported"
  ELSE IF ctx.frozen THEN "invalid_request"
  ELSE IF ~p.valid THEN "pack_invalid"
  ELSE IF p.vector > MaxVectorLen THEN "resource_limit"
  ELSE IF ~Registrable(ctx, p) THEN "pack_invalid"
  ELSE IF Mounted(ctx) = DynamicSlots THEN "resource_limit"
  ELSE "ok"

(* Mutant: the first slot is taken, free or not.                           *)
AlwaysFirstSlot(ctx) == FirstDynamicSlot

(* The lowest free slot.                                                   *)
FreshSlot(ctx) == Min(DynamicSlots \ Mounted(ctx))

PackMount(ctx, p) == [ctx EXCEPT !.slots[FreshSlot(ctx)] = p]

UnmountStatus(ctx, slot) ==
  IF "dynamic" \notin ctx.flags THEN "unsupported"
  ELSE IF ctx.frozen THEN "invalid_request"
  ELSE IF slot \notin Mounted(ctx) THEN "unknown_pack"
  ELSE "ok"

PackUnmount(ctx, slot) == [ctx EXCEPT !.slots[slot] = NoPack]

-----------------------------------------------------------------------------
(* xs_lookup: the fused registries first, then the first slot with the key.*)
Holders(ctx, k) == {s \in Mounted(ctx) : k \in OpKeys(ctx.slots[s])}

IdOf(p, k) == CHOOSE i \in DOMAIN p.ops : p.ops[i] = k

Lookup(ctx, k) ==
  IF k \in DOMAIN Fused THEN Fused[k]
  ELSE IF "dynamic" \notin ctx.flags \/ Holders(ctx, k) = {} THEN NoHandle
  ELSE LET s == Min(Holders(ctx, k)) IN [slot |-> s, id |-> IdOf(ctx.slots[s], k)]

(* xs_eval up to its arguments: the operation a handle names, by its key.  *)
Evaluated(ctx, h) ==
  IF h.slot \in FusedSlots
    THEN IF \E k \in DOMAIN Fused : Fused[k] = h
           THEN CHOOSE k \in DOMAIN Fused : Fused[k] = h ELSE NoKey
  ELSE IF "dynamic" \notin ctx.flags \/ h.slot \notin Mounted(ctx) THEN NoKey
  ELSE IF h.id \in DOMAIN ctx.slots[h.slot].ops THEN ctx.slots[h.slot].ops[h.id]
  ELSE NoKey
=============================================================================
