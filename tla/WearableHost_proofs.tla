------------------------- MODULE WearableHost_proofs -------------------------
(***************************************************************************)
(* Proofs about the wearable reference host, for every set of packs, every *)
(* fused table and every limit: types, unambiguous keys, handles that      *)
(* answer for good, and that the host implements the pack service.         *)
(*                                                                         *)
(* Handles stay because nothing but a fresh start changes a frozen         *)
(* context, and the frozen bit of the context follows the host's state.    *)
(***************************************************************************)
EXTENDS WearableHost, FiniteSetTheorems, TLAPS

(* A nonempty set of numbers up to eight has a least one, so Min picks it. *)
LEMMA MinPicks ==
  ASSUME NEW S, S \subseteq 0 .. 8, S # {}
  PROVE  Min(S) \in S
<1>1. PICK e \in S : e \in 0 .. 8
  OBVIOUS
<1>2. \E n \in 0 .. 8 : n \in S
  BY <1>1
<1>3. \E x \in S : \A y \in S : x =< y
  <2>1. CASE 0 \in S  BY <2>1
  <2>2. CASE 0 \notin S /\ 1 \in S  BY <2>2
  <2>3. CASE 0 \notin S /\ 1 \notin S /\ 2 \in S  BY <2>3
  <2>4. CASE 0 \notin S /\ 1 \notin S /\ 2 \notin S /\ 3 \in S  BY <2>4
  <2>5. CASE 0 \notin S /\ 1 \notin S /\ 2 \notin S /\ 3 \notin S /\ 4 \in S  BY <2>5
  <2>6. CASE 0 \notin S /\ 1 \notin S /\ 2 \notin S /\ 3 \notin S /\ 4 \notin S /\ 5 \in S  BY <2>6
  <2>7. CASE 0 \notin S /\ 1 \notin S /\ 2 \notin S /\ 3 \notin S /\ 4 \notin S /\ 5 \notin S /\ 6 \in S  BY <2>7
  <2>8. CASE 0 \notin S /\ 1 \notin S /\ 2 \notin S /\ 3 \notin S /\ 4 \notin S /\ 5 \notin S /\ 6 \notin S /\ 7 \in S  BY <2>8
  <2>9. CASE 0 \notin S /\ 1 \notin S /\ 2 \notin S /\ 3 \notin S /\ 4 \notin S /\ 5 \notin S /\ 6 \notin S /\ 7 \notin S /\ 8 \in S  BY <2>9
  <2>10. \/ 0 \in S \/ 1 \in S \/ 2 \in S \/ 3 \in S \/ 4 \in S
         \/ 5 \in S \/ 6 \in S \/ 7 \in S \/ 8 \in S
    BY <1>2
  <2> QED  BY <2>1, <2>2, <2>3, <2>4, <2>5, <2>6, <2>7, <2>8, <2>9, <2>10
<1> QED  BY <1>3 DEF Min

(* The slots and indices are numbers up to eight.                          *)
LEMMA SlotsAreSmall ==
  /\ DynamicSlots \subseteq 0 .. 8
  /\ DynamicSlots \subseteq 0 .. MaxPacks
  /\ Indices \subseteq 0 .. 8
  /\ MaxPacks \in Nat
  /\ DynamicSlots \intersect FusedSlots = {}
BY ContextAssumption DEF DynamicSlots, FirstDynamicSlot, Indices, FusedSlots

(* Freezing changes the frozen bit alone.                                  *)
LEMMA FreezeKeeps ==
  ASSUME NEW ctx \in Context
  PROVE  /\ RegistryFreeze(ctx) \in Context
         /\ RegistryFreeze(ctx).frozen
         /\ RegistryFreeze(ctx).flags = ctx.flags
         /\ RegistryFreeze(ctx).slots = ctx.slots
         /\ Mounted(RegistryFreeze(ctx)) = Mounted(ctx)
BY DEF RegistryFreeze, Context, Mounted

(* A context made by init or reset is an empty context.                    *)
LEMMA FreshContext ==
  ASSUME NEW f \in SUBSET Flags
  PROVE  /\ ContextInit(f) \in Context
         /\ Mounted(ContextInit(f)) = {}
         /\ ContextInit(f).frozen <=> "freeze" \in f
         /\ ContextInit(f).flags = f
<1>1. ("freeze" \in f) \in BOOLEAN  OBVIOUS
<1>2. ContextInit(f).slots = [s \in DynamicSlots |-> NoPack]  BY DEF ContextInit
<1>3. Mounted(ContextInit(f)) = {}  BY <1>2 DEF Mounted
<1>4. /\ ContextInit(f).frozen <=> "freeze" \in f
      /\ ContextInit(f).flags = f
  BY DEF ContextInit
<1>5. ContextInit(f) \in Context
  <2>1. \A b \in BOOLEAN :
          [flags |-> f, frozen |-> b, slots |-> [s \in DynamicSlots |-> NoPack]] \in Context
    BY DEF Context
  <2> QED  BY <1>1, <2>1, Zenon DEF ContextInit
<1> QED  BY <1>3, <1>4, <1>5

(* A mount the context accepts takes one free slot.                        *)
LEMMA MountTakesFreeSlot ==
  ASSUME NEW ctx \in Context, NEW p \in Packs, MountStatus(ctx, p) = "ok"
  PROVE  /\ FreshSlot(ctx) \in DynamicSlots \ Mounted(ctx)
         /\ PackMount(ctx, p) \in Context
         /\ PackMount(ctx, p).flags = ctx.flags
         /\ PackMount(ctx, p).frozen = ctx.frozen
         /\ ~ctx.frozen
         /\ p.valid
         /\ Registrable(ctx, p)
         /\ \A s \in DynamicSlots :
              PackMount(ctx, p).slots[s] = IF s = FreshSlot(ctx) THEN p ELSE ctx.slots[s]
         /\ Mounted(PackMount(ctx, p)) = Mounted(ctx) \union {FreshSlot(ctx)}
<1>1. /\ Mounted(ctx) # DynamicSlots
      /\ ~ctx.frozen /\ p.valid /\ Registrable(ctx, p)
  BY DEF MountStatus
<1>2. FreshSlot(ctx) \in DynamicSlots \ Mounted(ctx)
  <2>1. DynamicSlots \ Mounted(ctx) # {}  BY <1>1 DEF Mounted
  <2> QED  BY <2>1, SlotsAreSmall, MinPicks DEF FreshSlot
<1>3. /\ PackMount(ctx, p) \in Context
      /\ PackMount(ctx, p).flags = ctx.flags
      /\ PackMount(ctx, p).frozen = ctx.frozen
      /\ \A s \in DynamicSlots :
           PackMount(ctx, p).slots[s] = IF s = FreshSlot(ctx) THEN p ELSE ctx.slots[s]
  BY <1>2 DEF PackMount, Context
<1>4. Mounted(PackMount(ctx, p)) = Mounted(ctx) \union {FreshSlot(ctx)}
  BY <1>2, <1>3, ContextAssumption DEF Mounted
<1> QED  BY <1>1, <1>2, <1>3, <1>4

(* An unmount the context accepts empties one slot.                        *)
LEMMA UnmountEmptiesSlot ==
  ASSUME NEW ctx \in Context, NEW slot, UnmountStatus(ctx, slot) = "ok"
  PROVE  /\ slot \in DynamicSlots
         /\ ~ctx.frozen
         /\ PackUnmount(ctx, slot) \in Context
         /\ PackUnmount(ctx, slot).flags = ctx.flags
         /\ PackUnmount(ctx, slot).frozen = ctx.frozen
         /\ Mounted(PackUnmount(ctx, slot)) = Mounted(ctx) \ {slot}
         /\ \A s \in DynamicSlots \ {slot} : PackUnmount(ctx, slot).slots[s] = ctx.slots[s]
<1>1. slot \in Mounted(ctx) /\ ~ctx.frozen  BY DEF UnmountStatus
<1>2. slot \in DynamicSlots  BY <1>1 DEF Mounted
<1>3. /\ PackUnmount(ctx, slot) \in Context
      /\ PackUnmount(ctx, slot).flags = ctx.flags
      /\ PackUnmount(ctx, slot).frozen = ctx.frozen
      /\ \A s \in DynamicSlots \ {slot} : PackUnmount(ctx, slot).slots[s] = ctx.slots[s]
      /\ PackUnmount(ctx, slot).slots[slot] = NoPack
  BY <1>2 DEF PackUnmount, Context
<1>4. Mounted(PackUnmount(ctx, slot)) = Mounted(ctx) \ {slot}
  BY <1>2, <1>3 DEF Mounted
<1> QED  BY <1>1, <1>2, <1>3, <1>4

(* A successful lookup of a key gives a handle of that key.                *)
LEMMA LookupAnswers ==
  ASSUME NEW ctx \in Context, NEW k, Lookup(ctx, k) # NoHandle
  PROVE  /\ Evaluated(ctx, Lookup(ctx, k)) = k
         /\ Lookup(ctx, k) \in Handles \union {Fused[l] : l \in DOMAIN Fused}
<1>1. CASE k \in DOMAIN Fused
  <2>1. Lookup(ctx, k) = Fused[k]  BY <1>1 DEF Lookup
  <2>2. Fused[k].slot \in FusedSlots  BY <1>1, ContextAssumption
  <2>3. (CHOOSE l \in DOMAIN Fused : Fused[l] = Fused[k]) = k
    BY <1>1, ContextAssumption
  <2> QED  BY <1>1, <2>1, <2>2, <2>3 DEF Evaluated
<1>2. CASE k \notin DOMAIN Fused
  <2> DEFINE s == Min(Holders(ctx, k))
  <2> DEFINE q == ctx.slots[s]
  <2>1. "dynamic" \in ctx.flags /\ Holders(ctx, k) # {}  BY <1>2 DEF Lookup
  <2>2. s \in Holders(ctx, k)
    <3>1. Holders(ctx, k) \subseteq 0 .. 8  BY SlotsAreSmall DEF Holders, Mounted
    <3> QED  BY <2>1, <3>1, MinPicks
  <2>3. s \in Mounted(ctx) /\ k \in OpKeys(q)  BY <2>2 DEF Holders
  <2>4. q \in Packs /\ s \in DynamicSlots  BY <2>3 DEF Mounted, Context
  <2>5. IdOf(q, k) \in DOMAIN q.ops /\ q.ops[IdOf(q, k)] = k  BY <2>3 DEF OpKeys, IdOf
  <2>6. Lookup(ctx, k) = [slot |-> s, id |-> IdOf(q, k)]  BY <1>2, <2>1 DEF Lookup
  <2>7. s \notin FusedSlots  BY <2>4, SlotsAreSmall
  <2>8. IdOf(q, k) \in Nat  BY <2>4, <2>5, ContextAssumption
  <2> HIDE DEF s, q
  <2>9. Lookup(ctx, k) \in Handles
    <3>1. s \in 0 .. MaxPacks  BY <2>4, SlotsAreSmall
    <3> QED  BY <2>6, <2>8, <3>1 DEF Handles
  <2>10. Evaluated(ctx, Lookup(ctx, k)) = k
    BY <2>1, <2>3, <2>5, <2>6, <2>7 DEF Evaluated, q
  <2> QED  BY <2>9, <2>10
<1> QED  BY <1>1, <1>2

-----------------------------------------------------------------------------
(* The inductive invariant.                                                *)

FrozenTogether == (context.frozen <=> state = "frozen") /\ "freeze" \notin context.flags

HostIInv == HostTypeOK /\ FrozenTogether /\ RegistryUnambiguous /\ HandlesStay

(* Tracking types alone; the other variables have their own steps.         *)
TrackingTypes ==
  /\ pack_slots \in [Indices -> 0 .. MaxPacks]
  /\ pack_lengths \in [Indices -> 0 .. MaxPackBytes]
  /\ mounted_pack_count \in 0 .. MaxPacks
  /\ mounted_pack_bytes \in 0 .. MaxTotalBytes

(* With no handle held, handles stay; with nothing mounted, keys are       *)
(* unambiguous.                                                            *)
LEMMA NothingToLose ==
  /\ NothingHeld \in [Keys -> Handles]
  /\ held = NothingHeld => HandlesStay
  /\ Mounted(context) = {} => RegistryUnambiguous
<1>1. NoHandle \in Handles  BY SlotsAreSmall DEF NoHandle, Handles
<1> QED  BY <1>1 DEF NothingHeld, HandlesStay, RegistryUnambiguous

(* Clearing gives the tracking variables their types.                      *)
LEMMA ClearTypes == ClearTracking => TrackingTypes'
<1>1. /\ 0 \in 0 .. MaxPacks /\ 0 \in 0 .. MaxPackBytes /\ 0 \in 0 .. MaxTotalBytes
  BY SlotsAreSmall, HostAssumption
<1> QED  BY <1>1 DEF ClearTracking, TrackingTypes, EmptySlots

(* The invariant holds before the host is initialised.                     *)
LEMMA HostInitIInv == HostInit => HostIInv
<1> SUFFICES ASSUME HostInit PROVE HostIInv
  OBVIOUS
<1>1. /\ context \in Context /\ Mounted(context) = {}
      /\ context.flags = {} /\ ~context.frozen
  BY FreshContext DEF HostInit, Flags
<1>2. HandlesStay /\ RegistryUnambiguous /\ held \in [Keys -> Handles]
  BY <1>1, NothingToLose DEF HostInit
<1>3. FrozenTogether  BY <1>1 DEF FrozenTogether, HostInit
<1>4. HostTypeOK
  BY <1>1, <1>2, SlotsAreSmall, HostAssumption
     DEF HostTypeOK, HostInit, Modes, States, EmptySlots
<1> QED  BY <1>2, <1>3, <1>4 DEF HostIInv

(* A fresh start establishes the invariant, from an empty context whose    *)
(* frozen bit is clear.                                                    *)
LEMMA FreshKeeps ==
  ASSUME NEW m \in Modes, NEW ctx \in Context, Mounted(ctx) = {}, ~ctx.frozen,
         "freeze" \notin ctx.flags, Fresh(m, ctx), mode' \in Modes
  PROVE  HostIInv'
<1>1. /\ context' \in Context
      /\ Mounted(context') = {}
      /\ context'.frozen <=> state' = "frozen"
      /\ "freeze" \notin context'.flags
  BY FreezeKeeps DEF Fresh
<1>2. held' = NothingHeld  BY DEF Fresh
<1>3. HandlesStay'  BY <1>2 DEF HandlesStay, NothingHeld
<1>4. RegistryUnambiguous'  BY <1>1 DEF RegistryUnambiguous
<1>5. TrackingTypes'  BY ClearTypes DEF Fresh
<1>6. HostTypeOK'
  BY <1>1, <1>2, <1>5, NothingToLose DEF HostTypeOK, TrackingTypes, Fresh, States
<1> QED  BY <1>1, <1>3, <1>4, <1>6 DEF HostIInv, FrozenTogether

(* xsw_ref_init, at any time.                                              *)
LEMMA InitializeKeeps ==
  ASSUME NEW m \in {"fused", "dynamic"}, Initialize(m)
  PROVE  HostIInv'
<1>1. Config(m) \in SUBSET Flags /\ "freeze" \notin Config(m)  BY DEF Config, Flags
<1>2. m \in Modes /\ mode' \in Modes  BY DEF Modes, Initialize
<1> QED  BY <1>1, <1>2, FreshContext, FreshKeeps DEF Initialize

(* xsw_ref_reset, from any state.                                          *)
LEMMA ResetKeeps ==
  ASSUME HostIInv, Reset
  PROVE  HostIInv'
<1>1. context.flags \in SUBSET Flags /\ "freeze" \notin context.flags
  BY DEF HostIInv, HostTypeOK, FrozenTogether, Context
<1>2. mode \in Modes /\ mode' \in Modes  BY DEF HostIInv, HostTypeOK, Reset
<1> QED  BY <1>1, <1>2, FreshContext, FreshKeeps DEF Reset, ContextReset

(* xsw_ref_mount: the new pack shares nothing with the others, and no      *)
(* handle is held while the host is mutable.                               *)
LEMMA MountKeeps ==
  ASSUME HostIInv, NEW p \in Packs, Mount(p)
  PROVE  HostIInv'
<1>1. HostTypeOK /\ FrozenTogether /\ RegistryUnambiguous /\ HandlesStay  BY DEF HostIInv
<1>2. ~context.frozen /\ state = "mutable"  BY <1>1 DEF Mount, FrozenTogether
<1>3. held' = held /\ mode' = mode  BY DEF Mount
<1>4. \A k \in Keys : held[k] = NoHandle  BY <1>1, <1>2, HostAssumption DEF HandlesStay, Serves
<1>5. HandlesStay'  BY <1>3, <1>4 DEF HandlesStay
<1>6. CASE FreeIndices = {}
  <2>1. state' = "faulted" /\ UNCHANGED <<context, tracking>>  BY <1>6 DEF Mount
  <2>2. HostTypeOK'  BY <1>1, <1>3, <2>1 DEF HostTypeOK, tracking, States
  <2>3. RegistryUnambiguous'  BY <1>1, <2>1 DEF RegistryUnambiguous, Mounted
  <2>4. FrozenTogether'  BY <1>1, <1>2, <2>1 DEF FrozenTogether
  <2> QED  BY <1>5, <2>2, <2>3, <2>4 DEF HostIInv
<1>7. CASE FreeIndices # {}
  <2>1. /\ MountStatus(context, p) = "ok"
        /\ context' = PackMount(context, p)
        /\ Track(Min(FreeIndices), FreshSlot(context), p)
        /\ state' = state
    BY <1>7 DEF Mount
  <2>2. context \in Context  BY <1>1 DEF HostTypeOK
  <2>3. /\ FreshSlot(context) \in DynamicSlots \ Mounted(context)
        /\ context' \in Context
        /\ context'.flags = context.flags /\ context'.frozen = context.frozen
        /\ p.valid /\ Registrable(context, p)
        /\ \A s \in DynamicSlots :
             context'.slots[s] = IF s = FreshSlot(context) THEN p ELSE context.slots[s]
        /\ Mounted(context') = Mounted(context) \union {FreshSlot(context)}
    BY <2>1, <2>2, MountTakesFreeSlot
  <2>4. FrozenTogether'  BY <1>1, <2>1, <2>3 DEF FrozenTogether
  <2>5. Min(FreeIndices) \in Indices
    <3>1. FreeIndices \subseteq 0 .. 8 /\ FreeIndices \subseteq Indices
      BY SlotsAreSmall DEF FreeIndices
    <3> QED  BY <1>7, <3>1, MinPicks
  <2>6. TrackingTypes'
    <3>1. /\ p.len \in Nat /\ p.len <= MaxPackBytes
          /\ mounted_pack_count < MaxPacks
          /\ p.len <= MaxTotalBytes - mounted_pack_bytes
      BY ContextAssumption DEF Mount, RoomFor
    <3>2. mounted_pack_count' \in 0 .. MaxPacks /\ mounted_pack_bytes' \in 0 .. MaxTotalBytes
      BY <1>1, <2>1, <3>1, SlotsAreSmall, HostAssumption DEF Track, HostTypeOK
    <3>3. pack_slots' \in [Indices -> 0 .. MaxPacks]
      BY <1>1, <2>1, <2>3, <2>5, SlotsAreSmall DEF Track, HostTypeOK
    <3>4. pack_lengths' \in [Indices -> 0 .. MaxPackBytes]
      <4>1. p.len \in 0 .. MaxPackBytes  BY <3>1, HostAssumption
      <4> QED  BY <1>1, <2>1, <2>5, <4>1 DEF Track, HostTypeOK
    <3> QED  BY <3>2, <3>3, <3>4 DEF TrackingTypes
  <2>7. HostTypeOK'
    BY <1>1, <1>3, <2>1, <2>3, <2>6 DEF HostTypeOK, TrackingTypes
  <2>8. RegistryUnambiguous'
    <3>1. /\ p.id \notin ReservedIds
          /\ OpKeys(p) \intersect DOMAIN Fused = {}
          /\ \A s \in Mounted(context) :
               /\ context.slots[s].id # p.id
               /\ OpKeys(p) \intersect OpKeys(context.slots[s]) = {}
      BY <2>3 DEF Registrable, Installed
    <3>2. \A s \in Mounted(context) : s # FreshSlot(context) /\ s \in DynamicSlots
      BY <2>3 DEF Mounted
    <3>3. \A s \in Mounted(context) : context'.slots[s] = context.slots[s]
      BY <2>3, <3>2
    <3>4. context'.slots[FreshSlot(context)] = p  BY <2>3
    <3> QED  BY <1>1, <2>3, <3>1, <3>2, <3>3, <3>4 DEF RegistryUnambiguous
  <2> QED  BY <1>5, <2>4, <2>7, <2>8 DEF HostIInv
<1> QED  BY <1>6, <1>7

(* xsw_ref_unmount, the faulting branch included.                          *)
LEMMA UnmountKeeps ==
  ASSUME HostIInv, NEW slot, Unmount(slot)
  PROVE  HostIInv'
<1>1. HostTypeOK /\ FrozenTogether /\ RegistryUnambiguous /\ HandlesStay  BY DEF HostIInv
<1>2. ~context.frozen /\ state = "mutable"  BY <1>1 DEF Unmount, FrozenTogether
<1>3. held' = held /\ mode' = mode  BY DEF Unmount
<1>4. \A k \in Keys : held[k] = NoHandle  BY <1>1, <1>2, HostAssumption DEF HandlesStay, Serves
<1>5. HandlesStay'  BY <1>3, <1>4 DEF HandlesStay
<1>6. /\ slot \in DynamicSlots
      /\ context' \in Context
      /\ context'.flags = context.flags /\ context'.frozen = context.frozen
      /\ Mounted(context') = Mounted(context) \ {slot}
      /\ \A s \in DynamicSlots \ {slot} : context'.slots[s] = context.slots[s]
  BY <1>1, UnmountEmptiesSlot DEF Unmount, HostTypeOK
<1>7. RegistryUnambiguous'
  <2>1. \A s \in Mounted(context') :
          s \in Mounted(context) /\ context'.slots[s] = context.slots[s]
    BY <1>6 DEF Mounted
  <2> QED  BY <1>1, <2>1 DEF RegistryUnambiguous
<1> DEFINE i == Min({j \in Indices : pack_slots[j] = slot})
<1>8. i \in Indices /\ Untrack(i)
  <2>1. /\ {j \in Indices : pack_slots[j] = slot} # {}
        /\ {j \in Indices : pack_slots[j] = slot} \subseteq 0 .. 8
    BY SlotsAreSmall DEF Unmount
  <2> QED  BY <2>1, MinPicks DEF Unmount
<1> HIDE DEF i
<1>9. CASE mounted_pack_bytes < pack_lengths[i] \/ mounted_pack_count = 0
  <2>1. state' = "faulted" /\ UNCHANGED tracking  BY <1>8, <1>9 DEF Untrack
  <2>2. HostTypeOK'  BY <1>1, <1>3, <1>6, <2>1 DEF HostTypeOK, tracking, States
  <2> QED  BY <1>1, <1>2, <1>5, <1>6, <1>7, <2>1, <2>2 DEF HostIInv, FrozenTogether
<1>10. CASE ~(mounted_pack_bytes < pack_lengths[i] \/ mounted_pack_count = 0)
  <2>1. /\ mounted_pack_bytes' = mounted_pack_bytes - pack_lengths[i]
        /\ mounted_pack_count' = mounted_pack_count - 1
        /\ pack_slots' = [pack_slots EXCEPT ![i] = 0]
        /\ pack_lengths' = [pack_lengths EXCEPT ![i] = 0]
        /\ state' = state
    BY <1>8, <1>10 DEF Untrack
  <2>2. pack_lengths[i] \in 0 .. MaxPackBytes  BY <1>1, <1>8 DEF HostTypeOK
  <2>3. mounted_pack_bytes' \in 0 .. MaxTotalBytes /\ mounted_pack_count' \in 0 .. MaxPacks
    BY <1>1, <1>10, <2>1, <2>2, SlotsAreSmall, HostAssumption DEF HostTypeOK
  <2>4. 0 \in 0 .. MaxPacks /\ 0 \in 0 .. MaxPackBytes  BY SlotsAreSmall, HostAssumption
  <2>5. pack_slots' \in [Indices -> 0 .. MaxPacks] /\ pack_lengths' \in [Indices -> 0 .. MaxPackBytes]
    BY <1>1, <2>1, <2>4 DEF HostTypeOK
  <2>6. HostTypeOK'  BY <1>1, <1>3, <1>6, <2>1, <2>3, <2>5 DEF HostTypeOK
  <2> QED  BY <1>1, <1>2, <1>5, <1>6, <1>7, <2>1, <2>6 DEF HostIInv, FrozenTogether
<1> QED  BY <1>9, <1>10

(* xsw_ref_finish_install.                                                 *)
LEMMA FinishKeeps ==
  ASSUME HostIInv, FinishInstall
  PROVE  HostIInv'
<1>1. HostTypeOK /\ FrozenTogether /\ RegistryUnambiguous /\ HandlesStay  BY DEF HostIInv
<1>2. /\ context' \in Context /\ context'.frozen /\ context'.flags = context.flags
      /\ context'.slots = context.slots /\ Mounted(context') = Mounted(context)
  BY <1>1, FreezeKeeps DEF FinishInstall, HostTypeOK
<1>3. \A k \in Keys : held[k] = NoHandle
  BY <1>1, HostAssumption DEF HandlesStay, Serves, FinishInstall
<1>4. HandlesStay'  BY <1>3 DEF HandlesStay, FinishInstall
<1>5. RegistryUnambiguous'  BY <1>1, <1>2 DEF RegistryUnambiguous
<1>6. HostTypeOK'  BY <1>1, <1>2 DEF HostTypeOK, FinishInstall, tracking, States
<1> QED  BY <1>1, <1>2, <1>4, <1>5, <1>6 DEF HostIInv, FrozenTogether, FinishInstall

(* A product keeps a handle that evaluates to its key.                     *)
LEMMA KeepKeeps ==
  ASSUME HostIInv, NEW k \in Keys, NEW h, Keep(k, h), state = "frozen",
         Evaluated(context, h) = k, h \in Handles \union {Fused[l] : l \in DOMAIN Fused}
  PROVE  HostIInv'
<1>1. HostTypeOK /\ FrozenTogether /\ RegistryUnambiguous /\ HandlesStay  BY DEF HostIInv
<1>2. held' = [held EXCEPT ![k] = h] /\ UNCHANGED <<mode, state, context, tracking>>
  BY DEF Keep
<1>3. HostTypeOK'  BY <1>1, <1>2 DEF HostTypeOK, tracking
<1>4. FrozenTogether'  BY <1>1, <1>2 DEF FrozenTogether
<1>5. RegistryUnambiguous'  BY <1>1, <1>2 DEF RegistryUnambiguous, Mounted
<1>6. \A g : Serves(g)' = Serves(g)  BY <1>2 DEF Serves, Evaluated, Mounted
<1>7. Serves(h) = k  BY DEF Serves
<1>8. \A l \in Keys : held'[l] = IF l = k THEN h ELSE held[l]  BY <1>1, <1>2 DEF HostTypeOK
<1>9. HandlesStay'
  <2> SUFFICES ASSUME NEW l \in Keys, held'[l] # NoHandle PROVE Serves(held[l])' = l
    BY DEF HandlesStay
  <2>1. Serves(held[l])' = Serves(held'[l])  BY <1>2 DEF Serves, Evaluated, Mounted
  <2>2. CASE l = k  BY <1>7, <1>8, <2>1, <2>2
  <2>3. CASE l # k  BY <1>1, <1>8, <2>1, <2>3 DEF HandlesStay
  <2> QED  BY <2>2, <2>3
<1> QED  BY <1>3, <1>4, <1>5, <1>9 DEF HostIInv

(* xsw_ref_lookup and xsw_ref_find.                                        *)
LEMMA AnswerKeeps ==
  ASSUME HostIInv, NEW k \in Keys, LookupKey(k) \/ FindKey(k)
  PROVE  HostIInv'
<1>0. context \in Context  BY DEF HostIInv, HostTypeOK
<1>1. CASE LookupKey(k)
  BY <1>0, <1>1, LookupAnswers, KeepKeeps DEF LookupKey
<1>2. CASE FindKey(k)
  <2>1. k \in DOMAIN Fused /\ state = "frozen" /\ Keep(k, Fused[k])  BY <1>2 DEF FindKey
  <2>2. (CHOOSE l \in DOMAIN Fused : Fused[l] = Fused[k]) = k  BY <2>1, ContextAssumption
  <2>3. Fused[k].slot \in FusedSlots  BY <2>1, ContextAssumption
  <2>4. Evaluated(context, Fused[k]) = k  BY <2>1, <2>2, <2>3 DEF Evaluated
  <2> QED  BY <2>1, <2>4, KeepKeeps
<1> QED  BY <1>1, <1>2

(* Every step keeps the invariant.                                         *)
LEMMA HostStepKeeps == HostIInv /\ [HostNext]_hostVars => HostIInv'
<1> SUFFICES ASSUME HostIInv, [HostNext]_hostVars PROVE HostIInv'
  OBVIOUS
<1>1. CASE \E m \in {"fused", "dynamic"} : Initialize(m)  BY <1>1, InitializeKeeps
<1>2. CASE Reset  BY <1>2, ResetKeeps
<1>3. CASE \E p \in Packs : Mount(p)  BY <1>3, MountKeeps
<1>4. CASE \E slot \in 0 .. MaxPacks + 1 : Unmount(slot)  BY <1>4, UnmountKeeps
<1>5. CASE FinishInstall  BY <1>5, FinishKeeps
<1>6. CASE \E k \in Keys : LookupKey(k) \/ FindKey(k)  BY <1>6, AnswerKeeps
<1>7. CASE UNCHANGED hostVars
  <2>1. UNCHANGED <<mode, state, context, pack_slots, pack_lengths, mounted_pack_count,
                    mounted_pack_bytes, held>>
    BY <1>7 DEF hostVars
  <2>2. HostTypeOK'  BY <2>1 DEF HostIInv, HostTypeOK
  <2>3. FrozenTogether'  BY <2>1 DEF HostIInv, FrozenTogether
  <2>4. RegistryUnambiguous'  BY <2>1 DEF HostIInv, RegistryUnambiguous, Mounted
  <2>5. HandlesStay'  BY <2>1 DEF HostIInv, HandlesStay, Serves, Evaluated, Mounted
  <2> QED  BY <2>2, <2>3, <2>4, <2>5 DEF HostIInv
<1> QED  BY <1>1, <1>2, <1>3, <1>4, <1>5, <1>6, <1>7 DEF HostNext

(* The host's invariant: types, context and host frozen together,          *)
(* unambiguous keys and handles that stay.                                 *)
THEOREM HostInvariant == HostSpec => []HostIInv
BY HostInitIInv, HostStepKeeps, PTL DEF HostSpec

(* Types; in particular the byte total never exceeds its limit, so the     *)
(* unsigned subtraction in xsw_ref_mount never wraps.                      *)
THEOREM HostTypes == HostSpec => []HostTypeOK
<1>1. HostIInv => HostTypeOK  BY DEF HostIInv
<1> QED  BY <1>1, HostInvariant, PTL

(* Whatever is mounted and unmounted in whatever order, a key means one    *)
(* operation.                                                              *)
THEOREM KeysMeanOneOperation == HostSpec => []RegistryUnambiguous
<1>1. HostIInv => RegistryUnambiguous  BY DEF HostIInv
<1> QED  BY <1>1, HostInvariant, PTL

(* A handle obtained while serving evaluates the operation it was asked    *)
(* for until the host starts over.                                         *)
THEOREM HandlesAnswerForGood == HostSpec => []HandlesStay
<1>1. HostIInv => HandlesStay  BY DEF HostIInv
<1> QED  BY <1>1, HostInvariant, PTL

-----------------------------------------------------------------------------
(* Counting bytes.                                                         *)

(* How many numbers there are from 1 to n.                                 *)
LEMMA IntervalFinite ==
  ASSUME NEW n \in Nat
  PROVE  IsFiniteSet(1 .. n) /\ Cardinality(1 .. n) = n
<1>1. 1 \in Int /\ n \in Int
  OBVIOUS
<1>2. IsFiniteSet(1 .. n) /\ Cardinality(1 .. n) = IF 1 > n THEN 0 ELSE n - 1 + 1
  BY <1>1, FS_Interval
<1> QED
  BY <1>2

(* The bytes of one more pack.                                             *)
LEMMA BytesAdded ==
  ASSUME NEW S, IsFiniteSet(Bytes(S)), NEW p, p \notin S, p.len \in Nat
  PROVE  /\ IsFiniteSet(Bytes(S \union {p}))
         /\ Cardinality(Bytes(S \union {p})) = Cardinality(Bytes(S)) + p.len
         /\ Cardinality(Bytes(S)) \in Nat
<1> DEFINE T == {p} \X (1 .. p.len)
           old == Bytes(S)
<1>1. Bytes(S \union {p}) = old \union T /\ old \intersect T = {}
  BY DEF Bytes
<1>2. IsFiniteSet(T) /\ Cardinality(T) = p.len
  <2>1. IsFiniteSet({p}) /\ Cardinality({p}) = 1
    BY FS_Singleton
  <2> DEFINE units == 1 .. p.len
  <2>2. IsFiniteSet(units) /\ Cardinality(units) = p.len
    BY IntervalFinite
  <2> HIDE DEF units
  <2>3. IsFiniteSet({p} \X units) /\ Cardinality({p} \X units) = 1 * Cardinality(units)
    BY <2>1, <2>2, FS_Product
  <2> QED
    BY <2>2, <2>3 DEF units
<1> HIDE DEF T, old
<1>3. Cardinality(old \intersect T) = 0
  BY <1>1, FS_EmptySet
<1>4. IsFiniteSet(old)
  BY DEF old
<1>5. Cardinality(old) \in Nat
  BY <1>4, FS_CardinalityType
<1>6. IsFiniteSet(old \union T) /\ Cardinality(old \union T) = Cardinality(old) + Cardinality(T) - Cardinality(old \intersect T)
  BY <1>2, <1>4, FS_Union
<1>7. Bytes(S) = old
  BY DEF old
<1>8. p.len \in Nat
  OBVIOUS
<1>9. Cardinality(old \union T) = Cardinality(old) + p.len
  BY <1>2, <1>3, <1>5, <1>6, <1>8
<1> QED
  BY <1>1, <1>5, <1>6, <1>7, <1>9

(* The bytes of one pack fewer.                                            *)
LEMMA BytesRemoved ==
  ASSUME NEW S, IsFiniteSet(Bytes(S)), NEW p \in S, p.len \in Nat
  PROVE  /\ IsFiniteSet(Bytes(S \ {p}))
         /\ Cardinality(Bytes(S)) = Cardinality(Bytes(S \ {p})) + p.len
         /\ Cardinality(Bytes(S \ {p})) \in Nat
<1>1. Bytes(S \ {p}) \subseteq Bytes(S)
  BY DEF Bytes
<1>2. IsFiniteSet(Bytes(S \ {p}))
  BY <1>1, FS_Subset
<1>3. (S \ {p}) \union {p} = S
  OBVIOUS
<1> QED
  BY <1>2, <1>3, BytesAdded

-----------------------------------------------------------------------------
(* The refinement.  The host's table and its two totals mirror the packs   *)
(* mounted in the context, which is why no call ever faults the host and   *)
(* why what it installs fits the limits.                                   *)

(* The rows name the mounted slots, each once, with the right lengths.     *)
Table ==
  /\ \A i \in Indices : pack_slots[i] # 0 =>
       pack_slots[i] \in Mounted(context) /\ pack_lengths[i] = context.slots[pack_slots[i]].len
  /\ \A s \in Mounted(context) : \E i \in Indices : pack_slots[i] = s
  /\ \A i, j \in Indices : pack_slots[i] # 0 /\ pack_slots[i] = pack_slots[j] => i = j
  /\ mounted_pack_count = Cardinality(Mounted(context))
  /\ IsFiniteSet(Bytes(Installed(context)))
  /\ mounted_pack_bytes = Cardinality(Bytes(Installed(context)))

(* The limits each mounted pack was held to when it was mounted.           *)
Fits == \A s \in Mounted(context) :
          context.slots[s].vector <= MaxVectorLen /\ context.slots[s].len <= MaxPackBytes

(* A fused host has no installing phase, and no host faults.               *)
Modal ==
  /\ mode = "none" => state = "uninitialized"
  /\ mode = "fused" => state = "frozen"
  /\ state # "faulted"

TableIInv == HostIInv /\ Table /\ Fits /\ Modal

(* Few slots are mounted.                                                  *)
LEMMA MountedFinite == IsFiniteSet(Mounted(context)) /\ Cardinality(Mounted(context)) \in Nat
<1>1. IsFiniteSet(0 .. 8)
  <2> DEFINE a == 0
             b == 8
  <2>1. a \in Int /\ b \in Int
    OBVIOUS
  <2> HIDE DEF a, b
  <2>2. IsFiniteSet(a .. b)
    BY <2>1, FS_Interval
  <2> QED
    BY <2>2 DEF a, b
<1>2. Mounted(context) \subseteq 0 .. 8
  BY SlotsAreSmall DEF Mounted
<1> QED
  BY <1>1, <1>2, FS_Subset, FS_CardinalityType

(* An empty table mirrors an empty context.                                *)
LEMMA EmptyTable ==
  ASSUME pack_slots = EmptySlots, mounted_pack_count = 0, mounted_pack_bytes = 0, Mounted(context) = {}
  PROVE  Table /\ Fits
<1>1. Installed(context) = {} /\ Bytes({}) = {}
  BY DEF Installed, Bytes
<1>2. IsFiniteSet({}) /\ Cardinality({}) = 0
  BY FS_EmptySet
<1> QED
  BY <1>1, <1>2 DEF Table, Fits, EmptySlots

(* Each row of the table names another mounted slot, so a row is free      *)
(* while fewer packs are mounted than there are rows.                      *)
LEMMA RowsSuffice ==
  ASSUME HostIInv, Table, mounted_pack_count < MaxPacks
  PROVE  FreeIndices # {}
<1> SUFFICES ASSUME FreeIndices = {} PROVE FALSE
  OBVIOUS
<1>1. \A i \in Indices : pack_slots[i] # 0
  BY DEF FreeIndices
<1>2. pack_slots \in Injection(Indices, Mounted(context))
  <2>1. pack_slots = [i \in Indices |-> pack_slots[i]]
    BY DEF HostIInv, HostTypeOK
  <2>2. \A i \in Indices : pack_slots[i] \in Mounted(context)
    BY <1>1 DEF Table
  <2>3. pack_slots \in [Indices -> Mounted(context)]
    BY <2>1, <2>2
  <2>4. \A i, j \in Indices : pack_slots[i] = pack_slots[j] => i = j
    BY <1>1 DEF Table
  <2> QED
    BY <2>3, <2>4 DEF Injection, IsInjective
<1>3. IsFiniteSet(Indices) /\ Cardinality(Indices) = MaxPacks
  <2> DEFINE a == 0  b == MaxPacks - 1
  <2>1. a \in Int /\ b \in Int /\ ~(a > b) /\ b - a + 1 = MaxPacks
    BY ContextAssumption
  <2>2. Indices = a .. b
    BY DEF Indices
  <2> HIDE DEF a, b
  <2> QED
    BY <2>1, <2>2, FS_Interval
<1>4. Cardinality(Indices) <= Cardinality(Mounted(context))
  BY <1>2, MountedFinite, FS_Injection
<1>5. mounted_pack_count = Cardinality(Mounted(context)) /\ mounted_pack_count \in Nat /\ MaxPacks \in Nat
  BY MountedFinite, SlotsAreSmall DEF Table
<1> QED
  BY <1>3, <1>4, <1>5

(* No pack is mounted twice.                                               *)
LEMMA PacksDiffer ==
  ASSUME HostIInv, NEW s \in Mounted(context), NEW t \in Mounted(context), s # t
  PROVE  context.slots[s] # context.slots[t]
BY DEF HostIInv, RegistryUnambiguous

(* A fresh start empties the table and is the service's start.             *)
LEMMA FreshServes ==
  ASSUME NEW m \in {"fused", "dynamic"}, NEW ctx \in Context, Mounted(ctx) = {}, Fresh(m, ctx), mode' = m
  PROVE  (Table /\ Fits /\ Modal)' /\ Service!Start
<1>1. Mounted(context') = {} /\ state' = (IF m = "fused" THEN "frozen" ELSE "mutable")
  BY FreezeKeeps DEF Fresh
<1>2. pack_slots' = EmptySlots /\ mounted_pack_count' = 0 /\ mounted_pack_bytes' = 0
  BY DEF Fresh, ClearTracking
<1>3. Installed(context') = {} /\ Bytes({}) = {}
  BY <1>1 DEF Installed, Bytes
<1>4. IsFiniteSet({}) /\ Cardinality({}) = 0
  BY FS_EmptySet
<1>5. Table' /\ Fits'
  BY <1>1, <1>2, <1>3, <1>4 DEF Table, Fits, EmptySlots
<1>6. Modal'
  BY <1>1 DEF Modal
<1>7. Service!Start
  BY <1>1, <1>3 DEF Service!Start
<1> QED
  BY <1>5, <1>6, <1>7

(* xsw_ref_mount finds a free row, and installs the pack it was given.     *)
LEMMA MountServes ==
  ASSUME TableIInv, NEW p \in Packs, Mount(p)
  PROVE  (Table /\ Fits /\ Modal)' /\ Service!Install(p)
<1> DEFINE i == Min(FreeIndices)
           s == FreshSlot(context)
<1>1. HostIInv /\ Table /\ Fits /\ Modal
  BY DEF TableIInv
<1>2. HostTypeOK /\ RegistryUnambiguous /\ context \in Context
  BY <1>1 DEF HostIInv, HostTypeOK
<1>3. /\ mode = "dynamic" /\ state = "mutable" /\ UNCHANGED <<mode, held>>
      /\ p.len <= MaxPackBytes /\ mounted_pack_count < MaxPacks
      /\ p.len <= MaxTotalBytes - mounted_pack_bytes
      /\ p.len \in Nat \ {0} /\ p.vector \in Nat /\ MaxVectorLen \in Nat
  BY ContextAssumption DEF Mount, RoomFor
<1>4. FreeIndices # {}
  BY <1>1, <1>3, RowsSuffice
<1>5. /\ MountStatus(context, p) = "ok" /\ context' = PackMount(context, p)
      /\ Track(i, s, p) /\ state' = state
  BY <1>4 DEF Mount
<1>6. i \in Indices /\ pack_slots[i] = 0
  <2>1. FreeIndices \subseteq 0 .. 8
    BY SlotsAreSmall DEF FreeIndices
  <2>2. i \in FreeIndices
    BY <1>4, <2>1, MinPicks
  <2> QED
    BY <2>2 DEF FreeIndices
<1>7. /\ s \in DynamicSlots \ Mounted(context)
      /\ p.valid /\ Registrable(context, p)
      /\ \A t \in DynamicSlots : context'.slots[t] = IF t = s THEN p ELSE context.slots[t]
      /\ Mounted(context') = Mounted(context) \union {s}
  BY <1>2, <1>5, MountTakesFreeSlot
<1>8. p.vector <= MaxVectorLen
  BY <1>3, <1>5 DEF MountStatus
<1>9. /\ pack_slots' = [pack_slots EXCEPT ![i] = s]
      /\ pack_lengths' = [pack_lengths EXCEPT ![i] = p.len]
      /\ mounted_pack_count' = mounted_pack_count + 1
      /\ mounted_pack_bytes' = mounted_pack_bytes + p.len
  BY <1>5 DEF Track
<1> HIDE DEF i, s
<1>10. \A t \in Mounted(context) : t \in DynamicSlots /\ t # s /\ context'.slots[t] = context.slots[t]
  BY <1>7 DEF Mounted
<1>11. context'.slots[s] = p /\ s # 0
  BY <1>7 DEF DynamicSlots, FirstDynamicSlot
<1>12. \A q \in Installed(context) : q.id # p.id /\ OpKeys(p) \intersect OpKeys(q) = {}
  BY <1>7 DEF Registrable
<1>13. Installed(context') = Installed(context) \union {p} /\ p \notin Installed(context)
  BY <1>7, <1>10, <1>11, <1>12 DEF Installed
<1>14. /\ \A j \in Indices : pack_slots'[j] = IF j = i THEN s ELSE pack_slots[j]
       /\ \A j \in Indices : pack_lengths'[j] = IF j = i THEN p.len ELSE pack_lengths[j]
  BY <1>2, <1>6, <1>9 DEF HostTypeOK
<1>15. /\ IsFiniteSet(Bytes(Installed(context')))
       /\ mounted_pack_bytes' = Cardinality(Bytes(Installed(context')))
       /\ Cardinality(Bytes(Installed(context'))) <= MaxTotalBytes
  <2>1. IsFiniteSet(Bytes(Installed(context))) /\ mounted_pack_bytes = Cardinality(Bytes(Installed(context)))
    BY <1>1 DEF Table
  <2>2. /\ IsFiniteSet(Bytes(Installed(context) \union {p}))
        /\ Cardinality(Bytes(Installed(context) \union {p})) = Cardinality(Bytes(Installed(context))) + p.len
        /\ Cardinality(Bytes(Installed(context))) \in Nat
    BY <1>3, <1>13, <2>1, BytesAdded
  <2>3. MaxTotalBytes \in Nat
    BY HostAssumption
  <2> QED
    BY <1>3, <1>9, <1>13, <2>1, <2>2, <2>3
<1>16. mounted_pack_count' = Cardinality(Mounted(context'))
  <2> DEFINE slots == Mounted(context)
  <2>1. IsFiniteSet(slots) /\ s \notin slots
    BY <1>7, MountedFinite
  <2> HIDE DEF slots
  <2>2. Cardinality(slots \union {s}) = Cardinality(slots) + 1
    BY <2>1, FS_AddElement
  <2> QED
    BY <1>1, <1>7, <1>9, <2>2 DEF Table, slots
<1>17. Table'
  <2>1. \A j \in Indices : pack_slots'[j] # 0 =>
          pack_slots'[j] \in Mounted(context') /\ pack_lengths'[j] = context'.slots[pack_slots'[j]].len
    BY <1>1, <1>7, <1>10, <1>11, <1>14 DEF Table
  <2>2. \A t \in Mounted(context') : \E j \in Indices : pack_slots'[j] = t
    <3> SUFFICES ASSUME NEW t \in Mounted(context') PROVE \E j \in Indices : pack_slots'[j] = t
      OBVIOUS
    <3>1. CASE t = s
      BY <1>6, <1>14, <3>1
    <3>2. CASE t # s
      <4>1. t \in Mounted(context) /\ t # 0
        BY <1>7, <3>2 DEF Mounted, DynamicSlots, FirstDynamicSlot
      <4>2. PICK j \in Indices : pack_slots[j] = t
        BY <1>1, <4>1 DEF Table
      <4> QED
        BY <1>6, <1>14, <4>1, <4>2
    <3> QED
      BY <3>1, <3>2
  <2>3. \A j, k \in Indices : pack_slots'[j] # 0 /\ pack_slots'[j] = pack_slots'[k] => j = k
    BY <1>1, <1>7, <1>14 DEF Table
  <2> QED
    BY <1>15, <1>16, <2>1, <2>2, <2>3 DEF Table
<1>18. Fits'
  BY <1>1, <1>3, <1>7, <1>8, <1>10, <1>11 DEF Fits
<1>19. Modal'
  BY <1>1, <1>3, <1>5 DEF Modal
<1>20. ServableSet(Installed(context'))
  <2>1. \A q \in Installed(context') : q.valid /\ q.vector <= MaxVectorLen /\ q.len <= MaxPackBytes
    BY <1>1, <1>2, <1>3, <1>7, <1>8, <1>13 DEF Installed, Fits, RegistryUnambiguous
  <2>2. \A q, r \in Installed(context) : q # r => q.id # r.id /\ OpKeys(q) \intersect OpKeys(r) = {}
    BY <1>2 DEF Installed, RegistryUnambiguous
  <2>3. \A q, r \in Installed(context') : q # r => q.id # r.id /\ OpKeys(q) \intersect OpKeys(r) = {}
    BY <1>12, <1>13, <2>2
  <2> QED
    BY <1>15, <2>1, <2>3 DEF ServableSet
<1>21. Service!Install(p)
  BY <1>3, <1>5, <1>13, <1>20 DEF Service!Install
<1> QED
  BY <1>17, <1>18, <1>19, <1>21

(* xsw_ref_unmount finds its books in order, and removes the pack the      *)
(* slot held.                                                              *)
LEMMA UnmountServes ==
  ASSUME TableIInv, NEW slot, Unmount(slot)
  PROVE  (Table /\ Fits /\ Modal)' /\ \E p \in Packs : Service!Remove(p)
<1> DEFINE i == Min({j \in Indices : pack_slots[j] = slot})
           p == context.slots[slot]
<1>1. HostIInv /\ Table /\ Fits /\ Modal
  BY DEF TableIInv
<1>2. HostTypeOK /\ RegistryUnambiguous /\ context \in Context
  BY <1>1 DEF HostIInv, HostTypeOK
<1>3. /\ mode = "dynamic" /\ state = "mutable" /\ UNCHANGED <<mode, held>>
      /\ UnmountStatus(context, slot) = "ok" /\ context' = PackUnmount(context, slot)
      /\ Untrack(i)
  BY DEF Unmount
<1>4. slot \in Mounted(context)
  BY <1>3 DEF UnmountStatus
<1>5. /\ slot \in DynamicSlots /\ slot # 0
      /\ Mounted(context') = Mounted(context) \ {slot}
      /\ \A s \in DynamicSlots \ {slot} : context'.slots[s] = context.slots[s]
  BY <1>2, <1>3, UnmountEmptiesSlot DEF DynamicSlots, FirstDynamicSlot
<1>6. i \in Indices /\ pack_slots[i] = slot
  <2> DEFINE rows == {j \in Indices : pack_slots[j] = slot}
  <2>1. rows # {} /\ rows \subseteq 0 .. 8
    BY SlotsAreSmall DEF Unmount
  <2>2. i \in rows
    BY <2>1, MinPicks
  <2> QED
    BY <2>2
<1>7. p \in Packs /\ p \in Installed(context) /\ p.len \in Nat
  BY <1>2, <1>4, <1>5, ContextAssumption DEF Mounted, Installed, Context
<1>8. pack_lengths[i] = p.len
  BY <1>1, <1>5, <1>6 DEF Table
<1> HIDE DEF i, p
<1>9. Installed(context') = Installed(context) \ {p}
  <2>1. \A s \in Mounted(context') : s \in Mounted(context) /\ s # slot /\ context'.slots[s] = context.slots[s]
    BY <1>5 DEF Mounted
  <2>2. \A s \in Mounted(context) : s # slot => s \in Mounted(context') /\ context.slots[s] # p
    BY <1>1, <1>4, <1>5, PacksDiffer DEF p
  <2> QED
    BY <2>1, <2>2 DEF Installed, p
<1>10. /\ IsFiniteSet(Bytes(Installed(context')))
       /\ mounted_pack_bytes = Cardinality(Bytes(Installed(context'))) + p.len
       /\ Cardinality(Bytes(Installed(context'))) \in Nat
  <2>1. IsFiniteSet(Bytes(Installed(context))) /\ mounted_pack_bytes = Cardinality(Bytes(Installed(context)))
    BY <1>1 DEF Table
  <2> QED
    BY <1>7, <1>9, <2>1, BytesRemoved
<1>11. mounted_pack_count \in Nat \ {0} /\ Cardinality(Mounted(context')) = mounted_pack_count - 1
  <2> DEFINE slots == Mounted(context)
  <2>1. IsFiniteSet(slots) /\ slot \in slots /\ Cardinality(slots) \in Nat
    BY <1>4, MountedFinite
  <2> HIDE DEF slots
  <2>2. Cardinality(slots \ {slot}) = Cardinality(slots) - 1 /\ Cardinality(slots) # 0
    BY <2>1, FS_RemoveElement, FS_EmptySet
  <2> QED
    BY <1>1, <1>5, <2>1, <2>2 DEF Table, slots
<1>12. ~(mounted_pack_bytes < pack_lengths[i] \/ mounted_pack_count = 0)
  BY <1>7, <1>8, <1>10, <1>11
<1>13. /\ mounted_pack_bytes' = mounted_pack_bytes - p.len
       /\ mounted_pack_count' = mounted_pack_count - 1
       /\ pack_slots' = [pack_slots EXCEPT ![i] = 0]
       /\ pack_lengths' = [pack_lengths EXCEPT ![i] = 0]
       /\ state' = state
  BY <1>3, <1>8, <1>12 DEF Untrack
<1>14. /\ \A j \in Indices : pack_slots'[j] = IF j = i THEN 0 ELSE pack_slots[j]
       /\ \A j \in Indices : j # i => pack_lengths'[j] = pack_lengths[j]
  BY <1>2, <1>6, <1>13 DEF HostTypeOK
<1>15. \A j \in Indices : j # i => pack_slots[j] # slot
  BY <1>1, <1>5, <1>6 DEF Table
<1>16. Table'
  <2>1. \A j \in Indices : pack_slots'[j] # 0 =>
          pack_slots'[j] \in Mounted(context') /\ pack_lengths'[j] = context'.slots[pack_slots'[j]].len
    BY <1>1, <1>5, <1>14, <1>15 DEF Table, Mounted
  <2>2. \A t \in Mounted(context') : \E j \in Indices : pack_slots'[j] = t
    <3> SUFFICES ASSUME NEW t \in Mounted(context') PROVE \E j \in Indices : pack_slots'[j] = t
      OBVIOUS
    <3>1. PICK j \in Indices : pack_slots[j] = t
      BY <1>1, <1>5 DEF Table
    <3>2. j # i
      BY <1>5, <1>6, <3>1
    <3> QED
      BY <1>14, <3>1, <3>2
  <2>3. \A j, k \in Indices : pack_slots'[j] # 0 /\ pack_slots'[j] = pack_slots'[k] => j = k
    BY <1>1, <1>14 DEF Table
  <2>4. mounted_pack_bytes' = Cardinality(Bytes(Installed(context')))
    BY <1>7, <1>10, <1>13
  <2> QED
    BY <1>10, <1>11, <1>13, <2>1, <2>2, <2>3, <2>4 DEF Table
<1>17. Fits'
  BY <1>1, <1>5 DEF Fits, Mounted
<1>18. Modal'
  BY <1>1, <1>3, <1>13 DEF Modal
<1>19. Service!Remove(p)
  BY <1>3, <1>7, <1>9, <1>13 DEF Service!Remove
<1> QED
  BY <1>7, <1>16, <1>17, <1>18, <1>19

(* xsw_ref_finish_install serves what was installed.                       *)
LEMMA FinishServes ==
  ASSUME TableIInv, FinishInstall
  PROVE  (Table /\ Fits /\ Modal)' /\ Service!Serve
<1>1. HostIInv /\ Table /\ Fits /\ Modal
  BY DEF TableIInv
<1>2. context \in Context /\ mode \in Modes
  BY <1>1 DEF HostIInv, HostTypeOK
<1>3. /\ state = "mutable" /\ state' = "frozen" /\ UNCHANGED <<mode, tracking>>
      /\ context'.slots = context.slots /\ Mounted(context') = Mounted(context)
  BY <1>2, FreezeKeeps DEF FinishInstall
<1>4. Installed(context') = Installed(context)
  BY <1>3 DEF Installed
<1>5. mode = "dynamic"
  BY <1>1, <1>2, <1>3 DEF Modal, Modes
<1>6. Mounted(context) # {}
  <2>1. Cardinality(Mounted(context)) # 0
    BY <1>1, <1>5 DEF FinishInstall, Table
  <2> QED
    BY <2>1, FS_EmptySet
<1>7. Installed(context) # {}
  BY <1>6 DEF Installed
<1>8. Table'
  BY <1>1, <1>3, <1>4 DEF Table, tracking
<1>9. Fits' /\ Modal'
  BY <1>1, <1>3 DEF Fits, Modal
<1>10. Service!Serve
  BY <1>3, <1>4, <1>7 DEF Service!Serve
<1> QED
  BY <1>8, <1>9, <1>10

(* Lookups, finds and refused calls change nothing the service shows.      *)
LEMMA LookupServes ==
  ASSUME TableIInv, UNCHANGED <<mode, state, context, tracking>>
  PROVE  (Table /\ Fits /\ Modal)' /\ UNCHANGED Service!vars
<1>1. UNCHANGED <<mode, state, context, pack_slots, pack_lengths, mounted_pack_count, mounted_pack_bytes>>
  BY DEF tracking
<1>2. (Table /\ Fits /\ Modal)'
  BY <1>1 DEF TableIInv, Table, Fits, Modal
<1> QED
  BY <1>1, <1>2 DEF Service!vars

(* Before it is initialised the host is the service switched off.          *)
LEMMA TableInit == HostInit => TableIInv /\ Service!Init
<1> SUFFICES ASSUME HostInit PROVE TableIInv /\ Service!Init
  OBVIOUS
<1>1. Mounted(context) = {}
  BY FreshContext DEF HostInit, Flags
<1>2. Table /\ Fits
  BY <1>1, EmptyTable DEF HostInit
<1>3. HostIInv
  BY HostInitIInv
<1>4. Modal
  BY DEF HostInit, Modal
<1>5. Service!Init
  BY <1>1 DEF HostInit, Service!Init, Installed
<1> QED
  BY <1>2, <1>3, <1>4, <1>5 DEF TableIInv

(* Every step keeps the table and is a step of the service, or none.       *)
LEMMA TableStep == TableIInv /\ [HostNext]_hostVars => TableIInv' /\ [Service!Next]_Service!vars
<1> SUFFICES ASSUME TableIInv, [HostNext]_hostVars
             PROVE  (Table /\ Fits /\ Modal)' /\ [Service!Next]_Service!vars
  BY HostStepKeeps DEF TableIInv
<1>1. HostIInv /\ context \in Context /\ mode \in Modes
  BY DEF TableIInv, HostIInv, HostTypeOK
<1>2. CASE \E m \in {"fused", "dynamic"} : Initialize(m)
  <2>1. PICK m \in {"fused", "dynamic"} : Initialize(m)
    BY <1>2
  <2>2. Config(m) \in SUBSET Flags
    BY DEF Config, Flags
  <2>3. ContextInit(Config(m)) \in Context /\ Mounted(ContextInit(Config(m))) = {}
    BY <2>2, FreshContext
  <2>4. Fresh(m, ContextInit(Config(m))) /\ mode' = m
    BY <2>1 DEF Initialize
  <2> QED
    BY <2>3, <2>4, FreshServes DEF Service!Next
<1>3. CASE Reset
  <2>1. mode \in {"fused", "dynamic"}
    BY <1>1, <1>3 DEF Reset, TableIInv, Modal, Modes
  <2>2. context.flags \in SUBSET Flags
    BY <1>1 DEF Context
  <2>3. ContextReset(context) \in Context /\ Mounted(ContextReset(context)) = {}
    BY <2>2, FreshContext DEF ContextReset
  <2>4. Fresh(mode, ContextReset(context)) /\ mode' = mode
    BY <1>3 DEF Reset
  <2> QED
    BY <2>1, <2>3, <2>4, FreshServes DEF Service!Next
<1>4. CASE \E p \in Packs : Mount(p)
  BY <1>4, MountServes DEF Service!Next
<1>5. CASE \E slot \in 0 .. MaxPacks + 1 : Unmount(slot)
  BY <1>5, UnmountServes DEF Service!Next
<1>6. CASE FinishInstall
  BY <1>6, FinishServes DEF Service!Next
<1>7. CASE \E k \in Keys : LookupKey(k) \/ FindKey(k)
  <2>1. UNCHANGED <<mode, state, context, tracking>>
    BY <1>7 DEF LookupKey, FindKey, Keep
  <2> QED
    BY <2>1, LookupServes
<1>8. CASE UNCHANGED hostVars
  <2>1. UNCHANGED <<mode, state, context, tracking>>
    BY <1>8 DEF hostVars, tracking
  <2> QED
    BY <2>1, LookupServes
<1> QED
  BY <1>2, <1>3, <1>4, <1>5, <1>6, <1>7, <1>8 DEF HostNext

(* The host's table mirrors the packs mounted in the context, and no call  *)
(* can fault the host.                                                     *)
THEOREM HostTable == HostSpec => []TableIInv
BY TableInit, TableStep, PTL DEF HostSpec

(* The host gathers packs that may be served together and, from the moment *)
(* it serves, serves the same set until it starts over.                    *)
THEOREM HostImplementsService == HostSpec => ImplementsService
<1>1. HostSpec => []TableIInv
  BY HostTable
<1>2. HostInit => Service!Init
  BY TableInit
<1>3. TableIInv /\ [HostNext]_hostVars => [Service!Next]_Service!vars
  BY TableStep
<1> QED
  BY <1>1, <1>2, <1>3, PTL DEF HostSpec, ImplementsService, Service!Spec
=============================================================================
