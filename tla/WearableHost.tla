---------------------------- MODULE WearableHost ----------------------------
(***************************************************************************)
(* The wearable reference host                                             *)
(* (adapters/wearable/exactscope_wearable_ref.c)                           *)
(* over one C ABI context: it mounts a complete pack set, freezes it, and  *)
(* serves lookups and evaluations from the frozen set only.                *)
(*                                                                         *)
(* The host keeps its own table of slots and lengths beside the context's. *)
(* A product is modelled by the handles it keeps: a lookup or a find gives *)
(* it a slot and an operation id, and it may evaluate that handle at any   *)
(* later time until it resets or reinitialises the host.                   *)
(* A refused call changes nothing and is a stuttering step.                *)
(***************************************************************************)
EXTENDS XsContext

CONSTANTS
  Keys,           \* operation keys the product asks for
  MaxPackBytes,   \* XSW_REF_MAX_PACK_BYTES_V1
  MaxTotalBytes   \* XSW_REF_MAX_TOTAL_PACK_BYTES_V1

ASSUME HostAssumption ==
  /\ {MaxPackBytes, MaxTotalBytes} \subseteq Nat
  /\ MaxPackBytes <= MaxTotalBytes
  /\ NoKey \notin Keys

VARIABLES
  mode,                \* "fused" or "dynamic", "none" before init
  state,               \* host->state
  context,             \* the context in caller-owned memory
  pack_slots,          \* host->pack_slots, 0 when free
  pack_lengths,        \* host->pack_lengths
  mounted_pack_count,  \* host->mounted_pack_count
  mounted_pack_bytes,  \* host->mounted_pack_bytes
  held                 \* per key: the handle the product keeps, or NoHandle

tracking == <<pack_slots, pack_lengths, mounted_pack_count, mounted_pack_bytes>>
hostVars == <<mode, state, context, pack_slots, pack_lengths, mounted_pack_count,
              mounted_pack_bytes, held>>

Modes   == {"none", "fused", "dynamic"}
States  == {"uninitialized", "mutable", "frozen", "faulted"}
Indices == 0 .. MaxPacks - 1      \* the host sizes its table and the context alike
Handles == [slot: 0 .. MaxPacks, id: Nat]

HostTypeOK ==
  /\ mode \in Modes
  /\ state \in States
  /\ context \in Context
  /\ pack_slots \in [Indices -> 0 .. MaxPacks]
  /\ pack_lengths \in [Indices -> 0 .. MaxPackBytes]
  /\ mounted_pack_count \in 0 .. MaxPacks
  /\ mounted_pack_bytes \in 0 .. MaxTotalBytes
  /\ held \in [Keys -> Handles \union {Fused[k] : k \in DOMAIN Fused}]

NothingHeld    == [k \in Keys |-> NoHandle]
EmptySlots     == [i \in Indices |-> 0]

HostInit ==
  /\ mode = "none"
  /\ state = "uninitialized"
  /\ context = ContextInit({})
  /\ pack_slots = EmptySlots
  /\ pack_lengths = EmptySlots
  /\ mounted_pack_count = 0
  /\ mounted_pack_bytes = 0
  /\ held = NothingHeld

-----------------------------------------------------------------------------
(* Initialisation and reset.  The product drops the handles of the past.   *)

(* xsw_ref_clear_pack_tracking.                                            *)
ClearTracking ==
  /\ pack_slots' = EmptySlots
  /\ pack_lengths' = EmptySlots
  /\ mounted_pack_count' = 0
  /\ mounted_pack_bytes' = 0

Config(m) == IF m = "fused" THEN {"discovery"} ELSE {"dynamic"}

(* A fused host freezes its fresh context before it returns.               *)
Fresh(m, ctx) ==
  /\ context' = (IF m = "fused" THEN RegistryFreeze(ctx) ELSE ctx)
  /\ state' = (IF m = "fused" THEN "frozen" ELSE "mutable")
  /\ ClearTracking
  /\ held' = NothingHeld

(* xsw_ref_init, of new memory or again of the same.                       *)
Initialize(m) ==
  /\ mode' = m
  /\ Fresh(m, ContextInit(Config(m)))

Reset ==
  /\ state # "uninitialized"
  /\ Fresh(mode, ContextReset(context))
  /\ UNCHANGED mode

-----------------------------------------------------------------------------
(* Installing.                                                             *)

FreeIndices == {i \in Indices : pack_slots[i] = 0}

(* The limits xsw_ref_mount checks before the context is asked.            *)
RoomFor(p) ==
  /\ p.len <= MaxPackBytes
  /\ mounted_pack_count < MaxPacks
  /\ p.len <= MaxTotalBytes - mounted_pack_bytes

Track(i, slot, p) ==
  /\ pack_slots' = [pack_slots EXCEPT ![i] = slot]
  /\ pack_lengths' = [pack_lengths EXCEPT ![i] = p.len]
  /\ mounted_pack_count' = mounted_pack_count + 1
  /\ mounted_pack_bytes' = mounted_pack_bytes + p.len

Mount(p) ==
  /\ mode = "dynamic"
  /\ state = "mutable"
  /\ RoomFor(p)
  /\ IF FreeIndices = {}
       THEN state' = "faulted" /\ UNCHANGED <<context, tracking>>
       ELSE /\ MountStatus(context, p) = "ok"
            /\ context' = PackMount(context, p)
            /\ Track(Min(FreeIndices), FreshSlot(context), p)
            /\ UNCHANGED state
  /\ UNCHANGED <<mode, held>>

(* An unmount that contradicts the table faults the host although the      *)
(* context has already let go of the pack.                                 *)
Untrack(i) ==
  IF mounted_pack_bytes < pack_lengths[i] \/ mounted_pack_count = 0
    THEN state' = "faulted" /\ UNCHANGED tracking
    ELSE /\ mounted_pack_bytes' = mounted_pack_bytes - pack_lengths[i]
         /\ mounted_pack_count' = mounted_pack_count - 1
         /\ pack_slots' = [pack_slots EXCEPT ![i] = 0]
         /\ pack_lengths' = [pack_lengths EXCEPT ![i] = 0]
         /\ UNCHANGED state

(* The product may pass any number for a slot, the reserved 0 included.    *)
Unmount(slot) ==
  /\ mode = "dynamic"
  /\ state = "mutable"
  /\ \E i \in Indices : pack_slots[i] = slot
  /\ UnmountStatus(context, slot) = "ok"
  /\ context' = PackUnmount(context, slot)
  /\ Untrack(Min({i \in Indices : pack_slots[i] = slot}))
  /\ UNCHANGED <<mode, held>>

FinishInstall ==
  /\ state = "mutable"
  /\ mode = "dynamic" => mounted_pack_count # 0
  /\ context' = RegistryFreeze(context)
  /\ state' = "frozen"
  /\ UNCHANGED <<mode, tracking, held>>

-----------------------------------------------------------------------------
(* Serving.                                                                *)

Keep(k, h) ==
  /\ held' = [held EXCEPT ![k] = h]
  /\ UNCHANGED <<mode, state, context, tracking>>

(* Mutant: lookups are answered while packs still come and go.             *)
LookupAnyTime(k) ==
  /\ state \in {"mutable", "frozen"}
  /\ Lookup(context, k) # NoHandle
  /\ Keep(k, Lookup(context, k))

LookupKey(k) ==
  /\ state = "frozen"
  /\ Lookup(context, k) # NoHandle
  /\ Keep(k, Lookup(context, k))

(* xsw_ref_find: discovery in the fused registries.                        *)
FindKey(k) ==
  /\ state = "frozen"
  /\ mode = "fused"
  /\ k \in DOMAIN Fused
  /\ Keep(k, Fused[k])

(* What xsw_ref_eval evaluates for a handle: an operation, or nothing.     *)
Serves(h) == IF state = "frozen" THEN Evaluated(context, h) ELSE NoKey

HostNext ==
  \/ \E m \in {"fused", "dynamic"} : Initialize(m)
  \/ Reset
  \/ \E p \in Packs : Mount(p)
  \/ \E slot \in 0 .. MaxPacks + 1 : Unmount(slot)
  \/ FinishInstall
  \/ \E k \in Keys : LookupKey(k) \/ FindKey(k)

HostSpec == HostInit /\ [][HostNext]_hostVars

-----------------------------------------------------------------------------
(* Properties.                                                             *)

(* A handle answers for good: from the moment a product gets it until the  *)
(* host starts over, evaluating it evaluates the operation asked for.      *)
HandlesStay == \A k \in Keys : held[k] # NoHandle => Serves(held[k]) = k

(* Whatever was mounted and unmounted in whatever order, a key means one   *)
(* operation: no two mounted packs, and no pack and a fused registry,      *)
(* share a key or an identity.                                             *)
RegistryUnambiguous ==
  /\ \A s \in Mounted(context) :
       /\ context.slots[s].valid
       /\ context.slots[s].id \notin ReservedIds
       /\ OpKeys(context.slots[s]) \intersect DOMAIN Fused = {}
  /\ \A s, t \in Mounted(context) :
       s # t => /\ context.slots[s].id # context.slots[t].id
                /\ OpKeys(context.slots[s]) \intersect OpKeys(context.slots[t]) = {}

(* The host implements the pack service, for the sets of packs that fit    *)
(* the byte budget and mean one thing per key.                             *)
Bytes(S) == UNION {{p} \X (1 .. p.len) : p \in S}    \* of all packs, told apart

ServableSet(S) ==
  /\ Cardinality(Bytes(S)) <= MaxTotalBytes
  /\ \A p \in S : p.valid /\ p.vector <= MaxVectorLen /\ p.len <= MaxPackBytes
  /\ \A p, q \in S : p # q => p.id # q.id /\ OpKeys(p) \intersect OpKeys(q) = {}

Service == INSTANCE PackService WITH
  Servable <- ServableSet,
  installed <- Installed(context),
  phase <- CASE state = "mutable" -> "installing"
             [] state = "frozen"  -> "serving"
             [] OTHER             -> "off"

ImplementsService == Service!Spec

=============================================================================
