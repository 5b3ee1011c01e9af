--------------------------- MODULE PluginLifetime ---------------------------
(***************************************************************************)
(* Objects of DequantGemmPluginV3 (src/plugin/dequant_gemm_plugin.cpp) and *)
(* the storage behind them.  One creation makes four buffers, two on the   *)
(* host and two on the device, that its clones share by reference count.   *)
(* Serialization fields are pointers: into an object for N, K and          *)
(* group_size, into host buffers for packed and scale.                     *)
(* Streams run on while TensorRT clones and destroys objects.              *)
(***************************************************************************)
CONSTANTS
    Objects, Data, Gone, NoPlan,
    Garbage,    \* what a pointer to freed storage yields
    Creations,  \* names for the storage of a creation, reused once it is freed
    Nothing     \* no creation

ASSUME ValuesAssumption ==
    /\ Gone \notin Data /\ NoPlan \notin Data /\ Garbage \notin Data
    /\ Gone \notin [shares : Creations, fields : [ints : Objects, host : Creations]]
    /\ Nothing \notin Creations

VARIABLES
    objects,   \* Gone, or the creation it shares and its fields' pointers
    data,      \* what each creation was given
    building,  \* the creation whose constructor runs, or Nothing
    have,      \* its arguments evaluated so far
    pending,   \* its device buffer allocated and not yet filled, or "none"
    host,      \* host buffers allocated: <<creation, part>>
    device,    \* device buffers allocated
    inflight,  \* creations a launched kernel still reads
    plan       \* what was serialized last

construction == <<building, have, pending>>
vars == <<objects, data, construction, host, device, inflight, plan>>

HostParts == {"packed", "scale"}
Live == {o \in Objects : objects[o] # Gone}
BuffersOf(c) == {c} \X HostParts

Init ==
    /\ objects = [o \in Objects |-> Gone]
    /\ data = [c \in Creations |-> Gone]
    /\ building = Nothing /\ have = {} /\ pending = "none"
    /\ host = {} /\ device = {}
    /\ inflight = {} /\ plan = NoPlan

\* createPlugin with all fields present (else it returns nullptr at once).
CreatePlugin(c, d) ==
    /\ building = Nothing
    /\ data[c] = Gone /\ c \notin inflight
    /\ building' = c
    /\ data' = [data EXCEPT ![c] = d]
    /\ UNCHANGED <<objects, have, pending, host, device, inflight, plan>>

\* make_shared of a host vector: the arguments come in any order.
CopyToHost(part) ==
    /\ building # Nothing /\ pending = "none"
    /\ <<"host", part>> \notin have
    /\ host' = host \cup {<<building, part>>}
    /\ have' = have \cup {<<"host", part>>}
    /\ UNCHANGED <<objects, data, building, pending, device, inflight, plan>>

\* uploadPacked, uploadScale: cudaMalloc, then cudaMemcpy.
Malloc(part) ==
    /\ building # Nothing /\ pending = "none"
    /\ <<"device", part>> \notin have
    /\ device' = device \cup {<<building, part>>}
    /\ pending' = part
    /\ UNCHANGED <<objects, data, building, have, host, inflight, plan>>

MemcpyDone ==
    /\ pending # "none"
    /\ have' = have \cup {<<"device", pending>>}
    /\ pending' = "none"
    /\ UNCHANGED <<objects, data, building, host, device, inflight, plan>>

\* Mistake: an upload that fails does not free what it allocated.
BugCopyLeaks == device \ {<<building, p>> : p \in HostParts \ {pending}}

\* The failed upload frees its buffer, unwinding frees the other arguments.
DeviceAfterThrow == device \ BuffersOf(building)

\* An allocation or a copy failed: createPlugin returns nullptr.
Throw ==
    /\ building # Nothing
    /\ host' = host \ BuffersOf(building)
    /\ device' = DeviceAfterThrow
    /\ data' = [data EXCEPT ![building] = Gone]
    /\ building' = Nothing /\ have' = {} /\ pending' = "none"
    /\ UNCHANGED <<objects, inflight, plan>>

\* Mistake: a clone copies its source's fields.
BugCopiedFields(o, c) ==
    LET sources == {s \in Live : objects[s].shares = c}
    IN  [ints |-> IF sources = {} THEN o ELSE CHOOSE s \in sources : TRUE,
         host |-> c]

\* buildSerializeFields: the object's own members and its host buffers.
SerializeFields(o, c) == [ints |-> o, host |-> c]

Construct(o) ==
    /\ building # Nothing
    /\ have = {"host", "device"} \X HostParts
    /\ objects[o] = Gone
    /\ objects' = [objects EXCEPT ![o] =
                     [shares |-> building, fields |-> SerializeFields(o, building)]]
    /\ building' = Nothing /\ have' = {}
    /\ UNCHANGED <<data, pending, host, device, inflight, plan>>

\* clone and attachToContext: the buffers are shared.
Clone(source, o) ==
    /\ objects[source] # Gone /\ objects[o] = Gone
    /\ objects' = [objects EXCEPT ![o] =
                     [shares |-> objects[source].shares,
                      fields |-> SerializeFields(o, objects[source].shares)]]
    /\ UNCHANGED <<data, construction, host, device, inflight, plan>>

\* Launched on the weights; the stream gets to it when it does.
Enqueue(o) ==
    /\ objects[o] # Gone
    /\ inflight' = inflight \cup {objects[o].shares}
    /\ UNCHANGED <<objects, data, construction, host, device, plan>>

KernelDone ==
    /\ \E c \in inflight : inflight' = inflight \ {c}
    /\ UNCHANGED <<objects, data, construction, host, device, plan>>

\* Mistake: the deleter is cudaFreeAsync, which waits for another stream.
BugNoWait == TRUE

\* cudaFree waits until the device has nothing left to do.
DeviceIdle == inflight = {}

\* No other object holds a reference to the creation's buffers.
LastOf(o, c) == \A p \in Live \ {o} : objects[p].shares # c

\* The destructor; shared buffers go with the last object that has them.
Destroy(o) ==
    /\ objects[o] # Gone
    /\ LET c == objects[o].shares
       IN  IF LastOf(o, c)
           THEN /\ DeviceIdle
                /\ host' = host \ BuffersOf(c) /\ device' = device \ BuffersOf(c)
                /\ data' = [data EXCEPT ![c] = Gone]
           ELSE UNCHANGED <<host, device, data>>
    /\ objects' = [objects EXCEPT ![o] = Gone]
    /\ UNCHANGED <<construction, inflight, plan>>

\* What the fields of o point to.
FieldData(o) ==
    LET f == objects[o].fields
        ints == IF f.ints \in Live THEN data[objects[f.ints].shares] ELSE Garbage
    IN  IF BuffersOf(f.host) \subseteq host /\ ints = data[f.host]
        THEN ints ELSE Garbage

\* getFieldsToSerialize, and TensorRT writes what it finds there.
Serialize(o) ==
    /\ objects[o] # Gone
    /\ plan' = FieldData(o)
    /\ UNCHANGED <<objects, data, construction, host, device, inflight>>

Next ==
    \/ \E c \in Creations, d \in Data : CreatePlugin(c, d)
    \/ \E part \in HostParts : CopyToHost(part) \/ Malloc(part)
    \/ MemcpyDone \/ Throw
    \/ \E o \in Objects :
         \/ Construct(o) \/ Enqueue(o) \/ Destroy(o) \/ Serialize(o)
         \/ \E source \in Objects : Clone(source, o)
    \/ KernelDone

Spec == Init /\ [][Next]_vars

-----------------------------------------------------------------------------
(* Types; the uploads under way fit the construction under way.            *)
TypeOK ==
    /\ objects \in [Objects -> {Gone} \cup
                      [shares : Creations,
                       fields : [ints : Objects, host : Creations]]]
    /\ data \in [Creations -> Data \cup {Gone}]
    /\ building \in Creations \cup {Nothing}
    /\ have \subseteq {"host", "device"} \X HostParts
    /\ pending \in HostParts \cup {"none"}
    /\ building = Nothing => have = {} /\ pending = "none"
    /\ host \subseteq Creations \X HostParts
    /\ device \subseteq Creations \X HostParts
    /\ inflight \subseteq Creations
    /\ plan \in Data \cup {NoPlan}

(* Storage is exactly what live objects and the construction under way     *)
(* hold: nothing leaks from a construction that failed half-way or with    *)
(* the last clone, and nothing is freed under an object that is left.      *)
StorageIsHeld ==
    LET held == UNION {BuffersOf(objects[o].shares) : o \in Live}
    IN  /\ host = held \cup {<<building, h[2]>> : h \in {x \in have : x[1] = "host"}}
        /\ device = held \cup {<<building, h[2]>> : h \in {x \in have : x[1] = "device"}}
                      \cup (IF pending = "none" THEN {} ELSE {<<building, pending>>})

(* A kernel that is still on a stream reads weights that are still there,  *)
(* though the object that launched it may be gone.                         *)
KernelReadsLive == \A c \in inflight : BuffersOf(c) \subseteq device

(* Every object is a value of its own: it serializes the weights it was    *)
(* made with, after any order of clones and destructions, also of the      *)
(* object it was cloned from ("its pointers reference this object's own    *)
(* members, never a clone source's", comment of mSerializeFields).         *)
Values == INSTANCE PluginWeights WITH
    weights <- [o \in Objects |->
                  IF objects[o] = Gone THEN Gone ELSE data[objects[o].shares]]

ImplementsPluginWeights == Values!Spec
=============================================================================
