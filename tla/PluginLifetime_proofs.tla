------------------------ MODULE PluginLifetime_proofs ------------------------
(***************************************************************************)
(* For any number of objects, creations and weights: nothing leaks, no     *)
(* kernel reads freed weights, and every object is a value of its own.     *)
(* The invariant says who owns what: an object's fields point into itself, *)
(* a kernel's weights are held by some object, and the construction under  *)
(* way shares its storage with nobody.                                     *)
(***************************************************************************)
EXTENDS PluginLifetime, TLAPS

OwnFields ==
    \A o \in Live :
      /\ objects[o].fields = [ints |-> o, host |-> objects[o].shares]
      /\ data[objects[o].shares] \in Data

OwnStorage ==
    building # Nothing =>
      /\ data[building] \in Data /\ building \notin inflight
      /\ \A o \in Live : objects[o].shares # building

KernelsHeld == \A c \in inflight : \E o \in Live : objects[o].shares = c

\* Who holds buffer <<c, part>>, element by element.
HeldHost(c, part) ==
    \/ \E o \in Live : objects[o].shares = c
    \/ c = building /\ <<"host", part>> \in have

HeldDevice(c, part) ==
    \/ \E o \in Live : objects[o].shares = c
    \/ c = building /\ (<<"device", part>> \in have \/ pending = part)

Storage ==
    \A c \in Creations, part \in HostParts :
      /\ <<c, part>> \in host <=> HeldHost(c, part)
      /\ <<c, part>> \in device <=> HeldDevice(c, part)

\* The buffer being filled is not an argument yet.
UploadUnderWay == pending # "none" => <<"device", pending>> \notin have

IndInv ==
    TypeOK /\ OwnFields /\ OwnStorage /\ KernelsHeld /\ Storage /\ UploadUnderWay

LEMMA InitInv == Init => IndInv
BY ValuesAssumption DEF Init, IndInv, TypeOK, OwnFields, OwnStorage, KernelsHeld,
   Storage, HeldHost, HeldDevice, Live, HostParts, UploadUnderWay

LEMMA ObjectsStay ==
    ASSUME IndInv, objects' = objects, data' = data, building' = building,
           inflight' = inflight
    PROVE  OwnFields' /\ OwnStorage' /\ KernelsHeld'
BY DEF IndInv, OwnFields, OwnStorage, KernelsHeld, Live

LEMMA CreateStep ==
    ASSUME IndInv, NEW c \in Creations, NEW d \in Data, CreatePlugin(c, d)
    PROVE  IndInv'
<1>1. TypeOK'
  BY DEF IndInv, TypeOK, CreatePlugin
<1>2. \A o \in Live : objects[o].shares # c
  BY ValuesAssumption DEF IndInv, OwnFields, CreatePlugin
<1>3. OwnFields' /\ OwnStorage' /\ KernelsHeld'
  BY <1>2 DEF IndInv, TypeOK, OwnFields, OwnStorage, KernelsHeld, Live, CreatePlugin
<1>4. Storage'
  BY <1>2, ValuesAssumption DEF IndInv, TypeOK, Storage, HeldHost, HeldDevice, Live,
     HostParts, CreatePlugin
<1>5. UploadUnderWay'
  BY DEF IndInv, UploadUnderWay, CreatePlugin
<1> QED BY <1>1, <1>3, <1>4, <1>5 DEF IndInv

LEMMA CopyToHostStep ==
    ASSUME IndInv, NEW part \in HostParts, CopyToHost(part)
    PROVE  IndInv'
<1>1. TypeOK'
  BY DEF IndInv, TypeOK, CopyToHost
<1>2. Storage'
  BY DEF IndInv, TypeOK, Storage, HeldHost, HeldDevice, Live, HostParts, CopyToHost
<1>3. UploadUnderWay'
  BY DEF IndInv, UploadUnderWay, CopyToHost
<1> QED BY <1>1, <1>2, <1>3, ObjectsStay DEF IndInv, CopyToHost

LEMMA MallocStep ==
    ASSUME IndInv, NEW part \in HostParts, Malloc(part)
    PROVE  IndInv'
<1>1. TypeOK'
  BY DEF IndInv, TypeOK, Malloc
<1>2. Storage'
  BY DEF IndInv, TypeOK, Storage, HeldHost, HeldDevice, Live, HostParts, Malloc
<1>3. UploadUnderWay'
  BY DEF IndInv, UploadUnderWay, Malloc
<1> QED BY <1>1, <1>2, <1>3, ObjectsStay DEF IndInv, Malloc

LEMMA MemcpyStep == IndInv /\ MemcpyDone => IndInv'
<1> SUFFICES ASSUME IndInv, MemcpyDone PROVE IndInv'
  OBVIOUS
<1>1. TypeOK'
  BY DEF IndInv, TypeOK, MemcpyDone
<1>2. Storage'
  BY DEF IndInv, TypeOK, Storage, HeldHost, HeldDevice, Live, HostParts, MemcpyDone
<1>3. UploadUnderWay'
  BY DEF IndInv, UploadUnderWay, MemcpyDone
<1> QED BY <1>1, <1>2, <1>3, ObjectsStay DEF IndInv, MemcpyDone

LEMMA ThrowStep == IndInv /\ Throw => IndInv'
<1> SUFFICES ASSUME IndInv, Throw PROVE IndInv'
  OBVIOUS
<1>1. TypeOK'
  BY DEF IndInv, TypeOK, Throw, DeviceAfterThrow
<1>2. OwnFields' /\ OwnStorage' /\ KernelsHeld'
  BY DEF IndInv, TypeOK, OwnFields, OwnStorage, KernelsHeld, Live, Throw
<1>3. Storage'
  BY ValuesAssumption DEF IndInv, TypeOK, OwnStorage, Storage, HeldHost, HeldDevice,
     Live, HostParts, BuffersOf, Throw, DeviceAfterThrow
<1>4. UploadUnderWay'
  BY DEF UploadUnderWay, Throw
<1> QED BY <1>1, <1>2, <1>3, <1>4 DEF IndInv

\* A new object o on creation c: by construction or as a clone.
LEMMA NewObject ==
    ASSUME IndInv, NEW o \in Objects, NEW c \in Creations, objects[o] = Gone,
           objects' = [objects EXCEPT ![o] =
                         [shares |-> c, fields |-> SerializeFields(o, c)]],
           data[c] \in Data, UNCHANGED <<data, inflight>>
    PROVE  /\ objects' \in [Objects -> {Gone} \cup
                [shares : Creations, fields : [ints : Objects, host : Creations]]]
           /\ OwnFields' /\ KernelsHeld'
           /\ Live' = Live \cup {o} /\ objects'[o].shares = c
           /\ \A p \in Live : objects'[p] = objects[p]
<1>1. /\ objects \in [Objects -> {Gone} \cup
                [shares : Creations, fields : [ints : Objects, host : Creations]]]
      /\ objects'[o] = [shares |-> c, fields |-> [ints |-> o, host |-> c]]
      /\ \A p \in Objects \ {o} : objects'[p] = objects[p]
  BY DEF IndInv, TypeOK, SerializeFields
<1>2. objects'[o] \in [shares : Creations, fields : [ints : Objects, host : Creations]]
  BY <1>1
<1>3. objects'[o] # Gone
  BY <1>2, ValuesAssumption
<1>4. Live' = Live \cup {o} /\ \A p \in Live : objects'[p] = objects[p]
  BY <1>1, <1>3 DEF Live
<1>5. OwnFields'
  BY <1>1, <1>4 DEF IndInv, OwnFields
<1>6. KernelsHeld'
  BY <1>4 DEF IndInv, KernelsHeld
<1> QED BY <1>1, <1>2, <1>4, <1>5, <1>6, SMTT(30)

LEMMA ConstructStep ==
    ASSUME IndInv, NEW o \in Objects, Construct(o)
    PROVE  IndInv'
<1>1. building \in Creations /\ data[building] \in Data
  BY DEF IndInv, TypeOK, OwnStorage, Construct
<1>2. /\ objects' \in [Objects -> {Gone} \cup
                [shares : Creations, fields : [ints : Objects, host : Creations]]]
      /\ OwnFields' /\ KernelsHeld'
      /\ Live' = Live \cup {o} /\ objects'[o].shares = building
      /\ \A p \in Live : objects'[p] = objects[p]
  BY <1>1, NewObject DEF Construct
<1>3. pending' = "none"
  <2>1. pending # "none" => <<"device", pending>> \in have
    BY DEF IndInv, TypeOK, HostParts, Construct
  <2> QED BY <2>1 DEF IndInv, UploadUnderWay, Construct
<1>4. TypeOK'
  BY <1>2, <1>3 DEF IndInv, TypeOK, Construct
<1>5. OwnStorage'
  BY DEF OwnStorage, Construct
<1>6. Storage'
  <2>1. \A k : (\E p \in Live' : objects'[p].shares = k)
              <=> (\E p \in Live : objects[p].shares = k) \/ k = building
    BY <1>2
  <2>2. have = {"host", "device"} \X HostParts /\ building' = Nothing /\ have' = {}
        /\ host' = host /\ device' = device
    BY DEF Construct
  <2>3. \A part \in HostParts : <<"host", part>> \in have /\ <<"device", part>> \in have
    BY <2>2
  <2> QED BY <1>3, <2>1, <2>2, <2>3, ValuesAssumption
          DEF IndInv, Storage, HeldHost, HeldDevice, HostParts
<1>7. UploadUnderWay'
  BY <1>3 DEF UploadUnderWay
<1> QED BY <1>2, <1>4, <1>5, <1>6, <1>7 DEF IndInv

LEMMA CloneStep ==
    ASSUME IndInv, NEW source \in Objects, NEW o \in Objects, Clone(source, o)
    PROVE  IndInv'
<1> DEFINE c == objects[source].shares
<1>1. source \in Live /\ c \in Creations /\ data[c] \in Data
  BY DEF IndInv, TypeOK, OwnFields, Live, Clone
<1>2. /\ objects' \in [Objects -> {Gone} \cup
                [shares : Creations, fields : [ints : Objects, host : Creations]]]
      /\ OwnFields' /\ KernelsHeld'
      /\ Live' = Live \cup {o} /\ objects'[o].shares = c
      /\ \A p \in Live : objects'[p] = objects[p]
  BY <1>1, NewObject DEF Clone
<1>3. TypeOK'
  BY <1>2 DEF IndInv, TypeOK, Clone, construction
<1>4. OwnStorage'
  BY <1>1, <1>2 DEF IndInv, OwnStorage, Clone, construction
<1>5. Storage'
  <2>1. \A k : (\E p \in Live' : objects'[p].shares = k)
              <=> (\E p \in Live : objects[p].shares = k) \/ k = c
    BY <1>1, <1>2
  <2>2. \E p \in Live : objects[p].shares = c
    BY <1>1
  <2> QED BY <2>1, <2>2 DEF IndInv, Storage, HeldHost, HeldDevice, Clone, construction
<1>6. UploadUnderWay'
  BY DEF IndInv, UploadUnderWay, Clone, construction
<1> QED BY <1>2, <1>3, <1>4, <1>5, <1>6 DEF IndInv

LEMMA EnqueueStep ==
    ASSUME IndInv, NEW o \in Objects, Enqueue(o)
    PROVE  IndInv'
<1>1. o \in Live /\ objects[o].shares \in Creations
  BY DEF IndInv, TypeOK, Live, Enqueue
<1>2. TypeOK' /\ UploadUnderWay'
  BY <1>1 DEF IndInv, TypeOK, UploadUnderWay, Enqueue, construction
<1>3. OwnFields' /\ OwnStorage' /\ KernelsHeld'
  BY <1>1 DEF IndInv, OwnFields, OwnStorage, KernelsHeld, Live, Enqueue, construction
<1>4. Storage'
  BY DEF IndInv, Storage, HeldHost, HeldDevice, Live, Enqueue, construction
<1> QED BY <1>2, <1>3, <1>4 DEF IndInv

LEMMA KernelDoneStep == IndInv /\ KernelDone => IndInv'
<1> SUFFICES ASSUME IndInv, KernelDone PROVE IndInv'
  OBVIOUS
<1>1. TypeOK' /\ UploadUnderWay'
  BY DEF IndInv, TypeOK, UploadUnderWay, KernelDone, construction
<1>2. OwnFields' /\ OwnStorage' /\ KernelsHeld'
  BY DEF IndInv, OwnFields, OwnStorage, KernelsHeld, Live, KernelDone, construction
<1>3. Storage'
  BY DEF IndInv, Storage, HeldHost, HeldDevice, Live, KernelDone, construction
<1> QED BY <1>1, <1>2, <1>3 DEF IndInv

\* With the last object of a creation its buffers go, and nothing runs then;
\* an object that is not the last takes nothing with it.
LEMMA DestroyStep ==
    ASSUME IndInv, NEW o \in Objects, Destroy(o)
    PROVE  IndInv'
<1> DEFINE c == objects[o].shares
<1>1. o \in Live /\ c \in Creations
  BY DEF IndInv, TypeOK, Live, Destroy
<1>2. Live' = Live \ {o} /\ \A p \in Live' : objects'[p] = objects[p]
  BY DEF IndInv, TypeOK, Live, Destroy
<1>3. TypeOK' /\ UploadUnderWay'
  BY <1>1 DEF IndInv, TypeOK, UploadUnderWay, Destroy, construction
<1>4. CASE LastOf(o, c)
  <2>1. /\ inflight = {} /\ inflight' = {}
        /\ host' = host \ BuffersOf(c) /\ device' = device \ BuffersOf(c)
        /\ data' = [data EXCEPT ![c] = Gone]
        /\ UNCHANGED construction
    BY <1>4 DEF Destroy, DeviceIdle
  <2>2. \A p \in Live' : objects[p].shares # c
    BY <1>2, <1>4 DEF LastOf
  <2>3. \A k \in Creations \ {c} : data'[k] = data[k]
    BY <2>1 DEF IndInv, TypeOK
  <2>4. OwnFields'
    BY <1>2, <2>2, <2>3 DEF IndInv, TypeOK, OwnFields, Live
  <2>5. c # building
    BY <1>1, ValuesAssumption DEF IndInv, OwnStorage
  <2>6. OwnStorage' /\ KernelsHeld'
    BY <1>2, <2>1, <2>3, <2>5 DEF IndInv, TypeOK, OwnStorage, KernelsHeld, construction
  <2>7. Storage'
    <3>1. \A k : (\E p \in Live' : objects'[p].shares = k)
                  <=> (\E p \in Live : objects[p].shares = k) /\ k # c
      BY <1>1, <1>2, <2>2
    <3>2. \A k \in Creations, part \in HostParts :
            /\ <<k, part>> \in host' <=> <<k, part>> \in host /\ k # c
            /\ <<k, part>> \in device' <=> <<k, part>> \in device /\ k # c
      BY <2>1 DEF BuffersOf
    <3> QED BY <2>1, <2>5, <3>1, <3>2 DEF IndInv, Storage, HeldHost, HeldDevice,
            construction
  <2> QED BY <1>3, <2>4, <2>6, <2>7 DEF IndInv
<1>5. CASE ~LastOf(o, c)
  <2>1. UNCHANGED <<host, device, data, construction, inflight>>
    BY <1>5 DEF Destroy
  <2>2. PICK q \in Live' : objects'[q].shares = c
    BY <1>2, <1>5 DEF LastOf
  <2>3. \A k : (\E p \in Live' : objects'[p].shares = k)
                <=> (\E p \in Live : objects[p].shares = k)
    BY <1>1, <1>2, <2>2
  <2>4. OwnFields' /\ OwnStorage'
    BY <1>2, <2>1 DEF IndInv, OwnFields, OwnStorage, construction
  <2>5. KernelsHeld'
    BY <2>1, <2>3 DEF IndInv, KernelsHeld
  <2>6. Storage'
    BY <2>1, <2>3 DEF IndInv, Storage, HeldHost, HeldDevice, construction
  <2> QED BY <1>3, <2>4, <2>5, <2>6 DEF IndInv
<1> QED BY <1>4, <1>5

\* What an object's fields point to is what it was made with.
LEMMA FieldsAreOwn ==
    ASSUME IndInv, NEW o \in Live
    PROVE  FieldData(o) = data[objects[o].shares]
<1>1. o \in Objects /\ objects[o].shares \in Creations
  BY DEF IndInv, TypeOK, Live
<1>2. \A part \in HostParts : <<objects[o].shares, part>> \in host
  BY <1>1 DEF IndInv, Storage, HeldHost
<1>3. BuffersOf(objects[o].shares) \subseteq host
  BY <1>2 DEF BuffersOf
<1>4. objects[o].fields = [ints |-> o, host |-> objects[o].shares]
  BY DEF IndInv, OwnFields
<1> QED BY <1>3, <1>4 DEF FieldData

LEMMA SerializeStep ==
    ASSUME IndInv, NEW o \in Objects, Serialize(o)
    PROVE  IndInv'
<1>1. o \in Live /\ plan' \in Data
  BY FieldsAreOwn DEF IndInv, OwnFields, Live, Serialize
<1>2. TypeOK' /\ UploadUnderWay'
  BY <1>1 DEF IndInv, TypeOK, UploadUnderWay, Serialize, construction
<1>3. OwnFields' /\ OwnStorage' /\ KernelsHeld'
  BY DEF IndInv, OwnFields, OwnStorage, KernelsHeld, Live, Serialize, construction
<1>4. Storage'
  BY DEF IndInv, Storage, HeldHost, HeldDevice, Live, Serialize, construction
<1> QED BY <1>2, <1>3, <1>4 DEF IndInv

LEMMA Stuttering == IndInv /\ UNCHANGED vars => IndInv'
BY DEF IndInv, TypeOK, OwnFields, OwnStorage, KernelsHeld, Storage, HeldHost,
   HeldDevice, UploadUnderWay, Live, vars, construction

LEMMA InvHolds == Spec => []IndInv
<1>1. IndInv /\ [Next]_vars => IndInv'
  <2> SUFFICES ASSUME IndInv, [Next]_vars PROVE IndInv'
    OBVIOUS
  <2>1. ASSUME NEW c \in Creations, NEW d \in Data, CreatePlugin(c, d) PROVE IndInv'
    BY <2>1, CreateStep
  <2>2. ASSUME NEW part \in HostParts, CopyToHost(part) PROVE IndInv'
    BY <2>2, CopyToHostStep
  <2>3. ASSUME NEW part \in HostParts, Malloc(part) PROVE IndInv'
    BY <2>3, MallocStep
  <2>4. CASE MemcpyDone
    BY <2>4, MemcpyStep
  <2>5. CASE Throw
    BY <2>5, ThrowStep
  <2>6. ASSUME NEW o \in Objects, Construct(o) PROVE IndInv'
    BY <2>6, ConstructStep
  <2>7. ASSUME NEW o \in Objects, Enqueue(o) PROVE IndInv'
    BY <2>7, EnqueueStep
  <2>8. ASSUME NEW o \in Objects, Destroy(o) PROVE IndInv'
    BY <2>8, DestroyStep
  <2>9. ASSUME NEW o \in Objects, Serialize(o) PROVE IndInv'
    BY <2>9, SerializeStep
  <2>10. ASSUME NEW source \in Objects, NEW o \in Objects, Clone(source, o)
         PROVE IndInv'
    BY <2>10, CloneStep
  <2>11. CASE KernelDone
    BY <2>11, KernelDoneStep
  <2>12. CASE UNCHANGED vars
    BY <2>12, Stuttering
  <2> QED BY <2>1, <2>2, <2>3, <2>4, <2>5, <2>6, <2>7, <2>8, <2>9, <2>10, <2>11,
             <2>12 DEF Next
<1> QED BY InitInv, <1>1, PTL DEF Spec

(* Type correctness.                                                       *)
THEOREM TypesHold == Spec => []TypeOK
BY InvHolds, PTL DEF IndInv

(* Buffers are allocated exactly while an object or the construction under *)
(* way holds them: none leaks, none is freed too early.                    *)
THEOREM NothingLeaks == Spec => []StorageIsHeld
<1>1. IndInv => StorageIsHeld
  <2> SUFFICES ASSUME IndInv PROVE StorageIsHeld
    OBVIOUS
  <2> DEFINE held == UNION {BuffersOf(objects[o].shares) : o \in Live}
             hostArgs == {<<building, h[2]>> : h \in {x \in have : x[1] = "host"}}
             deviceArgs == {<<building, h[2]>> : h \in {x \in have : x[1] = "device"}}
             filling == IF pending = "none" THEN {} ELSE {<<building, pending>>}
  <2>1. \A c, part : <<c, part>> \in held
             <=> part \in HostParts /\ \E o \in Live : objects[o].shares = c
    BY DEF BuffersOf
  <2>2. \A c, part : <<c, part>> \in hostArgs
             <=> c = building /\ <<"host", part>> \in have
    BY DEF IndInv, TypeOK
  <2>3. \A c, part : <<c, part>> \in deviceArgs
             <=> c = building /\ <<"device", part>> \in have
    BY DEF IndInv, TypeOK
  <2>4. \A o \in Live : objects[o].shares \in Creations
    BY DEF IndInv, TypeOK, Live
  <2>5. /\ held \subseteq Creations \X HostParts
        /\ hostArgs \subseteq Creations \X HostParts
        /\ deviceArgs \subseteq Creations \X HostParts
        /\ filling \subseteq Creations \X HostParts
    BY <2>4 DEF IndInv, TypeOK, BuffersOf
  <2>6. \A c \in Creations, part \in HostParts :
          /\ <<c, part>> \in host <=> <<c, part>> \in held \cup hostArgs
          /\ <<c, part>> \in device
                <=> <<c, part>> \in held \cup deviceArgs \cup filling
    BY <2>1, <2>2, <2>3 DEF IndInv, Storage, HeldHost, HeldDevice, HostParts
  <2>7. host \subseteq Creations \X HostParts /\ device \subseteq Creations \X HostParts
    BY DEF IndInv, TypeOK
  <2>8. host = held \cup hostArgs /\ device = held \cup deviceArgs \cup filling
    BY <2>5, <2>6, <2>7
  <2> QED BY <2>8 DEF StorageIsHeld
<1> QED BY <1>1, InvHolds, PTL

(* A kernel still on a stream reads buffers that are still allocated.      *)
THEOREM LaunchedKernelsReadLive == Spec => []KernelReadsLive
<1>1. IndInv => KernelReadsLive
  <2> SUFFICES ASSUME IndInv, NEW c \in inflight PROVE BuffersOf(c) \subseteq device
    BY DEF KernelReadsLive
  <2>1. \A part \in HostParts : <<c, part>> \in device
    BY DEF IndInv, TypeOK, KernelsHeld, Storage, HeldDevice
  <2> QED BY <2>1 DEF BuffersOf
<1> QED BY <1>1, InvHolds, PTL

-----------------------------------------------------------------------------
\* What object o holds, seen from outside.
Held(o) == IF objects[o] = Gone THEN Gone ELSE data[objects[o].shares]

LEMMA InitRefines == Init => Values!Init
BY DEF Init, Values!Init

LEMMA NobodyNotices ==
    ASSUME \A o \in Objects : Held(o)' = Held(o), plan' = plan
    PROVE  UNCHANGED Values!vars
BY DEF Held, Values!vars

\* Storage of an object changes hands only with the object.
LEMMA SameHolding ==
    ASSUME IndInv, NEW o \in Objects, objects'[o] = objects[o],
           o \in Live => data'[objects[o].shares] = data[objects[o].shares]
    PROVE  Held(o)' = Held(o)
BY DEF Held, Live

LEMMA CreateIsHidden ==
    ASSUME IndInv, NEW c \in Creations, NEW d \in Data, CreatePlugin(c, d)
    PROVE  UNCHANGED Values!vars
<1>1. \A o \in Live : objects[o].shares # c /\ objects[o].shares \in Creations
  BY ValuesAssumption DEF IndInv, TypeOK, Live, OwnFields, CreatePlugin
<1>2. \A k \in Creations \ {c} : data'[k] = data[k]
  BY DEF IndInv, TypeOK, CreatePlugin
<1>3. \A o \in Objects : Held(o)' = Held(o)
  BY <1>1, <1>2, SameHolding DEF CreatePlugin
<1> QED BY <1>3, NobodyNotices DEF CreatePlugin

LEMMA ThrowIsHidden == IndInv /\ Throw => UNCHANGED Values!vars
<1> SUFFICES ASSUME IndInv, Throw PROVE UNCHANGED Values!vars
  OBVIOUS
<1>1. \A o \in Live : objects[o].shares # building /\ objects[o].shares \in Creations
  BY DEF IndInv, TypeOK, Live, OwnStorage, Throw
<1>2. \A k \in Creations \ {building} : data'[k] = data[k]
  BY DEF IndInv, TypeOK, Throw
<1>3. \A o \in Objects : Held(o)' = Held(o)
  BY <1>1, <1>2, SameHolding DEF Throw
<1> QED BY <1>3, NobodyNotices DEF Throw

LEMMA ConstructCreates ==
    ASSUME IndInv, NEW o \in Objects, Construct(o)
    PROVE  \E d \in Data : Values!Create(o, d)
<1>1. data[building] \in Data /\ building \in Creations
  BY DEF IndInv, TypeOK, OwnStorage, Construct
<1>2. objects[o] = Gone /\ data' = data /\ plan' = plan
  BY DEF Construct
<1>3. objects'[o] # Gone /\ objects'[o].shares = building
  BY <1>1, NewObject, ValuesAssumption DEF Construct, Live
<1>4. \A p \in Objects \ {o} : objects'[p] = objects[p]
  BY DEF IndInv, TypeOK, Construct
<1>5. PICK d \in Data : d = data[building]
  BY <1>1
<1>6. Held(o)' = d /\ \A p \in Objects \ {o} : Held(p)' = Held(p)
  BY <1>2, <1>3, <1>4, <1>5 DEF Held
<1>7. Values!Create(o, d)
  BY <1>2, <1>6 DEF Values!Create, Held
<1> QED BY <1>7

LEMMA CloneCopies ==
    ASSUME IndInv, NEW source \in Objects, NEW o \in Objects, Clone(source, o)
    PROVE  Values!Clone(source, o)
<1>1. source \in Live /\ objects[source].shares \in Creations
      /\ data[objects[source].shares] \in Data
  BY DEF IndInv, TypeOK, OwnFields, Live, Clone
<1>2. objects[o] = Gone /\ objects[source] # Gone /\ data' = data /\ plan' = plan
  BY DEF Clone
<1>3. objects'[o] # Gone /\ objects'[o].shares = objects[source].shares
  BY <1>1, NewObject, ValuesAssumption DEF Clone, Live
<1>4. \A p \in Objects \ {o} : objects'[p] = objects[p]
  BY DEF IndInv, TypeOK, Clone
<1> QED BY <1>1, <1>2, <1>3, <1>4, ValuesAssumption DEF Values!Clone

LEMMA DestroyTakesOne ==
    ASSUME IndInv, NEW o \in Objects, Destroy(o)
    PROVE  Values!Destroy(o)
<1> DEFINE c == objects[o].shares
<1>1. o \in Live /\ data[c] \in Data /\ objects[o] # Gone /\ plan' = plan
  BY DEF IndInv, OwnFields, Live, Destroy
<1>2. objects'[o] = Gone /\ \A p \in Objects \ {o} : objects'[p] = objects[p]
  BY DEF IndInv, TypeOK, Destroy
<1>3. \A p \in Live \ {o} : data'[objects[p].shares] = data[objects[p].shares]
  BY DEF IndInv, TypeOK, Live, Destroy, LastOf
<1>4. \A p \in Objects \ {o} : Held(p)' = Held(p)
  BY <1>2, <1>3, SameHolding
<1> QED BY <1>1, <1>2, <1>4, ValuesAssumption DEF Values!Destroy, Held

LEMMA SerializeWritesOwn ==
    ASSUME IndInv, NEW o \in Objects, Serialize(o)
    PROVE  Values!Serialize(o)
<1>1. o \in Live /\ data[objects[o].shares] \in Data /\ objects[o] # Gone
  BY DEF IndInv, OwnFields, Live, Serialize
<1>2. plan' = data[objects[o].shares]
  BY <1>1, FieldsAreOwn DEF Serialize
<1>3. objects' = objects /\ data' = data
  BY DEF Serialize
<1> QED BY <1>1, <1>2, <1>3, ValuesAssumption DEF Values!Serialize

LEMMA OthersAreHidden ==
    ASSUME objects' = objects, data' = data, plan' = plan
    PROVE  UNCHANGED Values!vars
BY DEF Values!vars

(* Every object is a value of its own: created with its weights, copied    *)
(* whole by clone, and serialized as it was made, whatever becomes of the  *)
(* object it was cloned from.                                              *)
THEOREM ObjectsAreValues == Spec => ImplementsPluginWeights
<1>1. IndInv /\ [Next]_vars => [Values!Next]_(Values!vars)
  <2> SUFFICES ASSUME IndInv, [Next]_vars PROVE [Values!Next]_(Values!vars)
    OBVIOUS
  <2>1. ASSUME NEW c \in Creations, NEW d \in Data, CreatePlugin(c, d)
        PROVE  UNCHANGED Values!vars
    BY <2>1, CreateIsHidden
  <2>2. ASSUME NEW part \in HostParts, CopyToHost(part) \/ Malloc(part)
        PROVE  UNCHANGED Values!vars
    BY <2>2, OthersAreHidden DEF CopyToHost, Malloc
  <2>3. CASE MemcpyDone \/ KernelDone \/ UNCHANGED vars
    BY <2>3, OthersAreHidden DEF MemcpyDone, KernelDone, vars
  <2>4. CASE Throw
    BY <2>4, ThrowIsHidden
  <2>5. ASSUME NEW o \in Objects, Construct(o) PROVE Values!Next
    <3>1. \E d \in Data : Values!Create(o, d)
      BY <2>5, ConstructCreates
    <3> QED BY <3>1 DEF Values!Next
  <2>6. ASSUME NEW o \in Objects, Enqueue(o) PROVE UNCHANGED Values!vars
    BY <2>6, OthersAreHidden DEF Enqueue
  <2>7. ASSUME NEW o \in Objects, Destroy(o) PROVE Values!Next
    BY <2>7, DestroyTakesOne DEF Values!Next
  <2>8. ASSUME NEW o \in Objects, Serialize(o) PROVE Values!Next
    BY <2>8, SerializeWritesOwn DEF Values!Next
  <2>9. ASSUME NEW source \in Objects, NEW o \in Objects, Clone(source, o)
        PROVE Values!Next
    <3>1. Values!Clone(source, o)
      BY <2>9, CloneCopies
    <3> QED BY <3>1 DEF Values!Next
  <2> QED BY <2>1, <2>2, <2>3, <2>4, <2>5, <2>6, <2>7, <2>8, <2>9 DEF Next
<1> QED BY InitRefines, <1>1, InvHolds, PTL DEF Spec, ImplementsPluginWeights, Values!Spec
=============================================================================
