--------------------------- MODULE RegistryProofs ---------------------------
(***************************************************************************)
(* What Registry keeps, whatever EdgeCore registers and whatever fails:    *)
(* types, the manager's array within its memory, and the relation between  *)
(* the reply, main's lists and the devices, on which RegistryAnswers       *)
(* builds.                                                                 *)
(***************************************************************************)
EXTENDS Registry, FiniteSetTheorems, TLAPS

-----------------------------------------------------------------------------
(* Lists.                                                                  *)

(* A sequence over any set is a list.                                      *)
LEMMA SeqIsList ==
  ASSUME NEW S, NEW s \in Seq(S)
  PROVE  IsList(s)
<1>1. Len(s) \in Nat /\ DOMAIN s = 1 .. Len(s)
  OBVIOUS
<1>2. s \in [1 .. Len(s) -> {s[k] : k \in DOMAIN s}]
  BY <1>1
<1> QED
  BY <1>1, <1>2 DEF IsList

(* A list is a function on 1 .. its length.                                *)
LEMMA ListShape ==
  ASSUME NEW s, IsList(s)
  PROVE  /\ Len(s) \in Nat
         /\ DOMAIN s = 1 .. Len(s)
         /\ s = [k \in 1 .. Len(s) |-> s[k]]
BY DEF IsList

(* A function on 1 .. n is a list of length n.                             *)
LEMMA FunctionIsList ==
  ASSUME NEW n \in Nat, NEW s, s = [k \in 1 .. n |-> s[k]]
  PROVE  IsList(s) /\ Len(s) = n /\ DOMAIN s = 1 .. n
<1>1. s \in [1 .. n -> {s[k] : k \in 1 .. n}]
  BY Zenon
<1> DEFINE S == {s[k] : k \in 1 .. n}
<1> HIDE DEF S
<1>2. s \in [1 .. n -> S]
  BY <1>1 DEF S
<1>3. s \in Seq(S) /\ Len(s) = n /\ DOMAIN s = 1 .. n
  BY <1>2
<1> QED
  BY <1>3, SeqIsList

(* The empty sequence is a list.                                           *)
LEMMA EmptyIsList == IsList(<<>>) /\ Len(<<>>) = 0
<1>1. <<>> \in Seq({})
  OBVIOUS
<1> QED
  BY <1>1, SeqIsList

(* Appending to a list gives a list that is one longer.                    *)
LEMMA AppendLength ==
  ASSUME NEW s, NEW x, IsList(s)
  PROVE  /\ IsList(Append(s, x))
         /\ Len(Append(s, x)) = Len(s) + 1
         /\ \A k \in 1 .. Len(s) : Append(s, x)[k] = s[k]
         /\ Append(s, x)[Len(s) + 1] = x
<1> DEFINE S == {s[k] : k \in DOMAIN s} \cup {x}
           t == Append(s, x)
<1>1. s \in Seq(S) /\ x \in S
  BY DEF IsList
<1> HIDE DEF S
<1>2. t \in Seq(S) /\ Len(t) = Len(s) + 1
  BY <1>1
<1>3. (\A k \in 1 .. Len(s) : t[k] = s[k]) /\ t[Len(s) + 1] = x
  BY <1>1
<1> QED
  BY <1>2, <1>3, SeqIsList

(* Replacing an element of a list leaves its length alone.                 *)
Replaced(s, i, x) == [s EXCEPT ![i] = x]

LEMMA ExceptLength ==
  ASSUME NEW s, NEW i, NEW x, IsList(s), NEW t, t = Replaced(s, i, x)
  PROVE  /\ IsList(t) /\ Len(t) = Len(s)
         /\ \A k \in 1 .. Len(s) : t[k] = IF k = i THEN x ELSE s[k]
<1>1. Len(s) \in Nat /\ DOMAIN s = 1 .. Len(s)
  BY ListShape
<1>2. \A k \in 1 .. Len(s) : t[k] = IF k = i THEN x ELSE s[k]
  BY <1>1 DEF Replaced
<1>3. t = [k \in 1 .. Len(s) |-> t[k]]
  BY <1>1 DEF Replaced
<1>4. IsList(t) /\ Len(t) = Len(s)
  BY <1>1, <1>3, FunctionIsList
<1> QED
  BY <1>2, <1>4

-----------------------------------------------------------------------------
(* The first index at which something holds. Sets of numbers have a least  *)
(* element because the strict subset relation on finite sets is well       *)
(* founded.                                                                *)

LEMMA LeastExists ==
  ASSUME NEW n \in Nat, NEW I \in SUBSET (1 .. n), I # {}
  PROVE  \E i \in I : \A j \in I : i <= j
<1> DEFINE T == {1 .. i : i \in I}
<1>1. T \subseteq FiniteSubsetsOf(Nat) /\ T # {}
  <2>1. ASSUME NEW i \in I PROVE IsFiniteSet(1 .. i) /\ 1 .. i \subseteq Nat
    BY <2>1, FS_Interval
  <2> QED
    BY <2>1 DEF FiniteSubsetsOf
<1>2. PICK S \in T : \A R \in T : ~(<<R, S>> \in StrictSubsetOrdering(Nat))
  <2> HIDE DEF T
  <2> QED
    BY <1>1, WFMin, FS_StrictSubsetOrderingWellFounded
<1>3. PICK i \in I : S = 1 .. i
  BY <1>2
<1>4. ASSUME NEW j \in I, j < i PROVE FALSE
  <2>1. 1 .. j \subseteq 1 .. i /\ i \in 1 .. i /\ i \notin 1 .. j
    BY <1>4
  <2>2. <<1 .. j, 1 .. i>> \in StrictSubsetOrdering(Nat)
    BY <2>1 DEF StrictSubsetOrdering
  <2> QED
    BY <1>2, <1>3, <2>2
<1> QED
  BY <1>4

LEMMA MinIsLeast ==
  ASSUME NEW n \in Nat, NEW I \in SUBSET (1 .. n), I # {}
  PROVE  Min(I) \in I /\ \A j \in I : Min(I) <= j
BY LeastExists DEF Min

(* A last index exists too: the first one, counted from the end.           *)
LEMMA MaxIsGreatest ==
  ASSUME NEW n \in Nat, NEW I \in SUBSET (1 .. n), I # {}
  PROVE  Max(I) \in I /\ \A j \in I : j <= Max(I)
<1> DEFINE J == {n + 1 - i : i \in I}
<1>1. J \in SUBSET (1 .. n) /\ J # {}
  OBVIOUS
<1>2. PICK m \in J : \A j \in J : m <= j
  <2> HIDE DEF J
  <2> QED
    BY <1>1, LeastExists
<1>3. PICK i \in I : m = n + 1 - i
  BY <1>2
<1>4. \A j \in I : j <= i
  BY <1>2, <1>3
<1> QED
  BY <1>4 DEF Max

-----------------------------------------------------------------------------
(* The invariant.                                                          *)

(* The array fits into the memory there is, unless a realloc has failed,   *)
(* and a realloc that failed has dropped an entry of the reply.            *)
ArrayInv ==
  /\ IsList(devices)
  /\ capacity \in Nat \ {0} /\ allocated \in 1 .. capacity
  /\ Len(devices) <= capacity
  /\ capacity # allocated => lost # {}

Registered == pc \in {"init", "running"}

(* main's lists hold the reply's entries, those that were unpacked. What   *)
(* main has dealt with no longer matters: later failures drop it, too.     *)
ListInv ==
  /\ pc \in {"register", "init", "running", "exit"}
  /\ ~Registered =>
       /\ reply = [devices |-> <<>>, models |-> <<>>]
       /\ deviceList = <<>> /\ modelList = <<>>
       /\ at = 1 /\ devices = <<>> /\ lost = {}
  /\ Registered =>
       /\ reply \in Replies
       /\ IsList(deviceList) /\ Len(deviceList) = Len(reply.devices)
       /\ IsList(modelList) /\ Len(modelList) = Len(reply.models)
       /\ at \in 1 .. Len(deviceList) + 1
       /\ \A i \in 1 .. Len(deviceList) :
            i >= at => deviceList[i] = IF <<"device", i>> \in lost
                                         THEN NoInstance
                                         ELSE get_device_from_grpc(reply.devices[i])
       /\ \A j \in 1 .. Len(modelList) :
            modelList[j] = IF <<"model", j>> \in lost
                             THEN NoModel
                             ELSE get_device_model_from_grpc(reply.models[j])
  /\ pc = "running" => at = Len(deviceList) + 1

(* A device of the manager is what was registered, with or without its     *)
(* twins' properties.                                                      *)
Genuine(d) ==
  LET m == reply.devices[d.src]
  IN  /\ d.src \in 1 .. at - 1 /\ Served(d.src)
      /\ d = [src |-> d.src, name |-> m.name, ns |-> d.ns, model |-> d.model,
              modelNs |-> d.modelNs, client |-> m.proto, props |-> m.props,
              twins |-> d.twins, methods |-> DefaultMethods(m.methods, m.props)]
      /\ d.twins \in {Bound(m.props), Unbound(m.props)}

(* The manager has exactly the devices that can be served, in the order of *)
(* the reply.                                                              *)
DevicesInv ==
  /\ \A k \in 1 .. Len(devices) : Genuine(devices[k])
  /\ \A j, k \in 1 .. Len(devices) : j < k => devices[j].src < devices[k].src
  /\ \A i \in 1 .. at - 1 :
       Served(i) => \E k \in 1 .. Len(devices) : devices[k].src = i

(* The start thread exists only once all devices do, and has rebuilt the   *)
(* twins of the devices it has passed.                                     *)
StartInv ==
  /\ start \in {"none", "ready", "busy", "done"}
  /\ start # "none" => pc = "running"
  /\ startAt \in 1 .. Len(devices) + 1
  /\ start \in {"none", "ready"} => startAt = 1
  /\ start = "done" => startAt = Len(devices) + 1
  /\ \A k \in 1 .. Len(devices) :
       k < startAt => devices[k].twins = Bound(devices[k].props)

(* A request the HTTP server works on.                                     *)
HttpRequests ==
  [pc : {"lookup", "use", "model"}, url : Urls, to : NeedsDevice,
   early : BOOLEAN, dev : Nat]

HttpInv ==
  \/ http = Idle
  \/ /\ http \in HttpRequests
     /\ pc = "running"
     /\ http.to = Handler(http.url)
     /\ http.dev \in 0 .. Len(devices)
     /\ ~http.early => start = "done"
     /\ http.pc = "model" => http.to = "model"

RpcInv ==
  \/ rpc = Idle
  \/ rpc \in [pc : {"first", "second"}, target : Targets]
  \/ rpc \in [pc : {"told"}, target : Targets, dev : 0 .. Len(devices)]

ServerInv == HttpInv /\ RpcInv /\ sent \in 0 .. MaxRequests

RegistryInv == ArrayInv /\ ListInv /\ DevicesInv /\ StartInv /\ ServerInv

-----------------------------------------------------------------------------
(* Registration: the lists.                                                *)

(* Before the registration there is nothing.                               *)
LEMMA RegistryInit == Init => RegistryInv
<1> SUFFICES ASSUME Init PROVE RegistryInv
  OBVIOUS
<1> USE DEF Init
<1>1. ArrayInv
  BY EmptyIsList, RegistryAssumption DEF ArrayInv
<1>2. ListInv
  BY DEF ListInv, Registered
<1>3. DevicesInv /\ StartInv
  BY EmptyIsList DEF DevicesInv, StartInv
<1>4. ServerInv
  BY RegistryAssumption DEF ServerInv, HttpInv, RpcInv
<1> QED
  BY <1>1, <1>2, <1>3, <1>4 DEF RegistryInv

(* The reply's entries become the lists, without those that do not unpack. *)
LEMMA RegisterLists ==
  ASSUME ListInv, NEW r \in Replies, Register(r)
  PROVE  ListInv' /\ at' = 1
<1>1. PICK badD \in SUBSET DOMAIN r.devices, badM \in SUBSET DOMAIN r.models :
        /\ LET bad == ({"device"} \X badD) \cup ({"model"} \X badM)
           IN  \/ bad = {} /\ UNCHANGED lost
               \/ bad # {} /\ MayDrop("decode", bad)
        /\ deviceList' = [i \in DOMAIN r.devices |->
             IF i \in badD THEN NoInstance
                           ELSE get_device_from_grpc(r.devices[i])]
        /\ modelList' = [j \in DOMAIN r.models |->
             IF j \in badM THEN NoModel
                           ELSE get_device_model_from_grpc(r.models[j])]
  BY DEF Register
<1>2. /\ pc = "register" /\ lost = {} /\ at = 1
      /\ reply' = r /\ pc' = "init" /\ at' = at
  BY DEF Register, ListInv, Registered
<1>3. lost' = ({"device"} \X badD) \cup ({"model"} \X badM)
  BY <1>1, <1>2 DEF MayDrop
<1>4. /\ IsList(r.devices) /\ Len(r.devices) \in Nat
      /\ DOMAIN r.devices = 1 .. Len(r.devices)
      /\ IsList(r.models) /\ Len(r.models) \in Nat
      /\ DOMAIN r.models = 1 .. Len(r.models)
  BY ReplyAssumption, ListShape
<1>5. /\ IsList(deviceList') /\ Len(deviceList') = Len(r.devices)
      /\ IsList(modelList') /\ Len(modelList') = Len(r.models)
  <2>1. deviceList' = [i \in 1 .. Len(r.devices) |-> deviceList'[i]]
    BY <1>1, <1>4
  <2>2. modelList' = [j \in 1 .. Len(r.models) |-> modelList'[j]]
    BY <1>1, <1>4
  <2> QED
    BY <2>1, <2>2, <1>4, FunctionIsList
<1>6. ASSUME NEW i \in 1 .. Len(r.devices)
      PROVE  deviceList'[i] = IF <<"device", i>> \in lost' THEN NoInstance
                                ELSE get_device_from_grpc(r.devices[i])
  BY <1>1, <1>3, <1>4
<1>7. ASSUME NEW j \in 1 .. Len(r.models)
      PROVE  modelList'[j] = IF <<"model", j>> \in lost' THEN NoModel
                               ELSE get_device_model_from_grpc(r.models[j])
  BY <1>1, <1>3, <1>4
<1> QED
  BY <1>2, <1>4, <1>5, <1>6, <1>7 DEF ListInv, Registered

(* main's loop goes on; the entry it leaves may have been dropped.         *)
LEMMA NextEntry ==
  ASSUME ListInv, pc = "init", at <= Len(deviceList),
         at' = at + 1, UNCHANGED <<pc, reply, deviceList, modelList>>,
         lost' = lost \/ lost' = lost \cup {<<"device", at>>}
  PROVE  ListInv'
<1>1. at \in Nat /\ Len(deviceList) \in Nat
  BY ListShape DEF ListInv, Registered
<1>2. \A i \in 1 .. Len(deviceList) :
        i >= at' => (<<"device", i>> \in lost' <=> <<"device", i>> \in lost)
  BY <1>1
<1>3. \A j \in 1 .. Len(modelList) :
        <<"model", j>> \in lost' <=> <<"model", j>> \in lost
  OBVIOUS
<1>4. at' \in 1 .. Len(deviceList) + 1
  BY <1>1 DEF ListInv, Registered
<1> QED
  BY <1>1, <1>2, <1>3, <1>4 DEF ListInv, Registered

-----------------------------------------------------------------------------
(* Registration: the devices.                                              *)

(* Whether a model is found is whether the device can be served.           *)
LEMMA ModelOfServed ==
  ASSUME ListInv, pc = "init", at <= Len(deviceList)
  PROVE  /\ at \in 1 .. Len(reply.devices)
         /\ ModelOf(at) # 0 <=> Served(at)
         /\ ModelOf(at) # 0 => deviceList[at] = get_device_from_grpc(reply.devices[at])
<1> DEFINE I == {j \in 1 .. Len(modelList) : /\ modelList[j].name # Null
                                             /\ modelList[j].name = deviceList[at].model}
           m == reply.devices[at]
<1>1. /\ reply \in Replies /\ at \in Nat /\ at >= 1
      /\ at \in 1 .. Len(deviceList)
      /\ Len(deviceList) = Len(reply.devices)
      /\ Len(modelList) = Len(reply.models)
      /\ Len(modelList) \in Nat
  BY ListShape DEF ListInv, Registered
<1>2. DOMAIN reply.models = 1 .. Len(reply.models)
  BY <1>1, ReplyAssumption, ListShape
<1>3. ModelOf(at) # 0 <=> I # {}
  <2>1. ModelOf(at) = IF I # {} THEN Min(I) ELSE 0
    BY DEF ModelOf, SelectInSeq
  <2>2. I # {} => Min(I) \in I
    BY <1>1, MinIsLeast
  <2> QED
    BY <2>1, <2>2
<1>4. CASE <<"device", at>> \in lost
  <2>1. deviceList[at] = NoInstance
    BY <1>1, <1>4 DEF ListInv, Registered
  <2>2. I = {}
    BY <2>1 DEF NoInstance
  <2> QED
    BY <1>1, <1>3, <1>4, <2>2 DEF Served
<1>5. CASE <<"device", at>> \notin lost
  <2>1. deviceList[at] = get_device_from_grpc(m)
    BY <1>1, <1>5 DEF ListInv, Registered
  <2>2. deviceList[at].model = m.ref
    BY <2>1 DEF get_device_from_grpc
  <2>3. ASSUME NEW j \in 1 .. Len(modelList)
        PROVE  j \in I <=> <<"model", j>> \notin lost /\ reply.models[j].name = m.ref
    <3>1. reply.models[j].name # Null
      BY <1>1, <1>2, ReplyAssumption
    <3>2. CASE <<"model", j>> \in lost
      <4>1. modelList[j] = NoModel
        BY <1>1, <3>2 DEF ListInv, Registered
      <4> QED
        BY <4>1, <3>2 DEF NoModel
    <3>3. CASE <<"model", j>> \notin lost
      <4>1. modelList[j] = get_device_model_from_grpc(reply.models[j])
        BY <1>1, <3>3 DEF ListInv, Registered
      <4>2. modelList[j].name = reply.models[j].name
        BY <4>1 DEF get_device_model_from_grpc
      <4> QED
        BY <4>2, <3>1, <3>3, <2>2
    <3> QED
      BY <3>2, <3>3
  <2>4. I # {} <=> Served(at)
    <3> HIDE DEF m
    <3>1. Served(at) <=> \E j \in 1 .. Len(modelList) :
            <<"model", j>> \notin lost /\ reply.models[j].name = m.ref
      BY <1>1, <1>2, <1>5 DEF Served, m
    <3>2. I # {} <=> \E j \in 1 .. Len(modelList) : j \in I
      OBVIOUS
    <3> HIDE DEF I
    <3> QED
      BY <3>1, <3>2, <2>3
  <2> QED
    BY <1>1, <1>3, <2>1, <2>4
<1> QED
  BY <1>4, <1>5

(* device_new copies what was registered.                                  *)
LEMMA NewIsGenuine ==
  ASSUME ListInv, pc = "init", at <= Len(deviceList), ModelOf(at) # 0,
         NEW m, m = reply.devices[at], NEW d, d = device_new(at)
  PROVE  /\ d = [src |-> at, name |-> m.name, ns |-> d.ns, model |-> d.model,
                 modelNs |-> d.modelNs, client |-> m.proto, props |-> m.props,
                 twins |-> d.twins, methods |-> DefaultMethods(m.methods, m.props)]
         /\ d.twins \in {Bound(m.props), Unbound(m.props)}
<1>1. deviceList[at] = get_device_from_grpc(m)
  BY ModelOfServed
<1> QED
  BY <1>1 DEF device_new, get_device_from_grpc

(* An entry that cannot be served leaves the devices as they are.          *)
LEMMA EntryWithoutDevice ==
  ASSUME ListInv, DevicesInv, pc = "init", at <= Len(deviceList),
         at' = at + 1, UNCHANGED <<reply, devices>>,
         lost' = lost \/ lost' = lost \cup {<<"device", at>>},
         NEW e, e = at, ~Served(e)'
  PROVE  DevicesInv'
<1>1. at \in Nat
  BY DEF ListInv, Registered
<1>2. ASSUME NEW i \in 1 .. at - 1 PROVE Served(i)' <=> Served(i)
  <2>1. /\ <<"device", i>> \in lost' <=> <<"device", i>> \in lost
        /\ \A j : <<"model", j>> \in lost' <=> <<"model", j>> \in lost
    BY <1>1, <1>2
  <2> QED
    BY <2>1 DEF Served
<1>3. ASSUME NEW k \in 1 .. Len(devices) PROVE Genuine(devices[k])'
  <2>1. Genuine(devices[k])
    BY DEF DevicesInv
  <2>2. Served(devices[k].src)'
    BY <2>1, <1>2 DEF Genuine
  <2>3. devices'[k].src \in 1 .. at' - 1
    BY <2>1, <1>1 DEF Genuine
  <2> QED
    BY <2>1, <2>2, <2>3 DEF Genuine
<1>4. ASSUME NEW i \in 1 .. at' - 1, Served(i)'
      PROVE  \E k \in 1 .. Len(devices) : devices[k].src = i
  <2>1. i # e
    BY <1>4
  <2>2. i \in 1 .. at - 1
    BY <2>1, <1>1
  <2> QED
    BY <2>2, <1>2, <1>4 DEF DevicesInv
<1> QED
  BY <1>3, <1>4 DEF DevicesInv

(* A device that is added is the one of the entry, behind all others.      *)
LEMMA EntryAdded ==
  ASSUME ArrayInv, ListInv, DevicesInv, pc = "init", at <= Len(deviceList),
         ModelOf(at) # 0, at' = at + 1, UNCHANGED <<reply, lost>>,
         devices' = Append(devices, device_new(at))
  PROVE  DevicesInv'
<1>0. PICK n \in Nat : n = Len(devices)
  BY ListShape DEF ArrayInv
<1>00. PICK e \in Nat : e = at
  BY DEF ListInv, Registered
<1>1. PICK d : d = device_new(e)
  OBVIOUS
<1>2. /\ Len(devices') = n + 1
      /\ \A k \in 1 .. n : devices'[k] = devices[k]
      /\ devices'[n + 1] = d
  BY <1>0, <1>00, <1>1, AppendLength DEF ArrayInv
<1>3. \A i : Served(i)' <=> Served(i)
  BY DEF Served
<1>4. ASSUME NEW k \in 1 .. n PROVE Genuine(devices[k])
  BY <1>0 DEF DevicesInv
<1>5. ASSUME NEW k \in 1 .. n PROVE Genuine(devices[k])'
  <2>1. Genuine(devices[k]) /\ devices'[k] = devices[k]
    BY <1>2, <1>4
  <2>2. devices[k].src \in 1 .. at' - 1
    BY <2>1, <1>00 DEF Genuine
  <2> QED
    BY <2>1, <2>2, <1>3 DEF Genuine
<1>6. Genuine(devices[n + 1])' /\ d.src = e
  <2>1. Served(e)
    BY <1>00, ModelOfServed
  <2>2. PICK m : m = reply.devices[e]
    OBVIOUS
  <2>3. /\ d = [src |-> e, name |-> m.name, ns |-> d.ns, model |-> d.model,
                modelNs |-> d.modelNs, client |-> m.proto, props |-> m.props,
                twins |-> d.twins, methods |-> DefaultMethods(m.methods, m.props)]
        /\ d.twins \in {Bound(m.props), Unbound(m.props)}
    BY <1>00, <1>1, <2>2, NewIsGenuine
  <2>4. d.src = e
    BY <2>3
  <2>5. e \in 1 .. at' - 1
    BY <1>00 DEF ListInv, Registered
  <2>6. /\ reply'.devices[d.src] = m
        /\ Served(d.src)'
    BY <2>1, <2>2, <2>4, <1>3
  <2> QED
    BY <1>2, <2>3, <2>4, <2>5, <2>6 DEF Genuine
<1>7. ASSUME NEW j \in 1 .. n + 1, NEW k \in 1 .. n + 1, j < k
      PROVE  devices'[j].src < devices'[k].src
  <2>1. j \in 1 .. n
    BY <1>7
  <2>2. CASE k = n + 1
    <3>1. devices'[j].src \in 1 .. at - 1
      BY <2>1, <1>2, <1>4 DEF Genuine
    <3>2. devices'[k].src = e
      BY <2>2, <1>2, <1>6
    <3>3. \A i \in 1 .. at - 1 : i < e
      BY <1>00
    <3> QED
      BY <3>1, <3>2, <3>3, Zenon
  <2>3. CASE k \in 1 .. n
    BY <2>1, <2>3, <1>0, <1>2, <1>7 DEF DevicesInv
  <2>4. k = n + 1 \/ k \in 1 .. n
    OBVIOUS
  <2> QED
    BY <2>2, <2>3, <2>4, Zenon
<1>8. ASSUME NEW i \in 1 .. at' - 1, Served(i)'
      PROVE  \E k \in 1 .. n + 1 : devices'[k].src = i
  <2>1. CASE i = e
    BY <2>1, <1>2, <1>6
  <2>2. CASE i # e
    <3>1. PICK k \in 1 .. n : devices[k].src = i
      BY <2>2, <1>0, <1>00, <1>3, <1>8 DEF DevicesInv
    <3> QED
      BY <3>1, <1>2
  <2> QED
    BY <2>1, <2>2
<1>9. \A k \in 1 .. n + 1 : k \in 1 .. n \/ k = n + 1
  OBVIOUS
<1> QED
  BY <1>2, <1>5, <1>6, <1>7, <1>8, <1>9 DEF DevicesInv

-----------------------------------------------------------------------------
(* The steps of main and of the start thread.                              *)

(* What lists and devices say stays true when they do not change.          *)
LEMMA ListsStable ==
  ASSUME ListInv, DevicesInv, UNCHANGED <<pc, reply, deviceList, modelList,
                                          at, lost, devices>>
  PROVE  ListInv' /\ DevicesInv'
<1>1. \A i : Served(i)' <=> Served(i)
  BY DEF Served
<1>2. \A d : Genuine(d)' <=> Genuine(d)
  BY <1>1 DEF Genuine
<1>3. ListInv'
  BY DEF ListInv, Registered
<1>4. DevicesInv'
  BY <1>1, <1>2 DEF DevicesInv
<1> QED
  BY <1>3, <1>4

(* What the servers know stays true when the devices only grow in number   *)
(* and the start thread is not set back.                                   *)
LEMMA ServersStable ==
  ASSUME ServerInv, UNCHANGED serverVars,
         pc = "running" => pc' = "running",
         start = "done" => start' = "done",
         Len(devices) \in Nat, Len(devices') \in Nat, Len(devices') >= Len(devices)
  PROVE  ServerInv'
<1>1. HttpInv'
  BY DEF ServerInv, HttpInv, serverVars
<1>2. RpcInv'
  BY DEF ServerInv, RpcInv, serverVars
<1> QED
  BY <1>1, <1>2 DEF ServerInv, serverVars

(* Before the start thread runs there is nothing to say about it.          *)
LEMMA StartStable ==
  ASSUME StartInv, UNCHANGED startVars, pc = "init",
         Len(devices) \in Nat, Len(devices') \in Nat
  PROVE  StartInv'
BY DEF StartInv, startVars

(* Every step of main keeps the invariant.                                 *)
LEMMA MainInv ==
  ASSUME RegistryInv, MainStep
  PROVE  RegistryInv'
<1> USE DEF RegistryInv
<1>0. Len(devices) \in Nat
  BY ListShape DEF ArrayInv
<1>1. CASE RegisterFails
  <2>1. /\ UNCHANGED <<reply, deviceList, modelList, at, lost, devices>>
        /\ UNCHANGED <<managerVars, startVars, serverVars>>
        /\ pc = "register" /\ pc' = "exit"
    BY <1>1 DEF RegisterFails, managerVars
  <2>2. ArrayInv'
    BY <2>1 DEF ArrayInv, managerVars
  <2>3. ListInv'
    BY <2>1 DEF ListInv, Registered
  <2>4. DevicesInv'
    <3>1. devices' = <<>> /\ at' = 1
      BY <2>1 DEF ListInv, Registered
    <3> QED
      BY <3>1, EmptyIsList DEF DevicesInv
  <2>5. StartInv' /\ ServerInv'
    BY <2>1, <1>0, ServersStable DEF StartInv, startVars
  <2> QED
    BY <2>2, <2>3, <2>4, <2>5
<1>2. ASSUME NEW r \in Replies, Register(r) PROVE RegistryInv'
  <2>1. /\ UNCHANGED <<managerVars, startVars, serverVars>>
        /\ pc = "register" /\ pc' = "init"
        /\ lost \subseteq lost'
    BY <1>2 DEF Register, MayDrop
  <2>2. ArrayInv'
    BY <2>1 DEF ArrayInv, managerVars
  <2>3. ListInv' /\ at' = 1
    BY <1>2, RegisterLists
  <2>4. DevicesInv'
    <3>1. devices' = <<>>
      BY <2>1 DEF ListInv, Registered, managerVars
    <3> QED
      BY <3>1, <2>3, EmptyIsList DEF DevicesInv
  <2>5. StartInv' /\ ServerInv'
    BY <2>1, <1>0, ServersStable DEF StartInv, startVars, managerVars
  <2> QED
    BY <2>2, <2>3, <2>4, <2>5
<1>3. CASE InitSkips
  <2>1. /\ UNCHANGED <<reply, deviceList, modelList, pc, lost>>
        /\ UNCHANGED <<managerVars, startVars, serverVars>>
        /\ pc = "init" /\ at' = at + 1 /\ at <= Len(deviceList)
        /\ ModelOf(at) = 0 /\ UNCHANGED devices
    BY <1>3 DEF InitSkips, managerVars
  <2>2. ArrayInv'
    BY <2>1 DEF ArrayInv, managerVars
  <2>3. PICK e : e = at
    OBVIOUS
  <2>4. ~Served(e)'
    BY <2>1, <2>3, ModelOfServed DEF Served
  <2>5. ListInv' /\ DevicesInv'
    BY <2>1, <2>3, <2>4, NextEntry, EntryWithoutDevice
  <2>6. StartInv' /\ ServerInv'
    BY <2>1, <1>0, ServersStable, StartStable DEF startVars
  <2> QED
    BY <2>2, <2>5, <2>6
<1>4. CASE InitCreateFails
  <2>1. /\ UNCHANGED <<reply, deviceList, modelList, pc>>
        /\ UNCHANGED <<managerVars, startVars, serverVars>>
        /\ pc = "init" /\ at' = at + 1 /\ at <= Len(deviceList)
        /\ lost' = lost \cup {<<"device", at>>} /\ UNCHANGED devices
    BY <1>4 DEF InitCreateFails, managerVars, MayDrop
  <2>2. ArrayInv'
    BY <2>1 DEF ArrayInv, managerVars
  <2>3. PICK e : e = at
    OBVIOUS
  <2>4. ~Served(e)'
    BY <2>1, <2>3 DEF Served
  <2>5. ListInv' /\ DevicesInv'
    BY <2>1, <2>3, <2>4, NextEntry, EntryWithoutDevice
  <2>6. StartInv' /\ ServerInv'
    BY <2>1, <1>0, ServersStable, StartStable DEF startVars
  <2> QED
    BY <2>2, <2>5, <2>6
<1>5. CASE InitAdds
  <2>1. /\ UNCHANGED <<reply, deviceList, modelList, pc, lost>>
        /\ UNCHANGED <<startVars, serverVars>>
        /\ pc = "init" /\ at' = at + 1 /\ at <= Len(deviceList)
        /\ ModelOf(at) # 0 /\ devices' = Append(devices, device_new(at))
        /\ capacity' = IF Full THEN 2 * capacity ELSE capacity
        /\ allocated' = IF Full THEN 2 * capacity ELSE allocated
    BY <1>5 DEF InitAdds
  <2>2. IsList(devices') /\ Len(devices') = Len(devices) + 1
    BY <2>1, AppendLength DEF ArrayInv
  <2>3. ArrayInv'
    <3>1. CASE Full
      BY <3>1, <2>1, <2>2, <1>0 DEF ArrayInv, Full
    <3>2. CASE ~Full
      BY <3>2, <2>1, <2>2, <1>0 DEF ArrayInv, Full
    <3> QED
      BY <3>1, <3>2
  <2>4. ListInv' /\ DevicesInv'
    BY <2>1, NextEntry, EntryAdded
  <2>5. StartInv' /\ ServerInv'
    BY <2>1, <2>2, <1>0, ServersStable, StartStable DEF startVars
  <2> QED
    BY <2>3, <2>4, <2>5
<1>6. CASE InitAddFails
  <2>1. /\ UNCHANGED <<reply, deviceList, modelList, pc>>
        /\ UNCHANGED <<startVars, serverVars, devices, allocated>>
        /\ pc = "init" /\ at' = at + 1 /\ at <= Len(deviceList)
        /\ lost' = lost \cup {<<"device", at>>} /\ capacity' = 2 * capacity
    BY <1>6 DEF InitAddFails, MayDrop
  <2>2. ArrayInv'
    <3>1. capacity' \in Nat \ {0} /\ capacity' >= capacity
      BY <2>1 DEF ArrayInv
    <3>2. lost' # {}
      BY <2>1
    <3> QED
      BY <3>1, <3>2, <2>1, <1>0 DEF ArrayInv
  <2>3. PICK e : e = at
    OBVIOUS
  <2>4. ~Served(e)'
    BY <2>1, <2>3 DEF Served
  <2>5. ListInv' /\ DevicesInv'
    BY <2>1, <2>3, <2>4, NextEntry, EntryWithoutDevice
  <2>6. StartInv' /\ ServerInv'
    BY <2>1, <1>0, ServersStable, StartStable DEF startVars
  <2> QED
    BY <2>2, <2>5, <2>6
<1>7. CASE InitDone
  <2>1. /\ UNCHANGED <<reply, deviceList, modelList, at, lost, startAt>>
        /\ UNCHANGED <<managerVars, serverVars, devices>>
        /\ pc = "init" /\ pc' = "running" /\ at > Len(deviceList)
        /\ start' \in {"none", "ready"}
    BY <1>7 DEF InitDone, managerVars
  <2>2. ArrayInv'
    BY <2>1 DEF ArrayInv, managerVars
  <2>3. ListInv'
    <3>1. at' = Len(deviceList') + 1
      BY <2>1, ListShape DEF ListInv, Registered
    <3> QED
      BY <2>1, <3>1 DEF ListInv, Registered
  <2>4. DevicesInv'
    <3>1. \A i : Served(i)' <=> Served(i)
      BY <2>1 DEF Served
    <3>2. \A d : Genuine(d)' <=> Genuine(d)
      BY <2>1, <3>1 DEF Genuine
    <3> QED
      BY <2>1, <3>1, <3>2 DEF DevicesInv
  <2>5. StartInv'
    BY <2>1 DEF StartInv
  <2>6. start # "done"
    BY <2>1 DEF StartInv
  <2>7. ServerInv'
    BY <2>1, <2>6, <1>0, ServersStable
  <2> QED
    BY <2>2, <2>3, <2>4, <2>5, <2>7
<1> QED
  BY <1>1, <1>2, <1>3, <1>4, <1>5, <1>6, <1>7 DEF MainStep

(* Rebuilding attaches every property and changes nothing else.            *)
LEMMA RebuildBinds ==
  ASSUME NEW d, Genuine(d), NEW e, e = device_runtime_rebuild(d),
         IsList(d.props)
  PROVE  /\ Genuine(e) /\ e.src = d.src /\ e.name = d.name
         /\ e.props = d.props /\ e.twins = Bound(e.props)
<1> DEFINE m == reply.devices[d.src]
           D(tw) == [src |-> d.src, name |-> m.name, ns |-> d.ns,
                     model |-> d.model, modelNs |-> d.modelNs,
                     client |-> m.proto, props |-> m.props, twins |-> tw,
                     methods |-> DefaultMethods(m.methods, m.props)]
<1>1. d = D(d.twins) /\ d.twins \in {Bound(m.props), Unbound(m.props)}
  BY DEF Genuine
<1>2. d.props = m.props /\ d.methods = DefaultMethods(m.methods, m.props)
  BY <1>1
<1>3. DefaultMethods(d.methods, d.props) = d.methods
  BY <1>2 DEF DefaultMethods
<1>4. Len(m.props) \in Nat /\ DOMAIN m.props = 1 .. Len(m.props)
  BY <1>2, ListShape
<1>5. e.twins = Bound(m.props) /\ e = [[d EXCEPT !.twins = Bound(m.props)]
                                          EXCEPT !.methods = d.methods]
  <2> DEFINE rebuild == \/ d.props # <<>> /\ d.twins = <<>>
                        \/ \E t \in DOMAIN d.twins : ~d.twins[t].bound
  <2>1. e = [d EXCEPT !.twins = IF rebuild THEN Bound(d.props) ELSE d.twins,
                      !.methods = d.methods]
    BY <1>3 DEF device_runtime_rebuild
  <2>2. (IF rebuild THEN Bound(d.props) ELSE d.twins) = Bound(m.props)
    <3>1. CASE rebuild
      BY <3>1, <1>2
    <3>2. CASE ~rebuild /\ d.twins = Unbound(m.props)
      <4>1. DOMAIN m.props = {}
        BY <3>2 DEF Unbound
      <4> QED
        BY <4>1, <3>2 DEF Bound, Unbound
    <3>3. CASE ~rebuild /\ d.twins = Bound(m.props)
      BY <3>3
    <3> QED
      BY <3>1, <3>2, <3>3, <1>1
  <2> HIDE DEF rebuild
  <2>3. e = [d EXCEPT !.twins = Bound(m.props), !.methods = d.methods]
    BY <2>1, <2>2
  <2> HIDE DEF m
  <2> QED
    BY <2>3, <1>1
<1>6. e = D(Bound(m.props))
  <2> HIDE DEF m
  <2>1. [d EXCEPT !.twins = Bound(m.props)] = D(Bound(m.props))
    BY <1>1
  <2>2. [D(Bound(m.props)) EXCEPT !.methods = d.methods] = D(Bound(m.props))
    BY <1>2
  <2> HIDE DEF D
  <2> QED
    BY <2>1, <2>2, <1>5
<1> HIDE DEF m
<1>7. e.src = d.src /\ e.name = d.name /\ e.props = d.props /\ e.twins = Bound(e.props)
      /\ e.ns = d.ns /\ e.model = d.model /\ e.modelNs = d.modelNs
  BY <1>1, <1>6
<1>8. reply.devices[e.src] = m
  BY <1>7 DEF m
<1> QED
  BY <1>6, <1>7, <1>8 DEF Genuine, m

(* A device of the manager has an entry in the reply.                      *)
LEMMA GenuineEntry ==
  ASSUME ListInv, Registered, NEW d, Genuine(d)
  PROVE  /\ d.src \in 1 .. Len(reply.devices)
         /\ DOMAIN reply.devices = 1 .. Len(reply.devices)
         /\ IsList(d.props) /\ d.props = reply.devices[d.src].props
         /\ d.name = reply.devices[d.src].name
         /\ d.client = reply.devices[d.src].proto
         /\ d.methods = DefaultMethods(reply.devices[d.src].methods, d.props)
<1>1. /\ reply \in Replies /\ Len(deviceList) = Len(reply.devices)
      /\ at \in 1 .. Len(deviceList) + 1
  BY DEF ListInv
<1>2. Len(reply.devices) \in Nat /\ DOMAIN reply.devices = 1 .. Len(reply.devices)
  BY <1>1, ReplyAssumption, ListShape
<1>3. d.src \in 1 .. Len(reply.devices)
  BY <1>1, <1>2 DEF Genuine
<1> DEFINE m == reply.devices[d.src]
<1>4. IsList(m.props)
  BY <1>1, <1>2, <1>3, ReplyAssumption
<1>5. d.props = m.props /\ d.name = m.name /\ d.client = m.proto
      /\ d.methods = DefaultMethods(m.methods, m.props)
  BY DEF Genuine
<1> QED
  BY <1>2, <1>3, <1>4, <1>5

(* Every step of the start thread keeps the invariant.                     *)
LEMMA StartStepInv ==
  ASSUME RegistryInv, StartStep
  PROVE  RegistryInv'
<1> USE DEF RegistryInv
<1>0. Len(devices) \in Nat
  BY ListShape DEF ArrayInv
<1>1. ASSUME StartAllLocks \/ StartAllUnlocks PROVE RegistryInv'
  <2>1. /\ UNCHANGED <<mainVars, managerVars, serverVars, startAt>>
        /\ UNCHANGED <<pc, reply, deviceList, modelList, at, lost, devices>>
        /\ \/ start = "ready" /\ start' = "busy"
           \/ start = "busy" /\ startAt > Len(devices) /\ start' = "done"
    BY <1>1 DEF StartAllLocks, StartAllUnlocks, mainVars, managerVars
  <2>2. ArrayInv'
    BY <2>1 DEF ArrayInv, managerVars
  <2>3. ListInv' /\ DevicesInv'
    BY <2>1, ListsStable
  <2>4. StartInv'
    BY <2>1, <1>0 DEF StartInv
  <2>5. ServerInv'
    BY <2>1, <1>0, ServersStable
  <2> QED
    BY <2>2, <2>3, <2>4, <2>5
<1>2. CASE StartsDevice
  <2>1. /\ UNCHANGED <<start, capacity, allocated, mainVars, serverVars>>
        /\ UNCHANGED <<pc, reply, deviceList, modelList, at, lost>>
        /\ start = "busy" /\ startAt <= Len(devices) /\ startAt' = startAt + 1
        /\ devices' = [devices EXCEPT ![startAt] =
                         device_runtime_rebuild(devices[startAt])]
    BY <1>2 DEF StartsDevice, mainVars
  <2>2. PICK n \in Nat : n = Len(devices)
    BY <1>0
  <2>3. PICK c \in 1 .. n : c = startAt
    BY <2>1, <2>2 DEF StartInv
  <2>4. PICK e : e = device_runtime_rebuild(devices[c])
    OBVIOUS
  <2>5. /\ IsList(devices') /\ Len(devices') = n
        /\ \A k \in 1 .. n : devices'[k] = IF k = c THEN e ELSE devices[k]
    <3>1. devices' = Replaced(devices, c, e) /\ IsList(devices)
      BY <2>1, <2>3, <2>4 DEF ArrayInv, Replaced
    <3> QED
      BY <3>1, <2>2, ExceptLength
  <2>6. Registered
    BY <2>1 DEF StartInv, Registered
  <2>7. /\ Genuine(e) /\ e.src = devices[c].src /\ e.props = devices[c].props
        /\ e.twins = Bound(e.props)
    <3>1. Genuine(devices[c])
      BY <2>2 DEF DevicesInv
    <3> QED
      BY <3>1, <2>4, <2>6, GenuineEntry, RebuildBinds
  <2>8. ArrayInv'
    BY <2>1, <2>2, <2>5 DEF ArrayInv
  <2>9. ListInv'
    BY <2>1, <2>6 DEF ListInv, Registered
  <2>10. DevicesInv'
    <3>1. \A i : Served(i)' <=> Served(i)
      BY <2>1 DEF Served
    <3>2. \A d : Genuine(d)' <=> Genuine(d)
      BY <2>1, <3>1 DEF Genuine
    <3>3. \A k \in 1 .. n : Genuine(devices'[k]) /\ devices'[k].src = devices[k].src
      BY <2>2, <2>5, <2>7 DEF DevicesInv
    <3>4. \A k \in 1 .. n : Genuine(devices[k])'
      BY <3>2, <3>3
    <3>5. \A j, k \in 1 .. n : j < k => devices'[j].src < devices'[k].src
      BY <2>2, <3>3 DEF DevicesInv
    <3>6. \A i \in 1 .. at - 1 :
            Served(i)' => \E k \in 1 .. n : devices'[k].src = i
      BY <2>2, <3>1, <3>3 DEF DevicesInv
    <3> QED
      BY <2>1, <2>5, <3>4, <3>5, <3>6 DEF DevicesInv
  <2>11. StartInv'
    <3>1. ASSUME NEW k \in 1 .. n, k < startAt'
          PROVE  devices'[k].twins = Bound(devices'[k].props)
      <4>1. CASE k = c
        BY <4>1, <2>5, <2>7
      <4>2. CASE k # c
        <5>1. k < startAt
          BY <4>2, <3>1, <2>1, <2>3
        <5>2. devices'[k] = devices[k]
          BY <4>2, <2>5
        <5> QED
          BY <5>1, <5>2, <2>2 DEF StartInv
      <4> QED
        BY <4>1, <4>2
    <3>2. startAt' \in 1 .. n + 1
      BY <2>1, <2>3
    <3> QED
      BY <2>1, <2>5, <3>1, <3>2 DEF StartInv
  <2>12. ServerInv'
    BY <2>1, <2>2, <2>5, <1>0, ServersStable
  <2> QED
    BY <2>8, <2>9, <2>10, <2>11, <2>12
<1> QED
  BY <1>1, <1>2 DEF StartStep

-----------------------------------------------------------------------------
(* The servers.                                                            *)

(* The first device of a name in a list of devices.                        *)
FirstNamed(s, n) == SelectInSeq(s, LAMBDA d : d.name = n)

LEMMA FirstNamedIsFirst ==
  ASSUME NEW s, IsList(s), NEW n, NEW k, k = FirstNamed(s, n)
  PROVE  /\ k \in 0 .. Len(s)
         /\ k = 0 => \A j \in 1 .. Len(s) : s[j].name # n
         /\ k # 0 => s[k].name = n /\ \A j \in 1 .. k - 1 : s[j].name # n
<1> DEFINE I == {j \in 1 .. Len(s) : s[j].name = n}
<1>0. Len(s) \in Nat
  BY ListShape
<1>1. k = IF I # {} THEN Min(I) ELSE 0
  BY DEF FirstNamed, SelectInSeq
<1>2. CASE I = {}
  BY <1>0, <1>1, <1>2
<1>3. CASE I # {}
  <2>1. k \in I /\ \A j \in I : k <= j
    BY <1>0, <1>1, <1>3, MinIsLeast
  <2>2. \A j \in 1 .. k - 1 : j \in 1 .. Len(s) /\ ~(k <= j)
    BY <2>1, <1>0
  <2>3. \A j \in 1 .. k - 1 : s[j].name # n
    BY <2>1, <2>2
  <2>4. k \in 0 .. Len(s) /\ k # 0 /\ s[k].name = n
    BY <2>1, <1>0
  <2> QED
    BY <2>3, <2>4
<1> QED
  BY <1>2, <1>3

(* A lookup gives an index of the array or 0.                              *)
LEMMA GetInRange ==
  ASSUME ArrayInv, NEW id
  PROVE  device_manager_get(id) \in 0 .. Len(devices)
<1>1. \A n : Named(n) \in 0 .. Len(devices)
  <2>1. \A n : Named(n) = FirstNamed(devices, n)
    BY DEF Named, FirstNamed
  <2> QED
    BY <2>1, FirstNamedIsFirst DEF ArrayInv
<1>2. 0 \in 0 .. Len(devices)
  BY ListShape DEF ArrayInv
<1> QED
  BY <1>1, <1>2 DEF device_manager_get

(* The steps of the servers leave the devices and main alone.              *)
LEMMA ServerFrame ==
  ASSUME RegistryInv, UNCHANGED <<mainVars, managerVars, startVars>>
  PROVE  ArrayInv' /\ ListInv' /\ DevicesInv' /\ StartInv'
<1>1. UNCHANGED <<pc, reply, deviceList, modelList, at, lost, devices,
                  capacity, allocated, start, startAt>>
  BY DEF mainVars, managerVars, startVars
<1>2. ArrayInv' /\ StartInv'
  BY <1>1 DEF RegistryInv, ArrayInv, StartInv
<1>3. ListInv' /\ DevicesInv'
  BY <1>1, ListsStable DEF RegistryInv
<1> QED
  BY <1>2, <1>3

(* A server that did not move still knows what it knew.                    *)
LEMMA HttpStable ==
  ASSUME HttpInv, UNCHANGED <<http, mainVars, managerVars, startVars>>
  PROVE  HttpInv'
BY DEF HttpInv, mainVars, managerVars, startVars

LEMMA RpcStable ==
  ASSUME RpcInv, UNCHANGED <<rpc, mainVars, managerVars, startVars>>
  PROVE  RpcInv'
BY DEF RpcInv, mainVars, managerVars, startVars

(* Every step of the HTTP server keeps the invariant.                      *)
LEMMA HttpStepInv ==
  ASSUME RegistryInv, HttpStep
  PROVE  RegistryInv'
<1>1. UNCHANGED <<mainVars, managerVars, startVars, rpc, sent>>
  BY DEF HttpStep, HttpLookup, HttpReads, HttpWrites, HttpListsMethods,
         HttpFindsDevice, HttpFindsModel
<1>2. UNCHANGED <<devices, pc, start>>
  BY <1>1 DEF mainVars, managerVars, startVars
<1>3. ASSUME http' = Idle PROVE HttpInv'
  BY <1>3 DEF HttpInv
<1>4. ASSUME HttpLookup PROVE HttpInv'
  <2>1. PICK d : d = device_manager_get(get_resource_id(
                       Field(http.url.segs[1]), Field(http.url.segs[2])))
    OBVIOUS
  <2>2. d \in 0 .. Len(devices) /\ Len(devices) \in Nat
    BY <2>1, GetInRange, ListShape DEF RegistryInv, ArrayInv
  <2>3. http.pc = "lookup" /\ http' = [http EXCEPT !.pc = "use", !.dev = d]
    BY <1>4, <2>1 DEF HttpLookup
  <2>4. http # Idle
    BY <2>3 DEF Idle
  <2>5. http \in HttpRequests /\ HttpInv
    BY <2>4 DEF RegistryInv, ServerInv, HttpInv
  <2>6. http' \in HttpRequests
    <3>1. [http EXCEPT !.pc = "use"] \in HttpRequests
      BY <2>5 DEF HttpRequests
    <3>2. http' = [[http EXCEPT !.pc = "use"] EXCEPT !.dev = d] /\ d \in Nat
      BY <2>2, <2>3, <2>5 DEF HttpRequests
    <3> QED
      BY <3>1, <3>2 DEF HttpRequests
  <2>7. /\ http'.url = http.url /\ http'.to = http.to /\ http'.pc = "use"
        /\ http'.early = http.early /\ http'.dev = d
    BY <2>3, <2>5 DEF HttpRequests
  <2>8. http'.to = Handler(http'.url) /\ (~http'.early => start = "done") /\ pc = "running"
    BY <2>4, <2>5, <2>7 DEF HttpInv
  <2> QED
    BY <2>2, <2>6, <2>7, <2>8, <1>2 DEF HttpInv
<1>5. ASSUME http' = [http EXCEPT !.pc = "model"], http.pc = "use", http.to = "model"
      PROVE  HttpInv'
  <2>1. http # Idle
    BY <1>5 DEF Idle
  <2> QED
    BY <2>1, <1>2, <1>5 DEF RegistryInv, ServerInv, HttpInv, HttpRequests
<1>6. HttpInv'
  BY <1>3, <1>4, <1>5 DEF HttpStep, HttpReads, HttpWrites, HttpListsMethods,
         HttpFindsDevice, HttpFindsModel, Answers
<1> QED
  BY <1>1, <1>6, ServerFrame, RpcStable DEF RegistryInv, ServerInv

(* Every step of an UpdateDevice call keeps the invariant.                 *)
LEMMA RpcStepInv ==
  ASSUME RegistryInv, RpcStep
  PROVE  RegistryInv'
<1>1. UNCHANGED <<mainVars, managerVars, startVars, http, sent>>
  BY DEF RpcStep, RpcFirst, RpcSecond, RpcDone
<1>2. UNCHANGED devices
  BY <1>1 DEF managerVars
<1>3. ASSUME RpcFirst \/ RpcSecond PROVE RpcInv'
  <2>1. rpc.pc \in {"first", "second"}
    BY <1>3 DEF RpcFirst, RpcSecond
  <2>2. rpc \in [pc : {"first", "second"}, target : Targets]
    BY <2>1 DEF RegistryInv, ServerInv, RpcInv, Idle
  <2>3. \/ rpc' = [rpc EXCEPT !.pc = "second"]
        \/ \E id : rpc' = [pc |-> "told", target |-> rpc.target,
                           dev |-> device_manager_get(id)]
    BY <1>3 DEF RpcFirst, RpcSecond
  <2>4. ASSUME rpc' = [rpc EXCEPT !.pc = "second"] PROVE RpcInv'
    BY <2>2, <2>4 DEF RpcInv
  <2>5. ASSUME NEW id, rpc' = [pc |-> "told", target |-> rpc.target,
                               dev |-> device_manager_get(id)]
        PROVE  RpcInv'
    BY <2>2, <2>5, <1>2, GetInRange DEF RpcInv, RegistryInv
  <2> QED
    BY <2>3, <2>4, <2>5
<1>4. ASSUME RpcDone PROVE RpcInv'
  BY <1>4 DEF RpcDone, RpcInv
<1>5. RpcInv'
  BY <1>3, <1>4 DEF RpcStep
<1> QED
  BY <1>1, <1>5, ServerFrame, HttpStable DEF RegistryInv, ServerInv

(* Requests arrive in their first state.                                   *)
LEMMA ArrivalInv ==
  ASSUME RegistryInv,
         (\E u \in Urls : HttpArrives(u)) \/ (\E t \in Targets : RpcArrives(t))
  PROVE  RegistryInv'
<1>1. CASE \E u \in Urls : HttpArrives(u)
  <2>1. PICK u \in Urls : HttpArrives(u)
    BY <1>1
  <2>2. /\ UNCHANGED <<mainVars, managerVars, startVars, rpc>>
        /\ pc = "running" /\ sent' = sent + 1 /\ sent < MaxRequests
    BY <2>1 DEF HttpArrives
  <2>3. UNCHANGED <<pc, start, devices>>
    BY <2>2 DEF mainVars, managerVars, startVars
  <2>4. \/ http' = Idle
        \/ /\ Handler(u) \in NeedsDevice
           /\ http' = [pc |-> "lookup", url |-> u, to |-> Handler(u),
                       early |-> start # "done", dev |-> 0]
    BY <2>1 DEF HttpArrives, Answers
  <2>5. HttpInv'
    <3>1. CASE http' = Idle
      BY <3>1 DEF HttpInv
    <3>2. CASE /\ Handler(u) \in NeedsDevice
               /\ http' = [pc |-> "lookup", url |-> u, to |-> Handler(u),
                           early |-> start # "done", dev |-> 0]
      <4>1. Len(devices) \in Nat
        BY ListShape DEF RegistryInv, ArrayInv
      <4>2. PICK b \in BOOLEAN : b = (start # "done")
        OBVIOUS
      <4>3. http' = [pc |-> "lookup", url |-> u, to |-> Handler(u),
                     early |-> b, dev |-> 0]
        BY <3>2, <4>2, Zenon
      <4>4. http' \in HttpRequests
        BY <3>2, <4>3 DEF HttpRequests
      <4>5. ~http'.early => start = "done"
        BY <4>2, <4>3
      <4>6. http'.to = Handler(http'.url) /\ http'.dev = 0 /\ http'.pc = "lookup"
        BY <4>3, Zenon
      <4> QED
        BY <4>1, <4>4, <4>5, <4>6, <2>2, <2>3 DEF HttpInv
    <3> QED
      BY <3>1, <3>2, <2>4
  <2>6. sent' \in 0 .. MaxRequests
    BY <2>2, RegistryAssumption DEF RegistryInv, ServerInv
  <2> QED
    BY <2>2, <2>5, <2>6, ServerFrame, RpcStable DEF RegistryInv, ServerInv
<1>2. CASE \E t \in Targets : RpcArrives(t)
  <2>1. PICK t \in Targets : RpcArrives(t)
    BY <1>2
  <2>2. /\ UNCHANGED <<mainVars, managerVars, startVars, http>>
        /\ sent' = sent + 1 /\ sent < MaxRequests
        /\ rpc' = [pc |-> "first", target |-> t]
    BY <2>1 DEF RpcArrives
  <2>3. RpcInv'
    BY <2>2 DEF RpcInv
  <2>4. sent' \in 0 .. MaxRequests
    BY <2>2, RegistryAssumption DEF RegistryInv, ServerInv
  <2> QED
    BY <2>2, <2>3, <2>4, ServerFrame, HttpStable DEF RegistryInv, ServerInv
<1> QED
  BY <1>1, <1>2

(* Every step keeps the invariant.                                         *)
LEMMA RegistryStep == RegistryInv /\ [Next]_vars => RegistryInv'
<1> SUFFICES ASSUME RegistryInv, [Next]_vars PROVE RegistryInv'
  OBVIOUS
<1>1. CASE Terminated \/ UNCHANGED vars
  <2>1. UNCHANGED <<mainVars, managerVars, startVars, http, rpc, sent>>
    BY <1>1 DEF Terminated, vars, serverVars
  <2> QED
    BY <2>1, ServerFrame, HttpStable, RpcStable DEF RegistryInv, ServerInv
<1> QED
  BY <1>1, MainInv, StartStepInv, HttpStepInv, RpcStepInv, ArrivalInv DEF Next

LEMMA RegistryInvariant == Spec => []RegistryInv
BY RegistryInit, RegistryStep, PTL DEF Spec

(* Types, and every index stays within the array it is used on: main's     *)
(* loop, the start thread's, and the devices that HTTP and gRPC requests   *)
(* keep after unlocking managerMutex.                                      *)
THEOREM TypeCorrect == Spec => []TypeOK
<1>1. RegistryInv => TypeOK
  <2> SUFFICES ASSUME RegistryInv PROVE TypeOK
    OBVIOUS
  <2> USE DEF RegistryInv
  <2>1. /\ pc \in {"register", "init", "running", "exit"}
        /\ reply \in Replies \cup {[devices |-> <<>>, models |-> <<>>]}
        /\ Len(deviceList) \in {0, Len(reply.devices)}
        /\ at \in 1 .. Len(deviceList) + 1
    <3>1. CASE Registered
      BY <3>1 DEF ListInv
    <3>2. CASE ~Registered
      BY <3>2, EmptyIsList DEF ListInv
    <3> QED
      BY <3>1, <3>2 DEF ListInv
  <2>2. ASSUME NEW k \in DOMAIN devices
        PROVE  devices[k].src \in DOMAIN reply.devices
    <3>1. DOMAIN devices = 1 .. Len(devices)
      BY ListShape DEF ArrayInv
    <3>2. Registered
      BY <3>1, EmptyIsList DEF ListInv
    <3> QED
      BY <3>1, <3>2, GenuineEntry DEF DevicesInv
  <2>3. http # Idle => http.url \in Urls /\ http.dev \in 0 .. Len(devices)
    BY DEF ServerInv, HttpInv, HttpRequests
  <2>4. rpc # Idle => rpc.target \in Targets
    BY DEF ServerInv, RpcInv
  <2> QED
    BY <2>1, <2>2, <2>3, <2>4 DEF TypeOK, ArrayInv, StartInv, ServerInv
<1> QED
  BY <1>1, RegistryInvariant, PTL

(* For every reply, however many devices it has: as long as no realloc has *)
(* failed, device_manager_add writes inside the array.                     *)
THEOREM ArrayFits == Spec => []SlotsAllocated
<1>1. RegistryInv => SlotsAllocated
  BY DEF RegistryInv, ArrayInv, SlotsAllocated
<1> QED
  BY <1>1, RegistryInvariant, PTL
=============================================================================
