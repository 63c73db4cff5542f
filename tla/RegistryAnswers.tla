--------------------------- MODULE RegistryAnswers ---------------------------
(***************************************************************************)
(* For every registration reply, every request and every failure, as long  *)
(* as device names have no separators in them: the answers of the HTTP     *)
(* server are what EdgeCore registered, and the device manager implements  *)
(* the directory.                                                          *)
(***************************************************************************)
EXTENDS RegistryProofs

(* A name that no part of the code takes apart.                            *)
Plain(n) == n # <<>> /\ \A k \in 1 .. Len(n) : n[k] \notin {".", "/"}

(* Device names are plain, in the reply and in the URLs that look a device *)
(* up. Without this a lookup may end at another device (run                *)
(* registry_names).                                                        *)
PlainNames ==
  /\ \A r \in Replies : \A i \in DOMAIN r.devices : Plain(r.devices[i].name)
  /\ \A u \in Urls : Handler(u) \in NeedsDevice => Plain(u.segs[2])

(* So are those in UpdateDevice requests, whose namespaces have no dots.   *)
PlainCalls ==
  \A t \in Targets : Plain(t.name) /\ \A k \in 1 .. Len(t.ns) : t.ns[k] # "."

(* No device name in a URL is too long for router_callback's buffers.      *)
WholeNames ==
  \A u \in Urls : Handler(u) \in NeedsDevice => u.segs[2] \notin Overlong

-----------------------------------------------------------------------------
(* Identifiers.                                                            *)

(* The last index at which a list has the element x, or 0.                 *)
LastOf(s, x) == SelectLastInSeq(s, LAMBDA y : y = x)

LEMMA LastOfIsLast ==
  ASSUME NEW s, IsList(s), NEW x, NEW k, k = LastOf(s, x)
  PROVE  /\ k \in 0 .. Len(s)
         /\ k = 0 => \A j \in 1 .. Len(s) : s[j] # x
         /\ k # 0 => s[k] = x /\ \A j \in 1 .. Len(s) : s[j] = x => j <= k
<1> DEFINE I == {j \in 1 .. Len(s) : s[j] = x}
<1>0. Len(s) \in Nat
  BY ListShape
<1>1. k = IF I # {} THEN Max(I) ELSE 0
  BY DEF LastOf, SelectLastInSeq
<1>2. CASE I = {}
  BY <1>0, <1>1, <1>2
<1>3. CASE I # {}
  <2>1. k \in I /\ \A j \in I : j <= k
    BY <1>0, <1>1, <1>3, MaxIsGreatest
  <2> QED
    BY <2>1, <1>0
<1> QED
  BY <1>2, <1>3

(* A list is a sequence over any set that has its elements.                *)
LEMMA ListIn ==
  ASSUME NEW s, IsList(s), NEW S, \A k \in 1 .. Len(s) : s[k] \in S
  PROVE  s \in Seq(S)
<1>1. Len(s) \in Nat /\ s = [k \in 1 .. Len(s) |-> s[k]]
  BY ListShape
<1>2. s \in [1 .. Len(s) -> S]
  BY <1>1, Zenon
<1> QED
  BY <1>1, <1>2

(* Namespace, separator and name in a row.                                 *)
Joined(ns, sep, n) == ns \o <<sep>> \o n

LEMMA PairShape ==
  ASSUME NEW ns, IsList(ns), NEW n, IsList(n), NEW sep,
         NEW id, id = Joined(ns, sep, n)
  PROVE  /\ IsList(id) /\ Len(id) = Len(ns) + 1 + Len(n)
         /\ Len(ns) \in Nat /\ Len(n) \in Nat
         /\ \A k \in 1 .. Len(ns) : id[k] = ns[k]
         /\ id[Len(ns) + 1] = sep
         /\ \A k \in 1 .. Len(n) : id[Len(ns) + 1 + k] = n[k]
         /\ SubSeq(id, Len(ns) + 2, Len(id)) = n
<1> DEFINE S == {ns[k] : k \in DOMAIN ns} \cup {n[k] : k \in DOMAIN n} \cup {sep}
<1>1. ns \in Seq(S) /\ n \in Seq(S) /\ sep \in S
  <2>1. (\A k \in 1 .. Len(ns) : ns[k] \in S) /\ (\A k \in 1 .. Len(n) : n[k] \in S)
    BY ListShape
  <2> HIDE DEF S
  <2>2. ns \in Seq(S) /\ n \in Seq(S)
    BY <2>1, ListIn
  <2> QED
    BY <2>2 DEF S
<1> HIDE DEF S
<1> DEFINE p == ns \o <<sep>>
<1>2. p \in Seq(S) /\ Len(p) = Len(ns) + 1 /\ p[Len(ns) + 1] = sep
      /\ \A k \in 1 .. Len(ns) : p[k] = ns[k]
  BY <1>1
<1>3. id = p \o n
  BY DEF Joined
<1> HIDE DEF p
<1>4. id \in Seq(S) /\ Len(id) = Len(p) + Len(n)
      /\ (\A k \in 1 .. Len(p) : id[k] = p[k])
      /\ (\A k \in 1 .. Len(n) : id[Len(p) + k] = n[k])
  <2>1. p \in Seq(S) /\ n \in Seq(S) /\ Len(p) \in Nat /\ Len(n) \in Nat
    BY <1>1, <1>2
  <2>2. id \in Seq(S) /\ Len(id) = Len(p) + Len(n)
    BY <2>1, <1>3
  <2>3. \A k \in 1 .. Len(p) : id[k] = p[k]
    BY <2>1, <1>3
  <2>4. ASSUME NEW k \in 1 .. Len(n) PROVE id[Len(p) + k] = n[k]
    <3>1. Len(p) + k \in 1 .. Len(p) + Len(n) /\ ~(Len(p) + k <= Len(p))
          /\ Len(p) + k - Len(p) = k
      BY <2>1
    <3> QED
      BY <2>1, <3>1, <1>3
  <2> QED
    BY <2>2, <2>3, <2>4
<1>5. Len(ns) \in Nat /\ Len(n) \in Nat
  BY <1>1
<1>6. SubSeq(id, Len(ns) + 2, Len(id)) = n
  <2> DEFINE t == SubSeq(id, Len(ns) + 2, Len(id))
  <2>1. t \in Seq(S) /\ Len(t) = Len(n)
    BY <1>2, <1>4, <1>5
  <2>2. \A k \in 1 .. Len(n) : t[k] = id[Len(ns) + 1 + k]
    BY <1>2, <1>4, <1>5
  <2> HIDE DEF t
  <2>3. \A k \in 1 .. Len(n) : t[k] = n[k]
    BY <2>2, <1>2, <1>4, <1>5
  <2>4. t = n
    BY <2>1, <2>3, <1>1
  <2> QED
    BY <2>4 DEF t
<1>7. IsList(id)
  BY <1>4, SeqIsList
<1> QED
  BY <1>2, <1>4, <1>5, <1>6, <1>7

(* What is cut from "namespace.name" or "namespace/name" is the name.      *)
LEMMA ShortIdOfPair ==
  ASSUME NEW ns, IsList(ns), NEW n, IsList(n), Plain(n),
         NEW sep \in {".", "/"},
         sep = "/" => \A k \in 1 .. Len(ns) : ns[k] # "."
  PROVE  ShortId(Joined(ns, sep, n)) = n
<1>1. PICK id : id = Joined(ns, sep, n)
  OBVIOUS
<1>2. /\ IsList(id) /\ Len(id) = Len(ns) + 1 + Len(n)
      /\ Len(ns) \in Nat /\ Len(n) \in Nat
      /\ \A k \in 1 .. Len(ns) : id[k] = ns[k]
      /\ id[Len(ns) + 1] = sep
      /\ \A k \in 1 .. Len(n) : id[Len(ns) + 1 + k] = n[k]
      /\ SubSeq(id, Len(ns) + 2, Len(id)) = n
  BY <1>1, PairShape
<1>3. ASSUME NEW j \in 1 .. Len(id), j > Len(ns) + 1
      PROVE  id[j] \notin {".", "/"}
  <2>1. j - (Len(ns) + 1) \in 1 .. Len(n) /\ j = Len(ns) + 1 + (j - (Len(ns) + 1))
    BY <1>2, <1>3
  <2> QED
    BY <2>1, <1>2 DEF Plain
<1>4. LastOf(id, sep) = Len(ns) + 1
  <2>1. Len(ns) + 1 \in 1 .. Len(id)
    BY <1>2
  <2>2. PICK k : k = LastOf(id, sep)
    OBVIOUS
  <2>0. IsList(id)
    BY <1>2
  <2>3. /\ k \in 0 .. Len(id)
        /\ k = 0 => \A j \in 1 .. Len(id) : id[j] # sep
        /\ k # 0 => id[k] = sep /\ \A j \in 1 .. Len(id) : id[j] = sep => j <= k
    BY <2>0, <2>2, LastOfIsLast
  <2>4. k # 0
    BY <2>3, <2>1, <1>2
  <2>5. k \in 1 .. Len(id) /\ Len(ns) + 1 <= k /\ id[k] = sep
    BY <2>3, <2>4, <2>1, <1>2
  <2>6. ~(k > Len(ns) + 1)
    BY <2>5, <1>3
  <2> QED
    BY <2>2, <2>5, <2>6, <1>2
<1>5. sep = "/" => LastOf(id, ".") = 0
  <2> SUFFICES ASSUME sep = "/", LastOf(id, ".") # 0 PROVE FALSE
    OBVIOUS
  <2>1. PICK k : k = LastOf(id, ".")
    OBVIOUS
  <2>2. k \in 1 .. Len(id) /\ id[k] = "."
    BY <2>1, <1>2, LastOfIsLast
  <2>3. k \in 1 .. Len(ns) \/ k = Len(ns) + 1 \/ k > Len(ns) + 1
    BY <2>2, <1>2
  <2> QED
    BY <2>2, <2>3, <1>2, <1>3
<1>6. ShortId(id) = LET dot == LastOf(id, ".")
                        slash == LastOf(id, "/")
                        s == IF dot # 0 THEN dot ELSE slash
                    IN  IF s = 0 THEN <<>> ELSE SubSeq(id, s + 1, Len(id))
  BY DEF ShortId, LastOf
<1>7. ShortId(id) = SubSeq(id, Len(ns) + 1 + 1, Len(id))
  <2>1. Len(ns) + 1 # 0
    BY <1>2
  <2> QED
    BY <2>1, <1>4, <1>5, <1>6
<1>8. Len(ns) + 1 + 1 = Len(ns) + 2
  BY <1>2
<1> QED
  BY <1>1, <1>2, <1>7, <1>8

(* A plain name has no shorter form.                                       *)
LEMMA ShortIdOfName ==
  ASSUME NEW n, IsList(n), Plain(n)
  PROVE  ShortId(n) = <<>>
<1>1. LastOf(n, ".") = 0 /\ LastOf(n, "/") = 0
  <2>1. ASSUME NEW x \in {".", "/"} PROVE LastOf(n, x) = 0
    <3>1. PICK k : k = LastOf(n, x)
      OBVIOUS
    <3>2. k # 0 => n[k] = x /\ k \in 1 .. Len(n)
      BY <3>1, LastOfIsLast, ListShape
    <3> QED
      BY <3>1, <3>2 DEF Plain
  <2> QED
    BY <2>1
<1>2. ShortId(n) = LET dot == LastOf(n, ".")
                       slash == LastOf(n, "/")
                       s == IF dot # 0 THEN dot ELSE slash
                   IN  IF s = 0 THEN <<>> ELSE SubSeq(n, s + 1, Len(n))
  BY DEF ShortId, LastOf
<1> QED
  BY <1>1, <1>2

-----------------------------------------------------------------------------
(* Lookups.                                                                *)

(* There are devices only after the registration.                          *)
LEMMA DevicesRegistered ==
  ASSUME RegistryInv, NEW k \in 1 .. Len(devices)
  PROVE  /\ Registered /\ Genuine(devices[k])
         /\ devices[k].src \in 1 .. Len(reply.devices)
         /\ reply \in Replies
<1>1. Registered
  BY EmptyIsList DEF RegistryInv, ListInv
<1>2. Genuine(devices[k])
  BY DEF RegistryInv, DevicesInv
<1>3. reply \in Replies
  BY <1>1 DEF RegistryInv, ListInv
<1> QED
  BY <1>1, <1>2, <1>3, GenuineEntry DEF RegistryInv

(* The names of the devices are plain.                                     *)
LEMMA DeviceNamesPlain ==
  ASSUME RegistryInv, PlainNames, NEW k \in 1 .. Len(devices)
  PROVE  Plain(devices[k].name)
<1>1. /\ Registered /\ Genuine(devices[k]) /\ reply \in Replies
  BY DevicesRegistered
<1>2. /\ devices[k].src \in DOMAIN reply.devices
      /\ devices[k].name = reply.devices[devices[k].src].name
  BY <1>1, GenuineEntry DEF RegistryInv
<1> QED
  BY <1>1, <1>2 DEF PlainNames

(* Named finds the first device of the name.                               *)
LEMMA NamedIsFirst ==
  ASSUME RegistryInv, NEW n, NEW k, k = Named(n)
  PROVE  /\ k \in 0 .. Len(devices)
         /\ k = 0 => \A j \in 1 .. Len(devices) : devices[j].name # n
         /\ k # 0 => /\ devices[k].name = n
                     /\ \A j \in 1 .. k - 1 : devices[j].name # n
<1>1. k = FirstNamed(devices, n) /\ IsList(devices)
  BY DEF Named, FirstNamed, RegistryInv, ArrayInv
<1> QED
  BY <1>1, FirstNamedIsFirst

(* No device is found under an identifier with a separator in it.          *)
LEMMA SeparatedIsNoName ==
  ASSUME RegistryInv, PlainNames, NEW id, NEW i \in 1 .. Len(id), id[i] \in {".", "/"}
  PROVE  Named(id) = 0
<1>1. PICK k : k = Named(id)
  OBVIOUS
<1>2. k \in 0 .. Len(devices) /\ (k # 0 => devices[k].name = id)
  BY <1>1, NamedIsFirst
<1>3. k # 0 => k \in 1 .. Len(devices)
  BY <1>2, ListShape DEF RegistryInv, ArrayInv
<1>4. k # 0 => Plain(id)
  BY <1>2, <1>3, DeviceNamesPlain
<1> QED
  BY <1>1, <1>4 DEF Plain

(* device_manager_get finds a device by its name, ...                      *)
LEMMA GetByName ==
  ASSUME NEW n, IsList(n), Plain(n)
  PROVE  device_manager_get(n) = Named(n)
BY ShortIdOfName DEF device_manager_get

(* ... and by the name behind a namespace.                                 *)
LEMMA GetByPair ==
  ASSUME RegistryInv, PlainNames, NEW ns, IsList(ns), NEW n, IsList(n), Plain(n),
         NEW sep \in {".", "/"},
         sep = "/" => \A k \in 1 .. Len(ns) : ns[k] # "."
  PROVE  device_manager_get(Joined(ns, sep, n)) = Named(n)
<1>1. PICK id : id = Joined(ns, sep, n)
  OBVIOUS
<1>2. /\ Len(id) = Len(ns) + 1 + Len(n) /\ Len(ns) \in Nat /\ Len(n) \in Nat
      /\ id[Len(ns) + 1] = sep
  BY <1>1, PairShape
<1>3. Len(ns) + 1 \in 1 .. Len(id)
  BY <1>2
<1>4. Named(id) = 0
  BY <1>2, <1>3, SeparatedIsNoName
<1>5. ShortId(id) = n
  BY <1>1, ShortIdOfPair
<1> QED
  BY <1>1, <1>4, <1>5 DEF device_manager_get, Plain

-----------------------------------------------------------------------------
(* URLs.                                                                   *)

Most(segs, n) == IF n < Len(segs) THEN n ELSE Len(segs)

(* sscanf has a well-defined number of fields to convert.                  *)
LEMMA ScannedStops ==
  ASSUME NEW segs, IsList(segs), NEW n \in Nat, NEW m, m = Most(segs, n),
         NEW k, k = Scanned(segs, n)
  PROVE  /\ k \in 0 .. m
         /\ \A j \in 1 .. k : segs[j] # <<>> /\ (j < k => segs[j] \notin Overlong)
         /\ k = m \/ segs[k + 1] = <<>> \/ (k > 0 /\ segs[k] \in Overlong)
<1> DEFINE Ends(i) == i = m \/ segs[i + 1] = <<>> \/ (i > 0 /\ segs[i] \in Overlong)
           Whole(i) == \A j \in 1 .. i : segs[j] # <<>> /\ (j < i => segs[j] \notin Overlong)
           J == {e \in 0 .. m : Ends(e)}
           I == {e + 1 : e \in J}
<1>0. Len(segs) \in Nat /\ m \in Nat
  BY ListShape DEF Most
<1>1. m \in J
  BY <1>0
<1>2. PICK i \in I : \A j \in I : i <= j
  <2>1. I \in SUBSET (1 .. m + 1) /\ I # {} /\ m + 1 \in Nat
    <3>1. J \subseteq 0 .. m
      OBVIOUS
    <3> HIDE DEF J
    <3> QED
      BY <1>0, <1>1, <3>1
  <2> HIDE DEF I
  <2> QED
    BY <2>1, LeastExists
<1>3. PICK f \in J : i = f + 1
  OBVIOUS
<1>4. ASSUME NEW e \in J PROVE f <= e
  <2>1. f + 1 <= e + 1
    BY <1>2, <1>3
  <2>2. f \in Nat /\ e \in Nat
    BY <1>0
  <2> QED
    BY <2>1, <2>2
<1>5. f \in 0 .. m /\ Ends(f)
  BY <1>0
<1>6. Whole(f)
  <2> SUFFICES ASSUME NEW j \in 1 .. f
               PROVE  segs[j] # <<>> /\ (j < f => segs[j] \notin Overlong)
    OBVIOUS
  <2>1. j \in 0 .. m /\ j - 1 \in 0 .. m /\ j - 1 + 1 = j /\ ~(f <= j - 1) /\ j > 0
    BY <1>0, <1>5
  <2>2. ~Ends(j - 1)
    <3> HIDE DEF Ends
    <3> QED
      BY <1>4, <2>1
  <2>3. j < f => ~Ends(j)
    <3>1. j < f => ~(f <= j)
      BY <1>0, <1>5
    <3> HIDE DEF Ends
    <3> QED
      BY <1>4, <2>1, <3>1
  <2> QED
    BY <2>1, <2>2, <2>3
<1>7. Scanned(segs, n) = CHOOSE x \in 0 .. m : Whole(x) /\ Ends(x)
  BY DEF Scanned, Most
<1> HIDE DEF Whole, Ends
<1>8. k \in 0 .. m /\ Whole(k) /\ Ends(k)
  BY <1>5, <1>6, <1>7
<1> QED
  BY <1>8 DEF Whole, Ends

(* Converting all n fields means there are that many, ...                  *)
LEMMA ScannedAll ==
  ASSUME NEW segs, IsList(segs), NEW n \in Nat, Scanned(segs, n) = n
  PROVE  /\ n <= Len(segs)
         /\ \A j \in 1 .. n : segs[j] # <<>> /\ (j < n => segs[j] \notin Overlong)
<1>1. PICK m : m = Most(segs, n)
  OBVIOUS
<1>2. /\ n \in 0 .. m
      /\ \A j \in 1 .. n : segs[j] # <<>> /\ (j < n => segs[j] \notin Overlong)
  BY <1>1, ScannedStops
<1> QED
  BY <1>1, <1>2, ListShape DEF Most

(* ... and as many as there are of ordinary fields are converted.          *)
LEMMA ScannedWhole ==
  ASSUME NEW segs, IsList(segs), NEW n \in Nat,
         \A j \in 1 .. Len(segs) : segs[j] \notin Overlong \cup {<<>>}
  PROVE  Scanned(segs, n) = Most(segs, n)
<1>1. PICK m : m = Most(segs, n)
  OBVIOUS
<1>2. PICK k : k = Scanned(segs, n)
  OBVIOUS
<1>3. /\ k \in 0 .. m
      /\ k = m \/ segs[k + 1] = <<>> \/ (k > 0 /\ segs[k] \in Overlong)
  BY <1>1, <1>2, ScannedStops
<1>4. Len(segs) \in Nat /\ m \in Nat /\ m <= Len(segs)
  BY <1>1, ListShape DEF Most
<1>5. k # m => k + 1 \in 1 .. Len(segs)
  BY <1>3, <1>4
<1>6. k > 0 => k \in 1 .. Len(segs)
  BY <1>3, <1>4
<1>7. k = m
  BY <1>3, <1>5, <1>6
<1> QED
  BY <1>1, <1>2, <1>7

(* A URL that needs a device has a whole namespace and a device name.      *)
LEMMA DeviceUrl ==
  ASSUME NEW u \in Urls, Handler(u) \in NeedsDevice
  PROVE  /\ 2 <= Len(u.segs) /\ IsList(u.segs[1]) /\ IsList(u.segs[2])
         /\ u.segs[1] \notin Overlong
         /\ Handler(u) \in {"read", "write"} => u.segs[2] \notin Overlong
<1>0. IsList(u.segs) /\ Len(u.segs) \in Nat /\ DOMAIN u.segs = 1 .. Len(u.segs)
  BY RequestAssumption, ListShape
<1>1. \/ Handler(u) = "read" /\ Scanned(u.segs, 3) = 3
      \/ Handler(u) = "write" /\ Scanned(u.segs, 5) = 5
      \/ Handler(u) \in {"methods", "model"} /\ Scanned(u.segs, 2) = 2
  BY DEF Handler, NeedsDevice
<1>2. ASSUME NEW n \in {2, 3, 5}, Scanned(u.segs, n) = n
      PROVE  /\ 2 <= Len(u.segs) /\ u.segs[1] \notin Overlong
             /\ n # 2 => u.segs[2] \notin Overlong
  <2>1. /\ n <= Len(u.segs)
        /\ \A j \in 1 .. n : j < n => u.segs[j] \notin Overlong
    BY <1>0, <1>2, ScannedAll
  <2> QED
    BY <1>0, <2>1
<1>3. 2 <= Len(u.segs) /\ u.segs[1] \notin Overlong
  BY <1>1, <1>2
<1>4. Handler(u) \in {"read", "write"} => u.segs[2] \notin Overlong
  BY <1>1, <1>2
<1>5. IsList(u.segs[1]) /\ IsList(u.segs[2])
  BY <1>0, <1>3, RequestAssumption
<1> QED
  BY <1>3, <1>4, <1>5

(* The lookup of an HTTP request asks for the name in its URL.             *)
LEMMA LookupByUrl ==
  ASSUME RegistryInv, PlainNames, NEW u \in Urls, Handler(u) \in NeedsDevice,
         u.segs[2] \notin Overlong
  PROVE  device_manager_get(get_resource_id(Field(u.segs[1]), Field(u.segs[2])))
           = Named(u.segs[2])
<1>1. /\ IsList(u.segs[1]) /\ IsList(u.segs[2]) /\ u.segs[1] \notin Overlong
  BY DeviceUrl
<1>2. Plain(u.segs[2])
  BY DEF PlainNames
<1>3. get_resource_id(Field(u.segs[1]), Field(u.segs[2]))
        = Joined(u.segs[1], ".", u.segs[2])
  BY <1>1 DEF get_resource_id, Field, Joined
<1>4. device_manager_get(Joined(u.segs[1], ".", u.segs[2])) = Named(u.segs[2])
  <2>1. "." \in {".", "/"} /\ "." # "/"
    OBVIOUS
  <2> QED
    BY <1>1, <1>2, <2>1, GetByPair
<1> QED
  BY <1>3, <1>4

(* Complete URLs select their handler.                                     *)
Complete(u, route, n) ==
  /\ u.get /\ u.route = route /\ Len(u.segs) = n
  /\ \A j \in 1 .. n : u.segs[j] \notin Overlong \cup {<<>>}

LEMMA HandlerOfUrl ==
  ASSUME NEW u \in Urls
  PROVE  /\ Complete(u, "device", 3) => Handler(u) = "read"
         /\ Complete(u, "devicemethod", 5) => Handler(u) = "write"
         /\ Complete(u, "devicemethod", 2) => Handler(u) = "methods"
<1>0. IsList(u.segs) /\ u.get \in BOOLEAN
  BY RequestAssumption
<1>1. ASSUME NEW n \in {2, 3, 5}, NEW r, Complete(u, r, n)
      PROVE  \A i \in {2, 3, 5} : Scanned(u.segs, i) = IF i < n THEN i ELSE n
  <2> SUFFICES ASSUME NEW i \in {2, 3, 5}
               PROVE  Scanned(u.segs, i) = IF i < n THEN i ELSE n
    OBVIOUS
  <2>1. Scanned(u.segs, i) = Most(u.segs, i)
    BY <1>0, <1>1, ScannedWhole DEF Complete
  <2> QED
    BY <2>1, <1>1 DEF Most, Complete
<1>2. Complete(u, "device", 3) => Handler(u) = "read"
  <2> SUFFICES ASSUME Complete(u, "device", 3) PROVE Handler(u) = "read"
    OBVIOUS
  <2>1. Scanned(u.segs, 3) = 3
    BY <1>1
  <2>2. u.get /\ u.route = "device"
    BY DEF Complete
  <2> QED
    BY <2>1, <2>2 DEF Handler
<1>3. Complete(u, "devicemethod", 5) => Handler(u) = "write"
  <2> SUFFICES ASSUME Complete(u, "devicemethod", 5) PROVE Handler(u) = "write"
    OBVIOUS
  <2>1. Scanned(u.segs, 5) = 5
    BY <1>1
  <2>2. u.get /\ u.route = "devicemethod"
    BY DEF Complete
  <2> QED
    BY <2>1, <2>2 DEF Handler
<1>4. Complete(u, "devicemethod", 2) => Handler(u) = "methods"
  <2> SUFFICES ASSUME Complete(u, "devicemethod", 2) PROVE Handler(u) = "methods"
    OBVIOUS
  <2>1. Scanned(u.segs, 5) = 2 /\ Scanned(u.segs, 2) = 2
    BY <1>1
  <2>2. u.get /\ u.route = "devicemethod"
    BY DEF Complete
  <2> QED
    BY <2>1, <2>2 DEF Handler
<1> QED
  BY <1>2, <1>3, <1>4

-----------------------------------------------------------------------------
(* The names of the devices, from one step to the next.                    *)

LEMMA FirstUnique ==
  ASSUME NEW s, IsList(s), NEW n, NEW k \in 1 .. Len(s), s[k].name = n,
         \A j \in 1 .. k - 1 : s[j].name # n
  PROVE  FirstNamed(s, n) = k
<1>1. PICK f : f = FirstNamed(s, n)
  OBVIOUS
<1>2. /\ f \in 0 .. Len(s)
      /\ f = 0 => \A j \in 1 .. Len(s) : s[j].name # n
      /\ f # 0 => s[f].name = n /\ \A j \in 1 .. f - 1 : s[j].name # n
  BY <1>1, FirstNamedIsFirst
<1>3. Len(s) \in Nat
  BY ListShape
<1>4. f # 0
  BY <1>2
<1>5. ~(f < k) /\ ~(k < f)
  <2>1. f < k => f \in 1 .. k - 1
    BY <1>2, <1>3, <1>4
  <2>2. k < f => k \in 1 .. f - 1
    BY <1>2, <1>3, <1>4
  <2> QED
    BY <2>1, <2>2, <1>2, <1>4
<1> QED
  BY <1>1, <1>2, <1>3, <1>5

(* A list of devices with the same names and origins.                      *)
SameNames(s, t) ==
  /\ IsList(s) /\ IsList(t) /\ Len(t) = Len(s)
  /\ \A k \in 1 .. Len(s) : t[k].name = s[k].name /\ t[k].src = s[k].src

LEMMA SameFirst ==
  ASSUME NEW s, NEW t, SameNames(s, t), NEW n
  PROVE  FirstNamed(t, n) = FirstNamed(s, n)
<1>1. {j \in 1 .. Len(t) : t[j].name = n} = {j \in 1 .. Len(s) : s[j].name = n}
  BY DEF SameNames
<1> QED
  BY <1>1 DEF FirstNamed, SelectInSeq

(* A list of devices with one more behind it.                             *)
Grown(s, x, t) ==
  /\ IsList(s) /\ IsList(t) /\ Len(t) = Len(s) + 1
  /\ \A k \in 1 .. Len(s) : t[k] = s[k]
  /\ t[Len(s) + 1] = x

(* A device that is added never takes a name from another one.             *)
LEMMA FirstOfAppended ==
  ASSUME NEW s, NEW x, NEW t, Grown(s, x, t), NEW n
  PROVE  /\ FirstNamed(s, n) # 0 => FirstNamed(t, n) = FirstNamed(s, n)
         /\ FirstNamed(s, n) = 0 =>
              FirstNamed(t, n) = IF x.name = n THEN Len(s) + 1 ELSE 0
<1>0. IsList(s) /\ IsList(t) /\ Len(s) \in Nat
  BY ListShape DEF Grown
<1>1. /\ Len(t) = Len(s) + 1
      /\ \A k \in 1 .. Len(s) : t[k] = s[k]
      /\ t[Len(s) + 1] = x
  BY DEF Grown
<1>2. PICK f : f = FirstNamed(s, n)
  OBVIOUS
<1>3. /\ f \in 0 .. Len(s)
      /\ f = 0 => \A j \in 1 .. Len(s) : s[j].name # n
      /\ f # 0 => s[f].name = n /\ \A j \in 1 .. f - 1 : s[j].name # n
  BY <1>0, <1>2, FirstNamedIsFirst
<1>4. CASE f # 0
  <2>1. f \in 1 .. Len(s) /\ f \in 1 .. Len(t)
    BY <1>0, <1>1, <1>3, <1>4
  <2>2. \A j \in 1 .. f - 1 : j \in 1 .. Len(s)
    BY <2>1, <1>0
  <2>3. t[f].name = n /\ \A j \in 1 .. f - 1 : t[j].name # n
    BY <2>1, <2>2, <1>1, <1>3, <1>4
  <2>4. FirstNamed(t, n) = f
    BY <2>1, <2>3, <1>0, <1>1, FirstUnique
  <2> QED
    BY <2>4, <1>2, <1>4
<1>5. CASE f = 0 /\ x.name = n
  <2>1. PICK k \in 1 .. Len(t) : k = Len(s) + 1 /\ k - 1 = Len(s)
    BY <1>0, <1>1
  <2>2. t[k].name = n /\ \A j \in 1 .. k - 1 : t[j].name # n
    BY <2>1, <1>1, <1>3, <1>5
  <2>3. FirstNamed(t, n) = k
    BY <2>2, <1>0, <1>1, FirstUnique
  <2> QED
    BY <2>1, <2>3, <1>2, <1>5
<1>6. CASE f = 0 /\ x.name # n
  <2>1. \A j \in 1 .. Len(t) : t[j].name # n
    <3>1. \A j \in 1 .. Len(t) : j \in 1 .. Len(s) \/ j = Len(s) + 1
      BY <1>0, <1>1
    <3> QED
      BY <3>1, <1>1, <1>3, <1>6
  <2>2. {j \in 1 .. Len(t) : t[j].name = n} = {}
    BY <2>1
  <2>3. FirstNamed(t, n) = 0
    BY <2>2 DEF FirstNamed, SelectInSeq
  <2> QED
    BY <2>3, <1>2, <1>6
<1> QED
  BY <1>4, <1>5, <1>6

(* Only InitAdds changes who is in the array.                              *)
LEMMA NamesKept ==
  ASSUME RegistryInv, [Next]_vars, ~InitAdds
  PROVE  SameNames(devices, devices')
<1>0. IsList(devices)
  BY DEF RegistryInv, ArrayInv
<1>1. CASE devices' = devices
  BY <1>0, <1>1 DEF SameNames
<1>2. CASE StartsDevice
  <2>1. PICK n \in Nat : n = Len(devices)
    BY <1>0, ListShape
  <2>2. PICK c \in 1 .. n : c = startAt
    BY <1>2, <2>1 DEF StartsDevice, RegistryInv, StartInv
  <2>3. PICK e : e = device_runtime_rebuild(devices[c])
    OBVIOUS
  <2>4. devices' = Replaced(devices, c, e)
    BY <1>2, <2>2, <2>3 DEF StartsDevice, Replaced
  <2>5. /\ IsList(devices') /\ Len(devices') = n
        /\ \A k \in 1 .. n : devices'[k] = IF k = c THEN e ELSE devices[k]
    BY <1>0, <2>1, <2>4, ExceptLength
  <2>6. e.src = devices[c].src /\ e.name = devices[c].name
    <3>1. Registered /\ Genuine(devices[c])
      BY <2>1, DevicesRegistered
    <3>2. IsList(devices[c].props)
      BY <3>1, GenuineEntry DEF RegistryInv
    <3> QED
      BY <2>3, <3>1, <3>2, RebuildBinds
  <2> QED
    BY <1>0, <2>1, <2>5, <2>6 DEF SameNames
<1>3. devices' = devices \/ StartsDevice
  <2>1. CASE MainStep
    BY <2>1 DEF MainStep, RegisterFails, Register, InitSkips, InitCreateFails,
           InitAddFails, InitDone, managerVars
  <2>2. CASE StartStep
    BY <2>2 DEF StartStep, StartAllLocks, StartAllUnlocks, managerVars
  <2>3. CASE HttpStep
    BY <2>3 DEF HttpStep, HttpLookup, HttpReads, HttpWrites, HttpListsMethods,
           HttpFindsDevice, HttpFindsModel, managerVars
  <2>4. CASE RpcStep
    BY <2>4 DEF RpcStep, RpcFirst, RpcSecond, RpcDone, managerVars
  <2>5. CASE (\E u \in Urls : HttpArrives(u)) \/ (\E t \in Targets : RpcArrives(t))
    BY <2>5 DEF HttpArrives, RpcArrives, managerVars
  <2>6. CASE Terminated \/ UNCHANGED vars
    BY <2>6 DEF Terminated, vars, managerVars
  <2> QED
    BY <2>1, <2>2, <2>3, <2>4, <2>5, <2>6 DEF Next
<1> QED
  BY <1>1, <1>2, <1>3

(* What InitAdds appends.                                                  *)
LEMMA AddedDevice ==
  ASSUME RegistryInv, InitAdds
  PROVE  \E x : /\ Grown(devices, x, devices') /\ x.src = at
                /\ at \in 1 .. Len(reply.devices) /\ reply \in Replies
                /\ x.name = reply.devices[at].name
<1>1. /\ pc = "init" /\ at <= Len(deviceList) /\ ModelOf(at) # 0
      /\ devices' = Append(devices, device_new(at))
  BY DEF InitAdds
<1>2. ListInv /\ Registered
  BY <1>1 DEF RegistryInv, Registered
<1>3. reply \in Replies /\ at \in 1 .. Len(reply.devices)
  BY <1>1, <1>2, ModelOfServed DEF ListInv
<1>4. PICK m : m = reply.devices[at]
  OBVIOUS
<1>5. PICK x : x = device_new(at)
  OBVIOUS
<1>6. x = [src |-> at, name |-> m.name, ns |-> x.ns, model |-> x.model,
           modelNs |-> x.modelNs, client |-> m.proto, props |-> m.props,
           twins |-> x.twins, methods |-> DefaultMethods(m.methods, m.props)]
  BY <1>1, <1>2, <1>4, <1>5, NewIsGenuine
<1>7. x.src = at /\ x.name = m.name
  BY <1>6
<1>8. Grown(devices, x, devices')
  BY <1>1, <1>5, AppendLength DEF Grown, RegistryInv, ArrayInv
<1> QED
  BY <1>3, <1>4, <1>7, <1>8

(* Every device keeps its place, its name and its origin.                  *)
LEMMA DevicesStay ==
  ASSUME RegistryInv, [Next]_vars
  PROVE  /\ IsList(devices') /\ Len(devices') >= Len(devices)
         /\ \A k \in 1 .. Len(devices) : /\ devices'[k].name = devices[k].name
                                         /\ devices'[k].src = devices[k].src
<1>0. IsList(devices) /\ Len(devices) \in Nat
  BY ListShape DEF RegistryInv, ArrayInv
<1>1. CASE InitAdds
  <2>1. PICK x : devices' = Append(devices, x)
    BY <1>1 DEF InitAdds
  <2> QED
    BY <1>0, <2>1, AppendLength
<1>2. CASE ~InitAdds
  BY <1>0, <1>2, NamesKept DEF SameNames
<1> QED
  BY <1>1, <1>2

-----------------------------------------------------------------------------
(* The devices that the servers have found.                                *)

(* The HTTP server keeps the first device of the name in the URL, ...      *)
HttpFound ==
  http.pc \in {"use", "model"} /\ http.url.segs[2] \notin Overlong =>
    http.dev = Named(http.url.segs[2])

(* ... and an UpdateDevice a device of the name in the request.            *)
RpcFound ==
  rpc.pc = "told" /\ rpc.dev # 0 => devices[rpc.dev].name = rpc.target.name

(* Once main has left its loop a name stands for the same device for ever. *)
LEMMA NamedStays ==
  ASSUME RegistryInv, [Next]_vars, pc = "running", NEW n
  PROVE  Named(n)' = Named(n)
<1>1. SameNames(devices, devices')
  BY NamesKept DEF InitAdds
<1>2. Named(n) = FirstNamed(devices, n)
  BY DEF Named, FirstNamed
<1>3. Named(n)' = FirstNamed(devices', n)
  BY DEF Named, FirstNamed, SelectInSeq
<1> QED
  BY <1>1, <1>2, <1>3, SameFirst

(* A request that is being worked on, with what it is known to be.         *)
LEMMA HttpAtWork ==
  ASSUME RegistryInv, http # Idle
  PROVE  /\ http \in HttpRequests /\ pc = "running"
         /\ http.url \in Urls /\ Handler(http.url) \in NeedsDevice
         /\ http.to = Handler(http.url)
         /\ http.dev \in 0 .. Len(devices) /\ Len(devices) \in Nat
BY ListShape DEF RegistryInv, ArrayInv, ServerInv, HttpInv, HttpRequests

(* What HttpLookup finds.                                                  *)
LEMMA LookupFinds ==
  ASSUME RegistryInv, PlainNames, HttpLookup
  PROVE  /\ http # Idle /\ http.pc = "lookup"
         /\ http'.pc = "use" /\ http'.url = http.url /\ UNCHANGED devices
         /\ http.url.segs[2] \notin Overlong => http'.dev = Named(http.url.segs[2])
<1>1. PICK d : d = device_manager_get(get_resource_id(
                     Field(http.url.segs[1]), Field(http.url.segs[2])))
  OBVIOUS
<1>2. http.pc = "lookup" /\ http' = [http EXCEPT !.pc = "use", !.dev = d]
      /\ UNCHANGED devices
  BY <1>1 DEF HttpLookup, managerVars
<1>3. http # Idle
  BY <1>2 DEF Idle
<1>4. http \in HttpRequests /\ http.url \in Urls /\ Handler(http.url) \in NeedsDevice
  BY <1>3, HttpAtWork
<1>5. http'.pc = "use" /\ http'.url = http.url /\ http'.dev = d
  BY <1>2, <1>4 DEF HttpRequests
<1>6. http.url.segs[2] \notin Overlong => d = Named(http.url.segs[2])
  BY <1>1, <1>4, LookupByUrl
<1> QED
  BY <1>2, <1>3, <1>5, <1>6

LEMMA HttpFoundStep ==
  ASSUME RegistryInv, PlainNames, HttpFound, [Next]_vars
  PROVE  HttpFound'
<1>1. CASE http' = Idle
  BY <1>1 DEF HttpFound, Idle
<1>2. CASE HttpLookup
  <2>1. /\ http # Idle /\ http'.url = http.url
        /\ http.url.segs[2] \notin Overlong => http'.dev = Named(http.url.segs[2])
    BY <1>2, LookupFinds
  <2>2. pc = "running"
    BY <2>1, HttpAtWork
  <2>3. PICK n : n = http.url.segs[2]
    OBVIOUS
  <2>4. Named(n)' = Named(n)
    BY <2>2, NamedStays
  <2> QED
    BY <2>1, <2>3, <2>4 DEF HttpFound
<1>3. CASE http.pc = "use" /\ http' = [http EXCEPT !.pc = "model"]
  <2>1. http # Idle
    BY <1>3 DEF Idle
  <2>2. http \in HttpRequests /\ pc = "running"
    BY <2>1, HttpAtWork
  <2>3. http'.url = http.url /\ http'.dev = http.dev
    BY <1>3, <2>2 DEF HttpRequests
  <2>4. PICK n : n = http.url.segs[2]
    OBVIOUS
  <2>5. Named(n)' = Named(n)
    BY <2>2, NamedStays
  <2> QED
    BY <1>3, <2>3, <2>4, <2>5 DEF HttpFound
<1>4. CASE http' = http
  <2>1. CASE http = Idle
    BY <1>4, <2>1 DEF HttpFound, Idle
  <2>2. CASE http # Idle
    <3>1. pc = "running"
      BY <2>2, HttpAtWork
    <3>2. PICK n : n = http.url.segs[2]
      OBVIOUS
    <3>3. Named(n)' = Named(n)
      BY <3>1, NamedStays
    <3> QED
      BY <1>4, <3>2, <3>3 DEF HttpFound
  <2> QED
    BY <2>1, <2>2
<1>5. CASE \E u \in Urls : HttpArrives(u)
  <2>1. http' = Idle \/ http'.pc = "lookup"
    BY <1>5 DEF HttpArrives, Answers
  <2> QED
    BY <2>1 DEF HttpFound, Idle
<1>6. ASSUME HttpStep
      PROVE  \/ http' = Idle \/ HttpLookup
             \/ http.pc = "use" /\ http' = [http EXCEPT !.pc = "model"]
  BY <1>6 DEF HttpStep, HttpReads, HttpWrites, HttpListsMethods,
         HttpFindsDevice, HttpFindsModel, Answers
<1>7. ASSUME ~HttpStep, ~\E u \in Urls : HttpArrives(u) PROVE http' = http
  <2>1. CASE MainStep
    BY <2>1 DEF MainStep, RegisterFails, Register, InitSkips, InitCreateFails,
           InitAdds, InitAddFails, InitDone, serverVars
  <2>2. CASE StartStep
    BY <2>2 DEF StartStep, StartAllLocks, StartsDevice, StartAllUnlocks, serverVars
  <2>3. CASE RpcStep
    BY <2>3 DEF RpcStep, RpcFirst, RpcSecond, RpcDone
  <2>4. CASE \E t \in Targets : RpcArrives(t)
    BY <2>4 DEF RpcArrives
  <2>5. CASE Terminated \/ UNCHANGED vars
    BY <2>5 DEF Terminated, vars, serverVars
  <2> QED
    BY <1>7, <2>1, <2>2, <2>3, <2>4, <2>5 DEF Next
<1> QED
  BY <1>1, <1>2, <1>3, <1>4, <1>5, <1>6, <1>7

(* What the two lookups of an UpdateDevice find.                           *)
LEMMA RpcLookupFinds ==
  ASSUME RegistryInv, PlainNames, PlainCalls, RpcFirst \/ RpcSecond,
         NEW n, n = rpc.target.name
  PROVE  /\ rpc # Idle /\ rpc.pc \in {"first", "second"} /\ rpc.target \in Targets
         /\ UNCHANGED devices
         /\ \/ rpc' = [pc |-> "told", target |-> rpc.target, dev |-> Named(n)]
            \/ rpc' = [pc |-> "second", target |-> rpc.target]
<1>1. rpc.pc \in {"first", "second"} /\ rpc # Idle /\ UNCHANGED devices
  BY DEF RpcFirst, RpcSecond, Idle, managerVars
<1>2. rpc \in [pc : {"first", "second"}, target : Targets]
  BY <1>1 DEF RegistryInv, ServerInv, RpcInv
<1>3. PICK t \in Targets : t = rpc.target
  BY <1>2
<1>4. /\ IsList(t.ns) /\ IsList(t.name) /\ Plain(t.name)
      /\ \A k \in 1 .. Len(t.ns) : t.ns[k] # "."
  BY RequestAssumption DEF PlainCalls
<1>5. CASE RpcFirst
  <2>1. device_manager_get(t.name) = Named(n)
    BY <1>3, <1>4, GetByName
  <2>2. \/ rpc' = [rpc EXCEPT !.pc = "second"]
        \/ rpc' = [pc |-> "told", target |-> rpc.target, dev |-> Named(n)]
    BY <1>3, <1>5, <2>1 DEF RpcFirst
  <2>3. [rpc EXCEPT !.pc = "second"] = [pc |-> "second", target |-> rpc.target]
    BY <1>2
  <2> QED
    BY <1>1, <1>2, <2>2, <2>3
<1>6. CASE RpcSecond
  <2>1. rpc' = [pc |-> "told", target |-> rpc.target,
                dev |-> device_manager_get(Joined(t.ns, "/", t.name))]
    BY <1>3, <1>6 DEF RpcSecond, Joined
  <2>2. device_manager_get(Joined(t.ns, "/", t.name)) = Named(t.name)
    <3>1. "/" \in {".", "/"}
      OBVIOUS
    <3> QED
      BY <1>4, <3>1, GetByPair
  <2> QED
    BY <1>1, <1>2, <1>3, <2>1, <2>2
<1> QED
  BY <1>5, <1>6

LEMMA RpcFoundStep ==
  ASSUME RegistryInv, PlainNames, PlainCalls, RpcFound, [Next]_vars
  PROVE  RpcFound'
<1>1. CASE RpcFirst \/ RpcSecond
  <2>1. PICK n : n = rpc.target.name
    OBVIOUS
  <2>2. PICK k : k = Named(n)
    OBVIOUS
  <2>3. /\ UNCHANGED devices
        /\ \/ rpc' = [pc |-> "told", target |-> rpc.target, dev |-> k]
           \/ rpc' = [pc |-> "second", target |-> rpc.target]
    BY <1>1, <2>1, <2>2, RpcLookupFinds
  <2>4. k # 0 => devices[k].name = n
    BY <2>2, NamedIsFirst
  <2> QED
    BY <2>1, <2>3, <2>4 DEF RpcFound
<1>2. CASE rpc' = rpc
  <2>1. CASE rpc.pc = "told" /\ rpc.dev # 0
    <3>1. rpc.dev \in 1 .. Len(devices)
      BY <2>1, ListShape DEF RegistryInv, ArrayInv, ServerInv, RpcInv, Idle
    <3>2. PICK k \in 1 .. Len(devices) : k = rpc.dev
      BY <3>1
    <3>3. devices'[k].name = devices[k].name
      BY DevicesStay
    <3> QED
      BY <1>2, <2>1, <3>2, <3>3 DEF RpcFound
  <2>2. CASE ~(rpc.pc = "told" /\ rpc.dev # 0)
    BY <1>2, <2>2 DEF RpcFound
  <2> QED
    BY <2>1, <2>2
<1>3. CASE RpcDone \/ \E t \in Targets : RpcArrives(t)
  <2>1. rpc'.pc \in {"idle", "first"}
    BY <1>3 DEF RpcDone, RpcArrives, Idle
  <2> QED
    BY <2>1 DEF RpcFound
<1>4. CASE MainStep
  <2>1. rpc' = rpc
    BY <1>4 DEF MainStep, RegisterFails, Register, InitSkips, InitCreateFails,
           InitAdds, InitAddFails, InitDone, serverVars
  <2> QED
    BY <1>2, <2>1
<1>5. CASE StartStep \/ HttpStep
  <2>1. rpc' = rpc
    BY <1>5 DEF StartStep, StartAllLocks, StartsDevice, StartAllUnlocks, serverVars,
           HttpStep, HttpLookup, HttpReads, HttpWrites, HttpListsMethods,
           HttpFindsDevice, HttpFindsModel
  <2> QED
    BY <1>2, <2>1
<1>6. CASE (\E u \in Urls : HttpArrives(u)) \/ Terminated \/ UNCHANGED vars
  <2>1. rpc' = rpc
    BY <1>6 DEF HttpArrives, Terminated, vars, serverVars
  <2> QED
    BY <1>2, <2>1
<1> QED
  BY <1>1, <1>3, <1>4, <1>5, <1>6 DEF Next, RpcStep

LEMMA HttpFoundInvariant ==
  ASSUME PlainNames
  PROVE  Spec => [](RegistryInv /\ HttpFound)
<1>1. Init => RegistryInv /\ HttpFound
  BY RegistryInit DEF Init, HttpFound, Idle
<1>2. RegistryInv /\ HttpFound /\ [Next]_vars => (RegistryInv /\ HttpFound)'
  BY RegistryStep, HttpFoundStep
<1> QED
  BY <1>1, <1>2, PTL DEF Spec

LEMMA RpcFoundInvariant ==
  ASSUME PlainNames, PlainCalls
  PROVE  Spec => []RpcFound
<1>1. Init => RpcFound
  BY DEF Init, RpcFound, Idle
<1>2. RegistryInv /\ RpcFound /\ [Next]_vars => RpcFound'
  BY RpcFoundStep
<1> QED
  BY <1>1, <1>2, RegistryInvariant, PTL DEF Spec

(* With names that are never taken apart or cut, no request ever works on  *)
(* a device of another name than its own. Run registry_names shows what    *)
(* happens with a dot in a name.                                           *)
THEOREM OnlyRightDevices ==
  ASSUME PlainNames, PlainCalls, WholeNames
  PROVE  Spec => []RightDevice
<1>1. RegistryInv /\ HttpFound /\ RpcFound => RightDevice
  <2> SUFFICES ASSUME RegistryInv, HttpFound, RpcFound PROVE RightDevice
    OBVIOUS
  <2>1. ASSUME http.pc = "use", http.dev # 0 PROVE Dev.name = http.url.segs[2]
    <3>1. http # Idle
      BY <2>1 DEF Idle
    <3>2. http.url \in Urls /\ Handler(http.url) \in NeedsDevice
      BY <3>1, HttpAtWork
    <3>3. PICK k : k = Named(http.url.segs[2])
      OBVIOUS
    <3>4. http.dev = k
      BY <2>1, <3>2, <3>3 DEF HttpFound, WholeNames
    <3>5. devices[k].name = http.url.segs[2]
      BY <2>1, <3>3, <3>4, NamedIsFirst
    <3> QED
      BY <3>4, <3>5 DEF Dev
  <2> QED
    BY <2>1 DEF RightDevice, RpcFound
<1> QED
  BY <1>1, HttpFoundInvariant, RpcFoundInvariant, PTL

-----------------------------------------------------------------------------
(* The device manager as a directory.                                      *)

(* The directory that an array of devices stands for.                      *)
DirOf(s) == [n \in {s[k].name : k \in DOMAIN s} |-> s[FirstNamed(s, n)].src]

LEMMA DirShape == AbstractDir = DirOf(devices)
<1>1. \A n : Named(n) = FirstNamed(devices, n)
  BY DEF Named, FirstNamed
<1> QED
  BY <1>1 DEF AbstractDir, DirOf

(* Its names are those under which a device is found.                      *)
LEMMA DirDomain ==
  ASSUME NEW s, IsList(s), NEW n, NEW f, f = FirstNamed(s, n)
  PROVE  /\ n \in DOMAIN DirOf(s) <=> f # 0
         /\ f # 0 => DirOf(s)[n] = s[f].src
<1>1. /\ f \in 0 .. Len(s)
      /\ f = 0 => \A j \in 1 .. Len(s) : s[j].name # n
      /\ f # 0 => s[f].name = n
  BY FirstNamedIsFirst
<1>2. DOMAIN s = 1 .. Len(s) /\ Len(s) \in Nat
  BY ListShape
<1>3. DOMAIN DirOf(s) = {s[k].name : k \in DOMAIN s}
  BY DEF DirOf
<1>4. n \in DOMAIN DirOf(s) <=> f # 0
  BY <1>1, <1>2, <1>3
<1>5. n \in DOMAIN DirOf(s) => DirOf(s)[n] = s[f].src
  BY <1>3 DEF DirOf
<1> QED
  BY <1>4, <1>5

LEMMA DirSame ==
  ASSUME NEW s, NEW t, SameNames(s, t)
  PROVE  DirOf(t) = DirOf(s)
<1>1. /\ IsList(s) /\ IsList(t) /\ Len(t) = Len(s)
      /\ DOMAIN s = 1 .. Len(s) /\ DOMAIN t = 1 .. Len(s)
      /\ \A k \in 1 .. Len(s) : t[k].name = s[k].name /\ t[k].src = s[k].src
  BY ListShape DEF SameNames
<1>2. {t[k].name : k \in DOMAIN t} = {s[k].name : k \in DOMAIN s}
  BY <1>1
<1>3. ASSUME NEW n \in {s[k].name : k \in DOMAIN s}
      PROVE  t[FirstNamed(t, n)].src = s[FirstNamed(s, n)].src
  <2>1. PICK f : f = FirstNamed(s, n)
    OBVIOUS
  <2>2. FirstNamed(t, n) = f
    BY <2>1, SameFirst
  <2>3. f \in 0 .. Len(s) /\ (f = 0 => \A j \in 1 .. Len(s) : s[j].name # n)
    BY <2>1, <1>1, FirstNamedIsFirst
  <2>4. f \in 1 .. Len(s)
    BY <2>3, <1>1, ListShape
  <2> QED
    BY <2>1, <2>2, <2>4, <1>1
<1> QED
  BY <1>2, <1>3 DEF DirOf

WithName(dir, x) ==
  [m \in DOMAIN dir \cup {x.name} |-> IF m = x.name THEN x.src ELSE dir[m]]

(* A device that is added gets its name unless another one has it.         *)
LEMMA DirAppended ==
  ASSUME NEW s, NEW x, NEW t, Grown(s, x, t)
  PROVE  /\ x.name \in DOMAIN DirOf(s) => DirOf(t) = DirOf(s)
         /\ x.name \notin DOMAIN DirOf(s) => DirOf(t) = WithName(DirOf(s), x)
<1>0. IsList(s) /\ IsList(t) /\ Len(s) \in Nat
  BY ListShape DEF Grown
<1>1. /\ Len(t) = Len(s) + 1
      /\ \A k \in 1 .. Len(s) : t[k] = s[k]
      /\ t[Len(s) + 1] = x
  BY DEF Grown
<1>2. ASSUME NEW m
      PROVE  /\ m \in DOMAIN DirOf(t) <=> m \in DOMAIN DirOf(s) \cup {x.name}
             /\ m \in DOMAIN DirOf(s) => DirOf(t)[m] = DirOf(s)[m]
             /\ m \notin DOMAIN DirOf(s) /\ m = x.name => DirOf(t)[m] = x.src
  <2>1. PICK f : f = FirstNamed(s, m)
    OBVIOUS
  <2>2. PICK g : g = FirstNamed(t, m)
    OBVIOUS
  <2>3. /\ f # 0 => g = f
        /\ f = 0 => g = IF x.name = m THEN Len(s) + 1 ELSE 0
    BY <2>1, <2>2, FirstOfAppended
  <2>4. /\ m \in DOMAIN DirOf(s) <=> f # 0
        /\ f # 0 => DirOf(s)[m] = s[f].src
    BY <1>0, <2>1, DirDomain
  <2>5. /\ m \in DOMAIN DirOf(t) <=> g # 0
        /\ g # 0 => DirOf(t)[m] = t[g].src
    BY <1>0, <2>2, DirDomain
  <2>6. f \in 0 .. Len(s) /\ (f # 0 => s[f].name = m)
    BY <1>0, <2>1, FirstNamedIsFirst
  <2>7. CASE f # 0
    <3>1. f \in 1 .. Len(s) /\ g = f
      BY <2>3, <2>6, <2>7, <1>0
    <3> QED
      BY <3>1, <2>4, <2>5, <2>7, <1>1
  <2>8. CASE f = 0 /\ x.name = m
    <3>1. g = Len(s) + 1 /\ g # 0
      BY <2>3, <2>8, <1>0
    <3> QED
      BY <3>1, <2>4, <2>5, <2>8, <1>1
  <2>9. CASE f = 0 /\ x.name # m
    BY <2>3, <2>4, <2>5, <2>9
  <2> QED
    BY <2>7, <2>8, <2>9
<1>3. /\ DirOf(t) = [m \in DOMAIN DirOf(t) |-> DirOf(t)[m]]
      /\ DirOf(s) = [m \in DOMAIN DirOf(s) |-> DirOf(s)[m]]
  BY DEF DirOf
<1>4. DOMAIN DirOf(t) = DOMAIN DirOf(s) \cup {x.name}
  BY <1>2
<1>5. CASE x.name \in DOMAIN DirOf(s)
  <2>1. DOMAIN DirOf(t) = DOMAIN DirOf(s)
    BY <1>4, <1>5
  <2> QED
    BY <2>1, <1>2, <1>3, <1>5
<1>6. CASE x.name \notin DOMAIN DirOf(s)
  BY <1>2, <1>3, <1>4, <1>6 DEF WithName
<1> QED
  BY <1>5, <1>6

(* The lookups that the servers' requests stand for.                       *)
TellOf(n, d, s) ==
  [pc |-> "told", name |-> n, dev |-> IF d = 0 THEN 0 ELSE s[d].src]

AskOf(q, n, s) ==
  IF q.pc = "idle" THEN [pc |-> "idle"]
  ELSE IF q.pc \in {"lookup", "first", "second"} THEN [pc |-> "asked", name |-> n]
  ELSE TellOf(n, q.dev, s)

AsksOf(h, r, s) ==
  [c \in {"http", "rpc"} |-> IF c = "http" THEN AskOf(h, h.url.segs[2], s)
                                          ELSE AskOf(r, r.target.name, s)]

LEMMA AskShape == ServerInv => AbstractAsk = AsksOf(http, rpc, devices)
<1> SUFFICES ASSUME ServerInv PROVE AbstractAsk = AsksOf(http, rpc, devices)
  OBVIOUS
<1>1. http.pc \in {"idle", "lookup", "use", "model"}
  BY DEF ServerInv, HttpInv, HttpRequests, Idle
<1>2. rpc.pc \in {"idle", "first", "second", "told"}
  BY DEF ServerInv, RpcInv, Idle
<1>3. AbstractAsk["http"] = AskOf(http, http.url.segs[2], devices)
  BY <1>1 DEF AbstractAsk, AskOf, Told, TellOf, AskedName
<1>4. AbstractAsk["rpc"] = AskOf(rpc, rpc.target.name, devices)
  BY <1>2 DEF AbstractAsk, AskOf, Told, TellOf, AskedName
<1>5. AbstractAsk = [c \in {"http", "rpc"} |-> AbstractAsk[c]]
  <2> DEFINE F(c) == LET q == IF c = "http" THEN http ELSE rpc
                     IN  CASE q.pc = "idle" -> [pc |-> "idle"]
                           [] q.pc \in {"lookup", "first", "second"} ->
                                [pc |-> "asked", name |-> AskedName(c)]
                           [] q.pc \in {"use", "model", "told"} -> Told(c, q.dev)
  <2>1. AbstractAsk = [c \in {"http", "rpc"} |-> F(c)]
    BY DEF AbstractAsk
  <2> HIDE DEF F
  <2> QED
    BY <2>1
<1> QED
  BY <1>3, <1>4, <1>5 DEF AsksOf

(* Requests that do not move ask or were told the same as before.          *)
LEMMA AskStable ==
  ASSUME RegistryInv, [Next]_vars
  PROVE  /\ AskOf(http, http.url.segs[2], devices')
              = AskOf(http, http.url.segs[2], devices)
         /\ AskOf(rpc, rpc.target.name, devices')
              = AskOf(rpc, rpc.target.name, devices)
<1>1. \A k \in 1 .. Len(devices) : devices'[k].src = devices[k].src
  BY DevicesStay
<1>2. \A n, d : d \in 0 .. Len(devices) => TellOf(n, d, devices') = TellOf(n, d, devices)
  <2>1. Len(devices) \in Nat
    BY ListShape DEF RegistryInv, ArrayInv
  <2>2. \A d \in 0 .. Len(devices) : d = 0 \/ d \in 1 .. Len(devices)
    BY <2>1
  <2> QED
    BY <1>1, <2>2 DEF TellOf
<1>3. http.pc # "idle" => http.dev \in 0 .. Len(devices)
  BY HttpAtWork DEF Idle
<1>4. rpc.pc \in {"idle", "first", "second"} \/ rpc.dev \in 0 .. Len(devices)
  BY DEF RegistryInv, ServerInv, RpcInv, Idle
<1> QED
  BY <1>2, <1>3, <1>4 DEF AskOf

LEMMA DirNext == AbstractDir' = DirOf(devices')
<1>1. (AbstractDir = DirOf(devices))'
  BY DirShape, PTL
<1> QED
  BY <1>1

(* The directory's holder of a name is the device that Named finds.        *)
LEMMA HolderIsNamed ==
  ASSUME RegistryInv, NEW n, NEW k, k = Named(n)
  PROVE  Directory!Holder(n) = IF k = 0 THEN 0 ELSE devices[k].src
<1>1. k = FirstNamed(devices, n) /\ IsList(devices) /\ AbstractDir = DirOf(devices)
  BY DirShape DEF Named, FirstNamed, RegistryInv, ArrayInv
<1>2. /\ n \in DOMAIN AbstractDir <=> k # 0
      /\ k # 0 => AbstractDir[n] = devices[k].src
  BY <1>1, DirDomain
<1> QED
  BY <1>2 DEF Directory!Holder, Directory!NoDevice

(* How the abstract lookups change when only one server moves.             *)
LEMMA HttpMoves ==
  ASSUME RegistryInv, RegistryInv', [Next]_vars, rpc' = rpc
  PROVE  AbstractAsk' = [AbstractAsk EXCEPT !["http"] =
                           AskOf(http', http'.url.segs[2], devices')]
<1>1. AbstractAsk = AsksOf(http, rpc, devices)
  BY AskShape DEF RegistryInv
<1>2. AbstractAsk' = AsksOf(http', rpc', devices')
  <2>1. (ServerInv => AbstractAsk = AsksOf(http, rpc, devices))'
    BY AskShape, PTL
  <2> QED
    BY <2>1 DEF RegistryInv
<1> QED
  BY <1>1, <1>2, AskStable DEF AsksOf

LEMMA RpcMoves ==
  ASSUME RegistryInv, RegistryInv', [Next]_vars, http' = http
  PROVE  AbstractAsk' = [AbstractAsk EXCEPT !["rpc"] =
                           AskOf(rpc', rpc'.target.name, devices')]
<1>1. AbstractAsk = AsksOf(http, rpc, devices)
  BY AskShape DEF RegistryInv
<1>2. AbstractAsk' = AsksOf(http', rpc', devices')
  <2>1. (ServerInv => AbstractAsk = AsksOf(http, rpc, devices))'
    BY AskShape, PTL
  <2> QED
    BY <2>1 DEF RegistryInv
<1> QED
  BY <1>1, <1>2, AskStable DEF AsksOf

LEMMA AskNow ==
  ASSUME RegistryInv
  PROVE  /\ AbstractAsk["http"] = AskOf(http, http.url.segs[2], devices)
         /\ AbstractAsk["rpc"] = AskOf(rpc, rpc.target.name, devices)
         /\ \A c \in {"http", "rpc"} :
              [AbstractAsk EXCEPT ![c] = AbstractAsk[c]] = AbstractAsk
<1>1. AbstractAsk = AsksOf(http, rpc, devices)
  BY AskShape DEF RegistryInv
<1> QED
  BY <1>1 DEF AsksOf

(* A request that keeps its question and its answer is a stutter.          *)
LEMMA AskSame ==
  ASSUME RegistryInv, RegistryInv', [Next]_vars,
         \/ /\ rpc' = rpc
            /\ AskOf(http', http'.url.segs[2], devices')
                 = AskOf(http, http.url.segs[2], devices)
         \/ /\ http' = http
            /\ AskOf(rpc', rpc'.target.name, devices')
                 = AskOf(rpc, rpc.target.name, devices)
  PROVE  AbstractAsk' = AbstractAsk
<1>1. CASE /\ rpc' = rpc
           /\ AskOf(http', http'.url.segs[2], devices')
                = AskOf(http, http.url.segs[2], devices)
  BY <1>1, AskNow, HttpMoves
<1>2. CASE /\ http' = http
           /\ AskOf(rpc', rpc'.target.name, devices')
                = AskOf(rpc, rpc.target.name, devices)
  BY <1>2, AskNow, RpcMoves
<1> QED
  BY <1>1, <1>2

LEMMA AskUnchanged ==
  ASSUME RegistryInv, RegistryInv', [Next]_vars, http' = http, rpc' = rpc
  PROVE  AbstractAsk' = AbstractAsk
<1>1. AskOf(http', http'.url.segs[2], devices')
        = AskOf(http, http.url.segs[2], devices)
  BY AskStable
<1> QED
  BY <1>1, AskSame

(* Only InitAdds changes the directory.                                    *)
LEMMA DirStable ==
  ASSUME RegistryInv, [Next]_vars, ~InitAdds
  PROVE  AbstractDir' = AbstractDir
<1>1. DirOf(devices') = DirOf(devices)
  BY NamesKept, DirSame
<1>2. AbstractDir' = DirOf(devices')
  BY DirNext
<1> QED
  BY <1>1, <1>2, DirShape

(* The names of devices and requests are names of the directory.           *)
LEMMA AskedNames ==
  /\ \A r \in Replies : \A i \in DOMAIN r.devices : r.devices[i].name \in AllNames
  /\ \A u \in Urls : Handler(u) \in NeedsDevice => u.segs[2] \in AllNames
  /\ \A t \in Targets : t.name \in AllNames
<1> DEFINE A == (UNION {{r.devices[i].name : i \in DOMAIN r.devices} : r \in Replies})
           B == {t.name : t \in Targets}
           C == {u.segs[2] : u \in {v \in Urls : Len(v.segs) >= 2}}
<1>1. \A r \in Replies : \A i \in DOMAIN r.devices : r.devices[i].name \in A
  OBVIOUS
<1>2. \A t \in Targets : t.name \in B
  OBVIOUS
<1>3. ASSUME NEW u \in Urls, Handler(u) \in NeedsDevice PROVE u.segs[2] \in C
  <2>1. 2 <= Len(u.segs) /\ Len(u.segs) \in Nat
    BY <1>3, DeviceUrl, RequestAssumption, ListShape
  <2> QED
    BY <2>1
<1>4. AllNames = A \cup B \cup C
  BY DEF AllNames
<1> HIDE DEF A, B, C
<1> QED
  BY <1>1, <1>2, <1>3, <1>4

(* main adds a device: its name is taken, unless it was before.            *)
LEMMA AddsToDirectory ==
  ASSUME RegistryInv, RegistryInv', [Next]_vars, InitAdds
  PROVE  \/ UNCHANGED <<AbstractDir, AbstractAsk>>
         \/ \E n \in AllNames, d \in UNION {DOMAIN r.devices : r \in Replies} :
              Directory!Add(n, d)
<1>1. PICK x : /\ Grown(devices, x, devices') /\ x.src = at
               /\ at \in 1 .. Len(reply.devices) /\ reply \in Replies
               /\ x.name = reply.devices[at].name
  BY AddedDevice
<1>2. AbstractAsk' = AbstractAsk
  BY AskUnchanged DEF InitAdds, serverVars
<1>3. AbstractDir = DirOf(devices) /\ AbstractDir' = DirOf(devices')
  BY DirShape, DirNext
<1>4. CASE x.name \in DOMAIN DirOf(devices)
  BY <1>1, <1>2, <1>3, <1>4, DirAppended
<1>5. CASE x.name \notin DOMAIN DirOf(devices)
  <2>1. at \in DOMAIN reply.devices
    BY <1>1, ReplyAssumption, ListShape
  <2>2. x.name \in AllNames
    BY <1>1, <2>1, AskedNames
  <2>3. x.src \in UNION {DOMAIN r.devices : r \in Replies}
    BY <1>1, <2>1
  <2>4. AbstractDir' = [m \in DOMAIN AbstractDir \cup {x.name} |->
                          IF m = x.name THEN x.src ELSE AbstractDir[m]]
    <3>1. DirOf(devices') = WithName(DirOf(devices), x)
      BY <1>1, <1>5, DirAppended
    <3> QED
      BY <1>3, <3>1, Zenon DEF WithName
  <2>5. Directory!Add(x.name, x.src)
    BY <1>2, <1>3, <1>5, <2>4 DEF Directory!Add
  <2> QED
    BY <2>2, <2>3, <2>5
<1> QED
  BY <1>4, <1>5

(* The steps of a server's request.                                        *)
ServerMoves(c) ==
  \/ UNCHANGED <<AbstractDir, AbstractAsk>>
  \/ \E n \in AllNames : Directory!Ask(c, n)
  \/ Directory!Tell(c) \/ Directory!Finish(c)

LEMMA HttpServes ==
  ASSUME PlainNames, WholeNames, RegistryInv, RegistryInv', [Next]_vars,
         HttpStep \/ \E u \in Urls : HttpArrives(u)
  PROVE  ServerMoves("http")
<1>0. rpc' = rpc /\ AbstractDir' = AbstractDir
  <2>1. rpc' = rpc
    BY DEF HttpStep, HttpLookup, HttpReads, HttpWrites, HttpListsMethods,
           HttpFindsDevice, HttpFindsModel, HttpArrives
  <2>2. devices' = devices
    BY DEF HttpStep, HttpLookup, HttpReads, HttpWrites, HttpListsMethods,
           HttpFindsDevice, HttpFindsModel, HttpArrives, managerVars
  <2>3. AbstractDir' = DirOf(devices')
    BY DirNext
  <2> QED
    BY <2>1, <2>2, <2>3, DirShape
<1>1. AbstractAsk' = [AbstractAsk EXCEPT !["http"] =
                        AskOf(http', http'.url.segs[2], devices')]
  BY <1>0, HttpMoves
<1>2. AbstractAsk["http"] = AskOf(http, http.url.segs[2], devices)
  BY AskNow
<1>3. CASE \E u \in Urls : HttpArrives(u)
  <2>1. PICK u \in Urls : HttpArrives(u)
    BY <1>3
  <2>2. http = Idle
    BY <2>1 DEF HttpArrives
  <2>3. CASE http' = Idle
    BY <2>2, <2>3, <1>0, AskUnchanged DEF ServerMoves
  <2>4. CASE http' # Idle
    <3>1. Handler(u) \in NeedsDevice /\ http'.pc = "lookup" /\ http'.url = u
      BY <2>1, <2>4 DEF HttpArrives, Answers
    <3>2. u.segs[2] \in AllNames
      BY <3>1, AskedNames
    <3>3. AskOf(http', http'.url.segs[2], devices')
            = [pc |-> "asked", name |-> u.segs[2]]
      BY <3>1 DEF AskOf
    <3>4. AbstractAsk["http"] = [pc |-> "idle"]
      BY <1>2, <2>2 DEF AskOf, Idle
    <3>5. Directory!Ask("http", u.segs[2])
      BY <1>0, <1>1, <3>3, <3>4 DEF Directory!Ask, Directory!Quiet
    <3> QED
      BY <3>2, <3>5 DEF ServerMoves
  <2> QED
    BY <2>3, <2>4
<1>4. CASE HttpLookup
  <2>1. PICK n : n = http.url.segs[2]
    OBVIOUS
  <2>2. PICK k : k = Named(n)
    OBVIOUS
  <2>3. /\ http # Idle /\ http.pc = "lookup" /\ http'.pc = "use"
        /\ http'.url = http.url /\ UNCHANGED devices
        /\ n \notin Overlong => http'.dev = k
    BY <1>4, <2>1, <2>2, LookupFinds
  <2>4. n \notin Overlong
    BY <2>1, <2>3, HttpAtWork DEF WholeNames
  <2>5. AbstractAsk["http"] = [pc |-> "asked", name |-> n]
    BY <1>2, <2>1, <2>3 DEF AskOf
  <2>6. AskOf(http', http'.url.segs[2], devices') = TellOf(n, k, devices)
    BY <2>1, <2>3, <2>4 DEF AskOf
  <2>7. TellOf(n, k, devices) = [pc |-> "told", name |-> n,
                                 dev |-> Directory!Holder(n)]
    BY <2>2, HolderIsNamed DEF TellOf
  <2>8. Directory!Tell("http")
    BY <1>0, <1>1, <2>5, <2>6, <2>7 DEF Directory!Tell
  <2> QED
    BY <2>8 DEF ServerMoves
<1>5. CASE http.pc \in {"use", "model"} /\ http' = Idle
  <2>1. AbstractAsk["http"].pc = "told"
    BY <1>2, <1>5 DEF AskOf, TellOf
  <2>2. AskOf(http', http'.url.segs[2], devices') = [pc |-> "idle"]
    BY <1>5 DEF AskOf, Idle
  <2>3. Directory!Finish("http")
    BY <1>0, <1>1, <2>1, <2>2 DEF Directory!Finish, Directory!Quiet
  <2> QED
    BY <2>3 DEF ServerMoves
<1>6. CASE http.pc = "use" /\ http' = [http EXCEPT !.pc = "model"]
  <2>1. http \in HttpRequests
    BY <1>6, HttpAtWork DEF Idle
  <2>2. http'.pc = "model" /\ http'.url = http.url /\ http'.dev = http.dev
    BY <1>6, <2>1 DEF HttpRequests
  <2>3. AskOf(http, http.url.segs[2], devices')
          = AskOf(http, http.url.segs[2], devices)
    BY AskStable
  <2>4. AskOf(http', http'.url.segs[2], devices')
          = AskOf(http, http.url.segs[2], devices')
    BY <1>6, <2>2 DEF AskOf
  <2> QED
    BY <1>0, <2>3, <2>4, AskSame DEF ServerMoves
<1>7. ASSUME HttpStep
      PROVE  \/ HttpLookup
             \/ http.pc \in {"use", "model"} /\ http' = Idle
             \/ http.pc = "use" /\ http' = [http EXCEPT !.pc = "model"]
  BY <1>7 DEF HttpStep, HttpReads, HttpWrites, HttpListsMethods,
         HttpFindsDevice, HttpFindsModel, Answers
<1> QED
  BY <1>3, <1>4, <1>5, <1>6, <1>7

LEMMA RpcServes ==
  ASSUME PlainNames, PlainCalls, RegistryInv, RegistryInv', [Next]_vars,
         RpcStep \/ \E t \in Targets : RpcArrives(t)
  PROVE  ServerMoves("rpc")
<1>0. http' = http /\ devices' = devices /\ AbstractDir' = AbstractDir
  <2>1. http' = http /\ devices' = devices
    BY DEF RpcStep, RpcFirst, RpcSecond, RpcDone, RpcArrives, managerVars
  <2>2. AbstractDir' = DirOf(devices')
    BY DirNext
  <2> QED
    BY <2>1, <2>2, DirShape
<1>1. AbstractAsk' = [AbstractAsk EXCEPT !["rpc"] =
                        AskOf(rpc', rpc'.target.name, devices')]
  BY <1>0, RpcMoves
<1>2. AbstractAsk["rpc"] = AskOf(rpc, rpc.target.name, devices)
  BY AskNow
<1>3. CASE \E t \in Targets : RpcArrives(t)
  <2>1. PICK t \in Targets : RpcArrives(t)
    BY <1>3
  <2>2. rpc = Idle /\ rpc' = [pc |-> "first", target |-> t]
    BY <2>1 DEF RpcArrives
  <2>3. AskOf(rpc', rpc'.target.name, devices') = [pc |-> "asked", name |-> t.name]
    BY <2>2 DEF AskOf
  <2>4. AbstractAsk["rpc"] = [pc |-> "idle"]
    BY <1>2, <2>2 DEF AskOf, Idle
  <2>5. Directory!Ask("rpc", t.name)
    BY <1>0, <1>1, <2>3, <2>4 DEF Directory!Ask, Directory!Quiet
  <2> QED
    BY <2>5, AskedNames DEF ServerMoves
<1>4. CASE RpcFirst \/ RpcSecond
  <2>1. PICK n : n = rpc.target.name
    OBVIOUS
  <2>2. PICK k : k = Named(n)
    OBVIOUS
  <2>3. /\ rpc.pc \in {"first", "second"}
        /\ \/ rpc' = [pc |-> "told", target |-> rpc.target, dev |-> k]
           \/ rpc' = [pc |-> "second", target |-> rpc.target]
    BY <1>4, <2>1, <2>2, RpcLookupFinds
  <2>4. AbstractAsk["rpc"] = [pc |-> "asked", name |-> n]
    BY <1>2, <2>1, <2>3 DEF AskOf
  <2>5. CASE rpc' = [pc |-> "second", target |-> rpc.target]
    <3>1. AskOf(rpc', rpc'.target.name, devices') = [pc |-> "asked", name |-> n]
      BY <2>1, <2>5 DEF AskOf
    <3>2. AskOf(rpc', rpc'.target.name, devices')
            = AskOf(rpc, rpc.target.name, devices)
      BY <3>1, <2>4, <1>2
    <3> QED
      BY <1>0, <3>2, AskSame DEF ServerMoves
  <2>6. CASE rpc' = [pc |-> "told", target |-> rpc.target, dev |-> k]
    <3>1. AskOf(rpc', rpc'.target.name, devices') = TellOf(n, k, devices)
      BY <1>0, <2>1, <2>6 DEF AskOf
    <3>2. TellOf(n, k, devices) = [pc |-> "told", name |-> n,
                                   dev |-> Directory!Holder(n)]
      BY <2>2, HolderIsNamed DEF TellOf
    <3>3. Directory!Tell("rpc")
      BY <1>0, <1>1, <2>4, <3>1, <3>2 DEF Directory!Tell
    <3> QED
      BY <3>3 DEF ServerMoves
  <2> QED
    BY <2>3, <2>5, <2>6
<1>5. CASE RpcDone
  <2>1. rpc.pc = "told" /\ rpc' = Idle
    BY <1>5 DEF RpcDone
  <2>2. AbstractAsk["rpc"].pc = "told"
    BY <1>2, <2>1 DEF AskOf, TellOf
  <2>3. AskOf(rpc', rpc'.target.name, devices') = [pc |-> "idle"]
    BY <2>1 DEF AskOf, Idle
  <2>4. Directory!Finish("rpc")
    BY <1>0, <1>1, <2>2, <2>3 DEF Directory!Finish, Directory!Quiet
  <2> QED
    BY <2>4 DEF ServerMoves
<1> QED
  BY <1>3, <1>4, <1>5 DEF RpcStep

(* Every step is one of the directory's or none.                           *)
LEMMA DirectoryStep ==
  ASSUME PlainNames, PlainCalls, WholeNames,
         RegistryInv, RegistryInv', [Next]_vars
  PROVE  [Directory!Next]_(Directory!vars)
<1>1. CASE InitAdds
  BY <1>1, AddsToDirectory DEF Directory!Next, Directory!vars
<1>2. CASE HttpStep \/ \E u \in Urls : HttpArrives(u)
  <2>1. ServerMoves("http")
    BY <1>2, HttpServes
  <2> QED
    BY <2>1 DEF ServerMoves, Directory!Next, Directory!vars
<1>3. CASE RpcStep \/ \E t \in Targets : RpcArrives(t)
  <2>1. ServerMoves("rpc")
    BY <1>3, RpcServes
  <2> QED
    BY <2>1 DEF ServerMoves, Directory!Next, Directory!vars
<1>4. CASE MainStep /\ ~InitAdds
  <2>1. http' = http /\ rpc' = rpc
    BY <1>4 DEF MainStep, RegisterFails, Register, InitSkips, InitCreateFails,
           InitAddFails, InitDone, serverVars
  <2> QED
    BY <1>4, <2>1, AskUnchanged, DirStable DEF Directory!vars
<1>5. ASSUME StartStep \/ Terminated \/ UNCHANGED vars, ~InitAdds
      PROVE  UNCHANGED Directory!vars
  <2>1. http' = http /\ rpc' = rpc
    BY <1>5 DEF StartStep, StartAllLocks, StartsDevice, StartAllUnlocks,
           Terminated, vars, serverVars
  <2> QED
    BY <1>5, <2>1, AskUnchanged, DirStable DEF Directory!vars
<1> QED
  BY <1>1, <1>2, <1>3, <1>4, <1>5 DEF Next

(* The device manager is a directory by name, for the HTTP server and for  *)
(* UpdateDevice, while main still adds devices and the start thread        *)
(* changes them, and although UpdateDevice looks twice: the first device   *)
(* registered under a name keeps it, and a lookup answers with the holder  *)
(* of the name at one instant.                                             *)
THEOREM ManagerIsDirectory ==
  ASSUME PlainNames, PlainCalls, WholeNames
  PROVE  Spec => ImplementsDirectory
<1>1. Init => Directory!Init
  <2> SUFFICES ASSUME Init PROVE Directory!Init
    OBVIOUS
  <2>1. AbstractDir = << >>
    <3>1. devices = <<>> /\ DOMAIN devices = {}
      BY EmptyIsList, ListShape DEF Init
    <3>2. AbstractDir = [n \in {} |-> devices[Named(n)].src]
      BY <3>1 DEF AbstractDir
    <3> QED
      BY <3>2
  <2>2. AbstractAsk = [c \in {"http", "rpc"} |-> Directory!Quiet]
    BY DEF Init, AbstractAsk, Idle, Directory!Quiet
  <2> QED
    BY <2>1, <2>2 DEF Directory!Init
<1>2. RegistryInv /\ RegistryInv' /\ [Next]_vars => [Directory!Next]_(Directory!vars)
  BY DirectoryStep
<1> QED
  BY <1>1, <1>2, RegistryInvariant, PTL DEF Spec, ImplementsDirectory, Directory!Spec

-----------------------------------------------------------------------------
(* The parameter lists of methods.                                         *)

(* The first elements of the first i lists of a list.                      *)
Firsts(s, i) == [j \in 1 .. i |-> s[j][1]]

LEMMA ExtendList ==
  ASSUME NEW S, NEW q \in Seq(S), NEW x \in S
  PROVE  /\ q \o <<x>> \in Seq(S) /\ Len(q \o <<x>>) = Len(q) + 1
         /\ \A j \in 1 .. Len(q) : (q \o <<x>>)[j] = q[j]
         /\ (q \o <<x>>)[Len(q) + 1] = x
OBVIOUS

LEMMA FirstsGrow ==
  ASSUME NEW s, NEW i \in Nat, i > 1, s[i] = <<s[i][1]>>
  PROVE  Firsts(s, i - 1) \o s[i] = Firsts(s, i)
<1> DEFINE S == {s[j][1] : j \in 1 .. i}
           q == Firsts(s, i - 1)
           x == s[i][1]
           r == q \o <<x>>
<1>1. q \in Seq(S) /\ Len(q) = i - 1 /\ \A j \in 1 .. i - 1 : q[j] = s[j][1]
  <2>1. \A j \in 1 .. i - 1 : s[j][1] \in S
    OBVIOUS
  <2> HIDE DEF S
  <2>2. q \in [1 .. i - 1 -> S] /\ i - 1 \in Nat
    BY <2>1 DEF Firsts
  <2>3. \A j \in 1 .. i - 1 : q[j] = s[j][1]
    BY DEF Firsts
  <2> HIDE DEF q
  <2> QED
    BY <2>2, <2>3
<1>2. x \in S
  OBVIOUS
<1> HIDE DEF S, q, x
<1>3. /\ r \in Seq(S) /\ Len(r) = Len(q) + 1
      /\ \A j \in 1 .. Len(q) : r[j] = q[j]
      /\ r[Len(q) + 1] = x
  BY <1>1, <1>2, ExtendList
<1> HIDE DEF r
<1>4. Len(r) = i /\ r = [j \in 1 .. i |-> r[j]]
  BY <1>1, <1>3
<1>5. \A j \in 1 .. i : r[j] = s[j][1]
  <2>1. \A j \in 1 .. i : j \in 1 .. i - 1 \/ j = i
    OBVIOUS
  <2>2. r[i] = x
    BY <1>1, <1>3
  <2> QED
    BY <2>1, <2>2, <1>1, <1>3 DEF x
<1>6. r = Firsts(s, i)
  BY <1>4, <1>5 DEF Firsts
<1> QED
  BY <1>6 DEF r, q, x

(* FlattenSeq of lists with one element each: the elements in a row. Its   *)
(* recursive function is the only one that satisfies its equation: a least *)
(* index where it differed would follow one where it does not.             *)
LEMMA FlattenSingles ==
  ASSUME NEW s, IsList(s), Len(s) > 0, \A i \in 1 .. Len(s) : s[i] = <<s[i][1]>>
  PROVE  FlattenSeq(s) = Firsts(s, Len(s))
<1> DEFINE n == Len(s)
           f[i \in 1 .. n] == IF i = 1 THEN s[i] ELSE f[i - 1] \o s[i]
           g == [i \in 1 .. n |-> Firsts(s, i)]
<1>0. n \in Nat /\ n > 0
  BY ListShape
<1>1. FlattenSeq(s) = f[n]
  BY <1>0 DEF FlattenSeq
<1>2. ASSUME NEW i \in 1 .. n
      PROVE  Firsts(s, i) = IF i = 1 THEN s[i] ELSE Firsts(s, i - 1) \o s[i]
  <2>1. CASE i = 1
    <3>1. s[1] = <<s[1][1]>>
      BY <1>0
    <3>2. Firsts(s, 1) = <<s[1][1]>>
      BY DEF Firsts
    <3> QED
      BY <2>1, <3>1, <3>2
  <2>2. CASE i # 1
    <3>1. i \in Nat /\ i > 1 /\ s[i] = <<s[i][1]>>
      BY <1>0, <2>2
    <3> QED
      BY <2>2, <3>1, FirstsGrow
  <2> QED
    BY <2>1, <2>2
<1>3. g = [i \in 1 .. n |-> IF i = 1 THEN s[i] ELSE g[i - 1] \o s[i]]
  <2>1. ASSUME NEW i \in 1 .. n, i # 1 PROVE g[i - 1] = Firsts(s, i - 1)
    <3>1. i - 1 \in 1 .. n
      BY <1>0, <2>1
    <3> QED
      BY <3>1
  <2> QED
    BY <1>2, <2>1
<1>4. f = [i \in 1 .. n |-> IF i = 1 THEN s[i] ELSE f[i - 1] \o s[i]]
  <2> HIDE DEF g
  <2> QED
    BY <1>3
<1> HIDE DEF f
<1>5. ASSUME NEW i \in 1 .. n PROVE f[i] = Firsts(s, i)
  <2> DEFINE Bad == {k \in 1 .. n : f[k] # Firsts(s, k)}
  <2> SUFFICES ASSUME Bad # {} PROVE FALSE
    OBVIOUS
  <2>1. PICK k \in Bad : \A j \in Bad : k <= j
    <3>1. Bad \in SUBSET (1 .. n)
      OBVIOUS
    <3> HIDE DEF Bad
    <3> QED
      BY <1>0, <3>1, LeastExists
  <2>2. k \in 1 .. n /\ f[k] # Firsts(s, k)
    OBVIOUS
  <2>3. f[k] = IF k = 1 THEN s[k] ELSE f[k - 1] \o s[k]
    BY <1>4, <2>2
  <2>4. CASE k = 1
    BY <1>2, <2>2, <2>3, <2>4
  <2>5. CASE k # 1
    <3>1. k - 1 \in 1 .. n /\ ~(k <= k - 1)
      BY <1>0, <2>2, <2>5
    <3>2. k - 1 \notin Bad
      BY <2>1, <3>1
    <3>3. f[k - 1] = Firsts(s, k - 1)
      BY <3>1, <3>2
    <3> QED
      BY <1>2, <2>2, <2>3, <2>5, <3>3
  <2> QED
    BY <2>4, <2>5
<1> QED
  BY <1>0, <1>1, <1>5

(* Methods with one property each are shown as they are.                   *)
LEMMA SinglesListed ==
  ASSUME NEW ms, IsList(ms), ms # <<>>,
         \A k \in DOMAIN ms : IsList(ms[k]) /\ Len(ms[k]) = 1
  PROVE  Listed(ms) = ms
<1>1. /\ Len(ms) \in Nat /\ DOMAIN ms = 1 .. Len(ms)
      /\ ms = [k \in 1 .. Len(ms) |-> ms[k]]
  BY ListShape
<1>2. Len(ms) > 0
  <2> SUFFICES ASSUME Len(ms) = 0 PROVE FALSE
    BY <1>1
  <2>1. ms \in Seq({ms[k] : k \in DOMAIN ms})
    BY DEF IsList
  <2> QED
    BY <2>1
<1>3. ASSUME NEW k \in 1 .. Len(ms) PROVE ms[k] = <<ms[k][1]>>
  <2>1. ms[k] = [j \in 1 .. 1 |-> ms[k][j]]
    BY <1>1, ListShape
  <2> QED
    BY <2>1
<1>4. FlattenSeq(ms) = Firsts(ms, Len(ms))
  BY <1>2, <1>3, FlattenSingles
<1>5. /\ Len(Firsts(ms, Len(ms))) = Len(ms)
      /\ \A k \in 1 .. Len(ms) : Firsts(ms, Len(ms))[k] = ms[k][1]
  BY <1>1 DEF Firsts
<1>6. ASSUME NEW k \in DOMAIN ms PROVE Listed(ms)[k] = ms[k]
  BY <1>1, <1>3, <1>4, <1>5 DEF Listed
<1>7. Listed(ms) = [k \in DOMAIN ms |-> Listed(ms)[k]]
  BY DEF Listed
<1> QED
  BY <1>1, <1>6, <1>7

(* A list of methods that is not empty is not shown as an empty one.       *)
LEMMA MethodsListed ==
  ASSUME NEW ms, IsList(ms), ms # <<>>
  PROVE  Listed(ms) # <<>>
<1>1. DOMAIN Listed(ms) = DOMAIN ms
  BY DEF Listed
<1>2. DOMAIN ms # {}
  <2>1. ms \in Seq({ms[k] : k \in DOMAIN ms})
    BY DEF IsList
  <2> QED
    BY <2>1
<1>3. DOMAIN <<>> = {}
  BY EmptyIsList, ListShape
<1> QED
  BY <1>1, <1>2, <1>3

-----------------------------------------------------------------------------
(* The answers.                                                            *)

(* Once main has left its loop, the device found under a name is the one   *)
(* that should be served under it.                                         *)
LEMMA ServedByName ==
  ASSUME RegistryInv, pc = "running", NEW n, NEW k, k = Named(n)
  PROVE  /\ k = 0 => \A i : ~Serves(n, i)
         /\ k # 0 => /\ k \in 1 .. Len(devices)
                     /\ \A i : Serves(n, i) <=> i = devices[k].src
<1>1. /\ k \in 0 .. Len(devices) /\ Len(devices) \in Nat
      /\ k = 0 => \A j \in 1 .. Len(devices) : devices[j].name # n
      /\ k # 0 => /\ devices[k].name = n
                  /\ \A j \in 1 .. k - 1 : devices[j].name # n
  BY NamedIsFirst, ListShape DEF RegistryInv, ArrayInv
<1>2. /\ reply \in Replies /\ at = Len(reply.devices) + 1
      /\ DOMAIN reply.devices = 1 .. Len(reply.devices)
      /\ Len(reply.devices) \in Nat
  <2>1. reply \in Replies /\ at = Len(reply.devices) + 1
    BY DEF RegistryInv, ListInv, Registered
  <2> QED
    BY <2>1, ReplyAssumption, ListShape
<1>3. ASSUME NEW j \in 1 .. Len(devices)
      PROVE  /\ devices[j].src \in 1 .. Len(reply.devices) /\ Served(devices[j].src)
             /\ devices[j].name = reply.devices[devices[j].src].name
  <2>1. Registered /\ Genuine(devices[j]) /\ ListInv
    BY DevicesRegistered DEF RegistryInv
  <2> QED
    BY <2>1, GenuineEntry DEF Genuine
<1>4. ASSUME NEW i \in 1 .. Len(reply.devices), Served(i)
      PROVE  \E j \in 1 .. Len(devices) : devices[j].src = i
  <2>1. i \in 1 .. at - 1
    BY <1>2
  <2> QED
    BY <1>4, <2>1 DEF RegistryInv, DevicesInv
<1>5. ASSUME k = 0, NEW i, Serves(n, i) PROVE FALSE
  <2>1. i \in 1 .. Len(reply.devices) /\ Served(i) /\ reply.devices[i].name = n
    BY <1>2, <1>5 DEF Serves
  <2>2. PICK j \in 1 .. Len(devices) : devices[j].src = i
    BY <1>4, <2>1
  <2> QED
    BY <1>1, <1>3, <1>5, <2>1, <2>2
<1>6. ASSUME k # 0
      PROVE  /\ k \in 1 .. Len(devices)
             /\ \A i : Serves(n, i) <=> i = devices[k].src
  <2>1. k \in 1 .. Len(devices)
    BY <1>1, <1>6
  <2>2. PICK e \in 1 .. Len(reply.devices) : e = devices[k].src
    BY <1>3, <2>1
  <2>3. Served(e) /\ reply.devices[e].name = n
    BY <1>1, <1>3, <1>6, <2>1, <2>2
  <2>4. ASSUME NEW i \in 1 .. Len(reply.devices), Served(i),
               reply.devices[i].name = n, i < e
        PROVE  FALSE
    <3>1. PICK j \in 1 .. Len(devices) : devices[j].src = i
      BY <1>4, <2>4
    <3>2. devices[j].name = n
      BY <1>3, <2>4, <3>1
    <3>3. ~(j \in 1 .. k - 1)
      BY <1>1, <1>6, <3>2
    <3>4. j = k \/ k < j
      BY <1>1, <2>1, <3>3
    <3>5. j # k
      BY <2>2, <2>4, <3>1
    <3>6. e < i
      BY <2>1, <2>2, <3>1, <3>4, <3>5 DEF RegistryInv, DevicesInv
    <3> QED
      BY <2>4, <3>6
  <2>5. Serves(n, e)
    <3>1. \A j \in 1 .. e - 1 : j \in 1 .. Len(reply.devices) /\ j < e
      BY <1>2
    <3> QED
      BY <1>2, <2>3, <2>4, <3>1 DEF Serves
  <2>6. ASSUME NEW i, Serves(n, i) PROVE i = e
    <3>1. /\ i \in 1 .. Len(reply.devices) /\ Served(i) /\ reply.devices[i].name = n
          /\ \A j \in 1 .. i - 1 : ~(reply.devices[j].name = n /\ Served(j))
      BY <1>2, <2>6 DEF Serves
    <3>2. ~(i < e)
      BY <2>4, <3>1
    <3>3. ~(e \in 1 .. i - 1)
      BY <2>3, <3>1
    <3> QED
      BY <1>2, <3>1, <3>2, <3>3
  <2> QED
    BY <2>1, <2>2, <2>5, <2>6
<1> QED
  BY <1>5, <1>6

(* The twin of a property.                                                 *)
FirstTwin(tw, p) == SelectInSeq(tw, LAMBDA t : t.prop = p)

LEMMA FirstTwinIsTwin ==
  ASSUME NEW tw, NEW n \in Nat, Len(tw) = n, NEW p, NEW k, k = FirstTwin(tw, p)
  PROVE  /\ k # 0 => k \in 1 .. n /\ tw[k].prop = p
         /\ k = 0 => \A j \in 1 .. n : tw[j].prop # p
<1> DEFINE I == {j \in 1 .. Len(tw) : tw[j].prop = p}
<1>1. k = IF I # {} THEN Min(I) ELSE 0
  BY DEF FirstTwin, SelectInSeq
<1>2. I # {} => Min(I) \in I
  BY MinIsLeast
<1>3. CASE I = {}
  BY <1>1, <1>3
<1>4. CASE I # {}
  <2>1. k \in I
    BY <1>1, <1>2, <1>4
  <2> QED
    BY <2>1
<1> QED
  BY <1>3, <1>4

(* A device has a twin for each of its properties, bound or not, and each  *)
(* is bound once the start thread is done.                                 *)
LEMMA TwinsByName ==
  ASSUME RegistryInv, NEW j \in 1 .. Len(devices), NEW p,
         NEW k, k = FirstTwin(devices[j].twins, p)
  PROVE  /\ k # 0 <=> p \in ToSet(devices[j].props)
         /\ k # 0 /\ start = "done" => devices[j].twins[k].bound
<1> DEFINE d == devices[j]
           n == Len(d.props)
<1>1. /\ Genuine(d) /\ IsList(d.props) /\ d.props = reply.devices[d.src].props
  <2>1. Registered /\ Genuine(d) /\ ListInv
    BY DevicesRegistered DEF RegistryInv
  <2> QED
    BY <2>1, GenuineEntry
<1>2. n \in Nat /\ DOMAIN d.props = 1 .. n
  BY <1>1, ListShape
<1>3. d.twins \in {Bound(d.props), Unbound(d.props)}
  BY <1>1 DEF Genuine
<1>4. start = "done" => d.twins = Bound(d.props)
  <2>1. start = "done" => j < startAt
    BY ListShape DEF RegistryInv, StartInv, ArrayInv
  <2> QED
    BY <2>1 DEF RegistryInv, StartInv
<1> HIDE DEF d
<1>5. /\ Len(d.twins) = n
      /\ \A i \in 1 .. n : d.twins[i].prop = d.props[i]
      /\ start = "done" => \A i \in 1 .. n : d.twins[i].bound
  <2>1. CASE d.twins = Bound(d.props)
    BY <2>1, <1>2 DEF Bound
  <2>2. CASE d.twins = Unbound(d.props) /\ start # "done"
    BY <2>2, <1>2 DEF Unbound
  <2> QED
    BY <2>1, <2>2, <1>3, <1>4
<1>6. k = FirstTwin(d.twins, p)
  BY DEF d
<1>7. /\ k # 0 => k \in 1 .. n /\ d.twins[k].prop = p
      /\ k = 0 => \A i \in 1 .. n : d.twins[i].prop # p
  BY <1>2, <1>5, <1>6, FirstTwinIsTwin
<1>8. k # 0 <=> p \in ToSet(d.props)
  BY <1>2, <1>5, <1>7 DEF ToSet
<1>9. k # 0 /\ start = "done" => d.twins[k].bound
  BY <1>5, <1>7
<1> QED
  BY <1>8, <1>9 DEF d

(* The device a handler works on, seen from the reply.                     *)
LEMMA FoundDevice ==
  ASSUME RegistryInv, HttpFound, http.pc = "use", NEW d, d = http.dev,
         NEW n, n = http.url.segs[2], n \notin Overlong
  PROVE  /\ d = 0 => \A i : ~Serves(n, i)
         /\ d # 0 =>
              /\ d \in 1 .. Len(devices)
              /\ \A i : Serves(n, i) <=> i = devices[d].src
              /\ devices[d].src \in DOMAIN reply.devices /\ reply \in Replies
              /\ devices[d].props = reply.devices[devices[d].src].props
              /\ devices[d].client = reply.devices[devices[d].src].proto
              /\ devices[d].methods =
                   DefaultMethods(reply.devices[devices[d].src].methods,
                                  reply.devices[devices[d].src].props)
<1>1. pc = "running"
  BY HttpAtWork DEF Idle
<1>2. d = Named(n)
  BY DEF HttpFound
<1>3. /\ d = 0 => \A i : ~Serves(n, i)
      /\ d # 0 => /\ d \in 1 .. Len(devices)
                  /\ \A i : Serves(n, i) <=> i = devices[d].src
  BY <1>1, <1>2, ServedByName
<1>4. ASSUME d \in 1 .. Len(devices)
      PROVE  /\ devices[d].src \in DOMAIN reply.devices /\ reply \in Replies
             /\ devices[d].props = reply.devices[devices[d].src].props
             /\ devices[d].client = reply.devices[devices[d].src].proto
             /\ devices[d].methods =
                  DefaultMethods(reply.devices[devices[d].src].methods,
                                 reply.devices[devices[d].src].props)
  <2>1. Registered /\ Genuine(devices[d]) /\ ListInv /\ reply \in Replies
    BY <1>4, DevicesRegistered DEF RegistryInv
  <2>2. PICK e : e = devices[d]
    OBVIOUS
  <2>3. /\ e.src \in DOMAIN reply.devices
        /\ e.props = reply.devices[e.src].props
        /\ e.client = reply.devices[e.src].proto
        /\ e.methods = DefaultMethods(reply.devices[e.src].methods, e.props)
    BY <2>1, <2>2, GenuineEntry
  <2> QED
    BY <2>1, <2>2, <2>3
<1> QED
  BY <1>3, <1>4

(* An answer is given once main is done, and a property that was read      *)
(* belongs to a device.                                                    *)
AnswerInv ==
  /\ answer.code # 0 => pc = "running"
  /\ Asks("device", 3) /\ answer.code = 200 => answer.dev \in 1 .. Len(devices)
  /\ ReadsAsRegistered /\ WritesOnceStarted /\ MethodsOfDevice

(* Which entry serves a name depends on the reply and on what was lost.    *)
LEMMA SameServes ==
  ASSUME UNCHANGED <<reply, lost>>, NEW n
  PROVE  \A i : Serves(n, i)' <=> Serves(n, i)
<1>1. \A i : Served(i)' <=> Served(i)
  BY DEF Served
<1> QED
  BY <1>1 DEF Serves

(* Without an answer there is nothing to say.                              *)
LEMMA NoAnswerYet ==
  ASSUME answer'.code = 0
  PROVE  AnswerInv'
BY DEF AnswerInv, Asks, ReadsAsRegistered, WritesOnceStarted, MethodsOfDevice

(* A complete URL was answered by its handler.                             *)
LEMMA AskedHandler ==
  ASSUME NEW u \in Urls, answer'.url = u
  PROVE  /\ Asks("device", 3)' => Complete(u, "device", 3) /\ Handler(u) = "read"
         /\ Asks("devicemethod", 5)' =>
              Complete(u, "devicemethod", 5) /\ Handler(u) = "write"
         /\ Asks("devicemethod", 2)' =>
              Complete(u, "devicemethod", 2) /\ Handler(u) = "methods"
<1>1. \A r, n : Asks(r, n)' => Complete(u, r, n)
  BY DEF Asks, Complete
<1> QED
  BY <1>1, HandlerOfUrl

LEMMA OtherAnswer ==
  ASSUME NEW u \in Urls, answer'.url = u, pc' = "running",
         Handler(u) \notin {"read", "write", "methods"}
  PROVE  AnswerInv'
BY AskedHandler DEF AnswerInv, ReadsAsRegistered, WritesOnceStarted, MethodsOfDevice

(* An answer stays true.                                                   *)
LEMMA AnswerStays ==
  ASSUME RegistryInv, AnswerInv, [Next]_vars, UNCHANGED answer
  PROVE  AnswerInv'
<1>1. CASE answer.code = 0
  BY <1>1, NoAnswerYet
<1>2. CASE answer.code # 0
  <2>1. pc = "running"
    BY <1>2 DEF AnswerInv
  <2>2. UNCHANGED <<pc, reply, lost>>
    <3>1. ~MainStep
      BY <2>1, ListShape DEF MainStep, RegisterFails, Register, InitSkips,
           InitCreateFails, InitAdds, InitAddFails, InitDone
    <3> QED
      BY <3>1 DEF Next, StartStep, StartAllLocks, StartsDevice, StartAllUnlocks,
           HttpStep, HttpLookup, HttpReads, HttpWrites, HttpListsMethods,
           HttpFindsDevice, HttpFindsModel, RpcStep, RpcFirst, RpcSecond, RpcDone,
           HttpArrives, RpcArrives, Terminated, mainVars, vars
  <2>3. /\ Len(devices') >= Len(devices)
        /\ Len(devices) \in Nat /\ Len(devices') \in Nat
        /\ \A k \in 1 .. Len(devices) : devices'[k].src = devices[k].src
    BY DevicesStay, ListShape DEF RegistryInv, ArrayInv
  <2>4. \A n, i : Serves(n, i)' <=> Serves(n, i)
    BY <2>2, SameServes
  <2>5. \A r, n : Asks(r, n)' <=> Asks(r, n)
    BY DEF Asks
  <2>6. ASSUME Asks("device", 3), answer.code = 200
        PROVE  /\ answer.dev \in 1 .. Len(devices')
               /\ devices'[answer.dev].src = devices[answer.dev].src
    BY <2>3, <2>6 DEF AnswerInv
  <2>7. ReadsAsRegistered'
    <3> SUFFICES ASSUME Asks("device", 3) PROVE ReadsAsRegistered'
      BY <2>5 DEF ReadsAsRegistered
    <3> DEFINE u == answer.url
               hit(i) == Serves(u.segs[2], i)
                           /\ u.segs[3] \in ToSet(reply.devices[i].props)
               dev == devices[answer.dev].src
    <3>1. IF \E i \in DOMAIN reply.devices : hit(i)
            THEN answer.code = 200 /\ hit(dev) ELSE answer.code = 500
      BY DEF AnswerInv, ReadsAsRegistered
    <3>2. answer.code = 200 => devices'[answer.dev].src = dev
      BY <2>6
    <3> HIDE DEF dev
    <3> QED
      BY <2>2, <2>4, <3>1, <3>2 DEF ReadsAsRegistered
  <2>8. WritesOnceStarted'
    BY <2>2, <2>4, <2>5 DEF AnswerInv, WritesOnceStarted
  <2>9. MethodsOfDevice'
    BY <2>2, <2>4, <2>5 DEF AnswerInv, MethodsOfDevice
  <2> QED
    BY <2>1, <2>2, <2>5, <2>6, <2>7, <2>8, <2>9 DEF AnswerInv
<1> QED
  BY <1>1, <1>2

(* What is common to the handlers' answers.                                *)
LEMMA AnswerFrame ==
  ASSUME RegistryInv, http.pc = "use", NEW code, NEW body, Answers(http, code, body),
         UNCHANGED <<mainVars, managerVars>>
  PROVE  /\ UNCHANGED <<pc, reply, lost, devices>> /\ pc = "running"
         /\ http.url \in Urls /\ http.to = Handler(http.url)
         /\ answer' = [url |-> http.url, to |-> http.to, early |-> http.early,
                       dev |-> http.dev, code |-> code, body |-> body]
BY HttpAtWork DEF Answers, mainVars, managerVars, Idle

(* GET /device/...                                                         *)
LEMMA ReadAnswer ==
  ASSUME RegistryInv, HttpFound, HttpReads
  PROVE  AnswerInv'
<1>1. PICK u : u = http.url
  OBVIOUS
<1>2. PICK d : d = http.dev
  OBVIOUS
<1>3. PICK k : k = FirstTwin(devices[d].twins, Field(u.segs[3]))
  OBVIOUS
<1>4. PICK code, body :
        /\ code \in {200, 500}
        /\ Answers(http, code, body)
        /\ code = 200 <=> d # 0 /\ k # 0
  <2>1. k = TwinNamed(Field(http.url.segs[3]))
    BY <1>1, <1>2, <1>3 DEF TwinNamed, Dev, FirstTwin
  <2>2. \/ d # 0 /\ k # 0 /\ Answers(http, 200, <<Field(http.url.segs[3])>>)
        \/ ~(d # 0 /\ k # 0) /\ Answers(http, 500, <<>>)
    BY <1>2, <2>1 DEF HttpReads
  <2> QED
    BY <2>2
<1>5. http.pc = "use" /\ http.to = "read" /\ UNCHANGED <<mainVars, managerVars>>
  BY DEF HttpReads
<1>6. /\ UNCHANGED <<pc, reply, lost, devices>> /\ pc = "running"
      /\ u \in Urls /\ Handler(u) = "read"
      /\ answer'.url = u /\ answer'.dev = d /\ answer'.code = code
  BY <1>1, <1>2, <1>4, <1>5, AnswerFrame
<1>7. CASE ~Asks("device", 3)'
  BY <1>6, <1>7, AskedHandler
     DEF AnswerInv, ReadsAsRegistered, WritesOnceStarted, MethodsOfDevice
<1>8. CASE Asks("device", 3)'
  <2>1. Complete(u, "device", 3)
    BY <1>6, <1>8, AskedHandler
  <2>2. PICK n : n = u.segs[2]
    OBVIOUS
  <2>3. PICK p : p = u.segs[3]
    OBVIOUS
  <2>4. n \notin Overlong /\ Field(p) = p
    BY <2>1, <2>2, <2>3 DEF Complete, Field
  <2>5. \A i : Serves(n, i)' <=> Serves(n, i)
    BY <1>6, SameServes
  <2>6. PICK e : e = devices[d].src
    OBVIOUS
  <2>7. /\ d = 0 => \A i : ~Serves(n, i)
        /\ d # 0 => /\ d \in 1 .. Len(devices) /\ e \in DOMAIN reply.devices
                    /\ \A i : Serves(n, i) <=> i = e
                    /\ devices[d].props = reply.devices[e].props
    BY <1>1, <1>2, <1>5, <2>2, <2>4, <2>6, FoundDevice
  <2>8. d # 0 => (k # 0 <=> p \in ToSet(reply.devices[e].props))
    BY <1>3, <2>3, <2>4, <2>7, TwinsByName
  <2>9. ReadsAsRegistered'
    <3> DEFINE hit(i) == Serves(n, i) /\ p \in ToSet(reply.devices[i].props)
    <3>1. IF \E i \in DOMAIN reply.devices : hit(i)
            THEN code = 200 /\ hit(e) ELSE code = 500
      <4>1. CASE d = 0
        BY <4>1, <1>4, <2>7
      <4>2. CASE d # 0 /\ k = 0
        BY <4>2, <1>4, <2>7, <2>8
      <4>3. CASE d # 0 /\ k # 0
        BY <4>3, <1>4, <2>7, <2>8
      <4> QED
        BY <4>1, <4>2, <4>3
    <3> QED
      BY <1>6, <2>2, <2>3, <2>5, <2>6, <3>1 DEF ReadsAsRegistered
  <2>10. answer'.code = 200 => answer'.dev \in 1 .. Len(devices')
    BY <1>4, <1>6, <2>7
  <2>11. ~Asks("devicemethod", 5)' /\ ~Asks("devicemethod", 2)'
    BY <1>6, AskedHandler
  <2> QED
    BY <1>6, <2>9, <2>10, <2>11 DEF AnswerInv, WritesOnceStarted, MethodsOfDevice
<1> QED
  BY <1>7, <1>8

(* GET /devicemethod/..., a write.                                         *)
LEMMA WriteAnswer ==
  ASSUME RegistryInv, HttpFound, HttpWrites
  PROVE  AnswerInv'
<1>1. PICK u : u = http.url
  OBVIOUS
<1>2. PICK d : d = http.dev
  OBVIOUS
<1>3. PICK k : k = FirstTwin(devices[d].twins, Field(u.segs[4]))
  OBVIOUS
<1>4. PICK code, body :
        /\ code \in {200, 500}
        /\ Answers(http, code, body)
        /\ code = 200 <=> /\ d # 0 /\ k # 0
                          /\ devices[d].twins[k].bound /\ devices[d].client
  <2>1. k = TwinNamed(Field(http.url.segs[4]))
    BY <1>1, <1>2, <1>3 DEF TwinNamed, Dev, FirstTwin
  <2> DEFINE Set == /\ d # 0 /\ k # 0
                    /\ devices[d].twins[k].bound /\ devices[d].client
  <2>2. \/ Set /\ Answers(http, 200, <<Field(http.url.segs[4])>>)
        \/ ~Set /\ Answers(http, 500, <<>>)
    BY <1>2, <2>1 DEF HttpWrites, devicetwin_set, Dev
  <2>3. CASE Set /\ Answers(http, 200, <<Field(http.url.segs[4])>>)
    BY <2>3
  <2>4. CASE ~Set /\ Answers(http, 500, <<>>)
    BY <2>4
  <2> QED
    BY <2>2, <2>3, <2>4
<1>5. http.pc = "use" /\ http.to = "write" /\ UNCHANGED <<mainVars, managerVars>>
  BY DEF HttpWrites
<1>6. /\ UNCHANGED <<pc, reply, lost, devices>> /\ pc = "running"
      /\ u \in Urls /\ Handler(u) = "write"
      /\ answer'.url = u /\ answer'.to = "write" /\ answer'.code = code
      /\ answer'.early = http.early
  BY <1>1, <1>2, <1>4, <1>5, AnswerFrame
<1>7. ~Asks("device", 3)' /\ ~Asks("devicemethod", 2)'
  BY <1>6, AskedHandler
<1>8. WritesOnceStarted'
  <2> SUFFICES ASSUME Asks("devicemethod", 5)' PROVE WritesOnceStarted'
    BY DEF WritesOnceStarted
  <2>1. Complete(u, "devicemethod", 5)
    BY <1>6, AskedHandler
  <2>2. PICK n : n = u.segs[2]
    OBVIOUS
  <2>3. PICK p : p = u.segs[4]
    OBVIOUS
  <2>4. n \notin Overlong /\ Field(p) = p
    BY <2>1, <2>2, <2>3 DEF Complete, Field
  <2>5. \A i : Serves(n, i)' <=> Serves(n, i)
    BY <1>6, SameServes
  <2>6. PICK e : e = devices[d].src
    OBVIOUS
  <2>7. /\ d = 0 => \A i : ~Serves(n, i)
        /\ d # 0 => /\ d \in 1 .. Len(devices) /\ e \in DOMAIN reply.devices
                    /\ \A i : Serves(n, i) <=> i = e
                    /\ devices[d].props = reply.devices[e].props
                    /\ devices[d].client = reply.devices[e].proto
    BY <1>1, <1>2, <1>5, <2>2, <2>4, <2>6, FoundDevice
  <2>8. d # 0 => /\ k # 0 <=> p \in ToSet(reply.devices[e].props)
                 /\ k # 0 /\ start = "done" => devices[d].twins[k].bound
    BY <1>3, <2>3, <2>4, <2>7, TwinsByName
  <2>9. ~http.early => start = "done"
    BY <1>5 DEF RegistryInv, ServerInv, HttpInv, Idle
  <2> DEFINE hit == \E i \in DOMAIN reply.devices :
                      /\ Serves(n, i) /\ reply.devices[i].proto
                      /\ p \in ToSet(reply.devices[i].props)
  <2>10. hit <=> d # 0 /\ k # 0 /\ devices[d].client
    <3>1. CASE d = 0
      BY <3>1, <2>7
    <3>2. CASE d # 0
      BY <3>2, <2>7, <2>8
    <3> QED
      BY <3>1, <3>2
  <2>11. (code = 200 => hit) /\ (hit /\ ~http.early => code = 200)
    <3> HIDE DEF hit
    <3> QED
      BY <1>4, <2>8, <2>9, <2>10
  <2> QED
    BY <1>6, <2>2, <2>3, <2>5, <2>11 DEF WritesOnceStarted
<1> QED
  BY <1>6, <1>7, <1>8 DEF AnswerInv, ReadsAsRegistered, MethodsOfDevice

(* GET /devicemethod/..., the list of methods.                             *)
LEMMA MethodsAnswer ==
  ASSUME RegistryInv, HttpFound, HttpListsMethods
  PROVE  AnswerInv'
<1>1. PICK u : u = http.url
  OBVIOUS
<1>2. PICK d : d = http.dev
  OBVIOUS
<1>3. PICK body : body = IF d = 0 THEN <<>> ELSE Listed(devices[d].methods)
  OBVIOUS
<1>4. Answers(http, 200, body)
  BY <1>2, <1>3 DEF HttpListsMethods, Dev
<1>5. http.pc = "use" /\ http.to = "methods" /\ UNCHANGED <<mainVars, managerVars>>
  BY DEF HttpListsMethods
<1>6. /\ UNCHANGED <<pc, reply, lost, devices>> /\ pc = "running"
      /\ u \in Urls /\ Handler(u) = "methods"
      /\ answer'.url = u /\ answer'.body = body
  BY <1>1, <1>2, <1>4, <1>5, AnswerFrame
<1>7. ~Asks("device", 3)' /\ ~Asks("devicemethod", 5)'
  BY <1>6, AskedHandler
<1>8. MethodsOfDevice'
  <2> SUFFICES ASSUME Asks("devicemethod", 2)' PROVE MethodsOfDevice'
    BY DEF MethodsOfDevice
  <2>1. Complete(u, "devicemethod", 2)
    BY <1>6, AskedHandler
  <2>2. PICK n : n = u.segs[2]
    OBVIOUS
  <2>3. n \notin Overlong
    BY <2>1, <2>2 DEF Complete
  <2>4. \A i : Serves(n, i)' <=> Serves(n, i)
    BY <1>6, SameServes
  <2>5. ASSUME NEW i \in DOMAIN reply.devices, Serves(n, i),
               NEW m, m = reply.devices[i]
        PROVE  /\ m.props # <<>> => body # <<>>
               /\ (\A k \in DOMAIN m.methods : Len(m.methods[k]) = 1)
                    /\ m.methods # <<>> => body = m.methods
    <3>1. /\ d # 0 /\ i = devices[d].src /\ reply \in Replies
          /\ devices[d].methods = DefaultMethods(m.methods, m.props)
      BY <1>1, <1>2, <1>5, <2>2, <2>3, <2>5, FoundDevice
    <3>2. /\ IsList(m.methods) /\ IsList(m.props)
          /\ \A k \in DOMAIN m.methods : IsList(m.methods[k])
      BY <2>5, <3>1, ReplyAssumption
    <3>3. PICK ms : ms = DefaultMethods(m.methods, m.props)
      OBVIOUS
    <3>4. body = Listed(ms)
      BY <1>3, <3>1, <3>3
    <3>5. IsList(ms) /\ (m.props # <<>> => ms # <<>>)
      <4>1. IsList(<<m.props>>) /\ <<m.props>> # <<>>
        <5>1. <<m.props>> \in Seq({m.props})
          OBVIOUS
        <5> QED
          BY <5>1, SeqIsList
      <4> QED
        BY <4>1, <3>2, <3>3 DEF DefaultMethods
    <3>6. m.methods # <<>> => ms = m.methods
      BY <3>3 DEF DefaultMethods
    <3> QED
      BY <3>2, <3>4, <3>5, <3>6, SinglesListed, MethodsListed
  <2> QED
    BY <1>6, <2>2, <2>4, <2>5 DEF MethodsOfDevice
<1> QED
  BY <1>6, <1>7, <1>8 DEF AnswerInv, ReadsAsRegistered, WritesOnceStarted

(* Every step keeps the answers right.                                     *)
LEMMA AnswerStep ==
  ASSUME RegistryInv, HttpFound, AnswerInv, [Next]_vars
  PROVE  AnswerInv'
<1>1. CASE \E u \in Urls : HttpArrives(u)
  <2>1. PICK u \in Urls : HttpArrives(u)
    BY <1>1
  <2>2. pc' = "running"
    BY <2>1 DEF HttpArrives, mainVars
  <2>3. CASE Handler(u) \in NeedsDevice
    <3>1. answer'.code = 0
      BY <2>1, <2>3 DEF HttpArrives, NoAnswer
    <3> QED
      BY <3>1, NoAnswerYet
  <2>4. CASE Handler(u) \notin NeedsDevice
    <3>1. answer'.url = u
      BY <2>1, <2>4 DEF HttpArrives, Answers
    <3>2. Handler(u) \notin {"read", "write", "methods"}
      BY <2>4 DEF NeedsDevice
    <3> QED
      BY <2>2, <3>1, <3>2, OtherAnswer
  <2> QED
    BY <2>3, <2>4
<1>2. CASE HttpReads \/ HttpWrites \/ HttpListsMethods
  BY <1>2, ReadAnswer, WriteAnswer, MethodsAnswer
<1>3. CASE HttpFindsDevice \/ HttpFindsModel
  <2>1. /\ http.pc = "model" \/ (http.pc = "use" /\ http.to = "model")
        /\ UNCHANGED mainVars /\ (UNCHANGED answer \/ answer'.url = http.url)
    BY <1>3 DEF HttpFindsDevice, HttpFindsModel, Answers
  <2>2. http # Idle
    BY <2>1 DEF Idle
  <2>3. http.to = "model"
    BY <2>1, <2>2 DEF RegistryInv, ServerInv, HttpInv
  <2>4. http.url \in Urls /\ Handler(http.url) = "model" /\ pc' = "running"
    BY <2>1, <2>2, <2>3, HttpAtWork DEF mainVars
  <2> QED
    BY <2>1, <2>4, AnswerStays, OtherAnswer
<1>4. CASE HttpLookup \/ MainStep \/ StartStep \/ RpcStep
             \/ (\E t \in Targets : RpcArrives(t)) \/ Terminated \/ UNCHANGED vars
  <2>1. UNCHANGED answer
    BY <1>4 DEF HttpLookup, MainStep, RegisterFails, Register, InitSkips,
           InitCreateFails, InitAdds, InitAddFails, InitDone, StartStep,
           StartAllLocks, StartsDevice, StartAllUnlocks, RpcStep, RpcFirst,
           RpcSecond, RpcDone, RpcArrives, Terminated, serverVars, vars
  <2> QED
    BY <2>1, AnswerStays
<1> QED
  BY <1>1, <1>2, <1>3, <1>4 DEF Next, HttpStep

LEMMA AnswerInvariant ==
  ASSUME PlainNames
  PROVE  Spec => []AnswerInv
<1>1. Init => AnswerInv
  <2> SUFFICES ASSUME Init PROVE AnswerInv
    OBVIOUS
  <2>1. answer.code = 0
    BY DEF Init, NoAnswer
  <2> QED
    BY <2>1 DEF AnswerInv, Asks, ReadsAsRegistered, WritesOnceStarted, MethodsOfDevice
<1>2. RegistryInv /\ HttpFound /\ AnswerInv /\ [Next]_vars => AnswerInv'
  BY AnswerStep
<1> QED
  BY <1>1, <1>2, HttpFoundInvariant, PTL DEF Spec

(* For every reply, whatever fails on its way: GET /device/... finds       *)
(* exactly the properties of the devices that can be served, and reads the *)
(* device that was registered first under the name.                        *)
THEOREM ReadsRight ==
  ASSUME PlainNames
  PROVE  Spec => []ReadsAsRegistered
<1>1. AnswerInv => ReadsAsRegistered
  BY DEF AnswerInv
<1> QED
  BY <1>1, AnswerInvariant, PTL

(* A write reaches a property of a device with a protocol and no other,    *)
(* and does reach it once the start thread is done.                        *)
THEOREM WritesRight ==
  ASSUME PlainNames
  PROVE  Spec => []WritesOnceStarted
<1>1. AnswerInv => WritesOnceStarted
  BY DEF AnswerInv
<1> QED
  BY <1>1, AnswerInvariant, PTL

(* The methods that are listed are those of the device, or the one that    *)
(* device_new has made up.                                                 *)
THEOREM MethodsRight ==
  ASSUME PlainNames
  PROVE  Spec => []MethodsOfDevice
<1>1. AnswerInv => MethodsOfDevice
  BY DEF AnswerInv
<1> QED
  BY <1>1, AnswerInvariant, PTL
=============================================================================
