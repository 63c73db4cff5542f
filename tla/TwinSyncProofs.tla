-------------------------- MODULE TwinSyncProofs --------------------------
(***************************************************************************)
(* Proofs about TwinSync for any number of twins, handlers, requests and   *)
(* failures: types, and that an undisturbed twin tells the truth about its *)
(* register, the database and the broker.                                  *)
(***************************************************************************)
EXTENDS TwinSync, TLAPS

-----------------------------------------------------------------------------
(* Types, and which deal a call is waiting for.                            *)

Working == {"exec", "report", "record", "publish"}

CallRecord ==
  [pc : {"idle", "force", "sync", "apply", "wait", "direct", "outer", "reply"},
   req : Requests \cup {Idle.req}, idx : Nat \ {0}, ok : BOOLEAN,
   reply : {"none", "ok", "not_found", "invalid"}]

DealRecord ==
  [pc : {"off", "test", "exec", "report", "record", "publish", "over"},
   twin : Twins \cup {0}, val : Values \cup {None}, stale : BOOLEAN,
   lost : BOOLEAN, rc : {0, 1}]

CallInv ==
  /\ call \in [Handlers -> CallRecord]
  /\ \A h \in Handlers : call[h].idx <= Len(Items(h)) + 1

DealInv ==
  \A w \in Writers :
    /\ deal[w].pc # "off" => deal[w].twin \in Twins
    /\ deal[w].pc \in Working => deal[w].val \in Values

TypeInv == TypeOK /\ CallInv /\ DealInv

(* The data thread works on twins that device_start has rebuilt already; a *)
(* handler's deal belongs to the item at which its call waits.             *)
Place ==
  /\ ~started => deal["data"] = Off
  /\ ~deal["data"].lost
  /\ \A w \in Writers : deal[w].pc = "test" => ~deal[w].stale
  /\ \A h \in Handlers :
       /\ deal[h].pc # "off" => call[h].pc = "wait"
       /\ call[h].pc \in {"wait", "sync", "direct"} =>
            More(h) /\ Item(h).val # None
       /\ call[h].pc = "wait" =>
            /\ call[h].req.dev = "known"
            /\ deal[h].twin = TwinOf(Item(h).name, call[h].idx)
            /\ deal[h].twin # 0
       /\ call[h].pc = "idle" => Items(h) = <<>>
       /\ call[h].pc \in {"force", "sync"} => force
       /\ call[h].pc # "reply" => call[h].reply = "none"

Apart == \A n \in Names : ~disturbed[n] => ~Overlap(n)

-----------------------------------------------------------------------------
(* Types.                                                                  *)

ItemRecord == [name : Names, val : Values \cup {None}]

(* The items of a call, and how its record changes.                        *)
LEMMA ItemFacts ==
  ASSUME CallInv, NEW h \in Handlers
  PROVE  /\ Items(h) \in Seq(ItemRecord) /\ Len(Items(h)) \in Nat
         /\ DOMAIN Items(h) = 1 .. Len(Items(h))
         /\ \A i \in DOMAIN Items(h) : Items(h)[i] \in ItemRecord
         /\ call[h] \in CallRecord /\ call[h].idx \in Nat \ {0}
         /\ call[h].idx <= Len(Items(h)) + 1
         /\ More(h) => Item(h).name \in Names /\ Item(h).val \in Values \cup {None}
<1>1. \A r \in Requests \cup {Idle.req} : r.props \in Seq(ItemRecord)
  <2>1. \A r \in Requests : r.props \in Seq(ItemRecord)
    BY TwinAssumption DEF ItemRecord
  <2>2. Idle.req.props = <<>> /\ <<>> \in Seq(ItemRecord)
    BY DEF Idle
  <2>3. ASSUME NEW r \in Requests \cup {Idle.req} PROVE r.props \in Seq(ItemRecord)
    <3>1. CASE r \in Requests
      BY <2>1, <3>1
    <3>2. CASE r = Idle.req
      BY <2>2, <3>2
    <3> QED
      BY <3>1, <3>2
  <2> QED
    BY <2>3
<1>2. call[h] \in CallRecord /\ call[h].idx <= Len(Items(h)) + 1
  BY DEF CallInv
<1>3. Items(h) \in Seq(ItemRecord)
  BY <1>1, <1>2 DEF Items, CallRecord
<1>4. /\ Len(Items(h)) \in Nat /\ DOMAIN Items(h) = 1 .. Len(Items(h))
      /\ \A i \in DOMAIN Items(h) : Items(h)[i] \in ItemRecord
  BY <1>3
<1>5. More(h) => Item(h).name \in Names /\ Item(h).val \in Values \cup {None}
  BY <1>4 DEF More, Item, ItemRecord
<1> QED
  BY <1>2, <1>3, <1>4, <1>5 DEF CallRecord

LEMMA TwinOfType == \A name : \A i \in Nat : TwinOf(name, i) \in Twins \cup {0}
  BY DEF TwinOf

At(c, p) == [c EXCEPT !.pc = p]
Further(c) == [c EXCEPT !.idx = @ + 1]

LEMMA CallOps ==
  ASSUME NEW c \in CallRecord
  PROVE  /\ \A b \in BOOLEAN :
              /\ Done(c, b) \in CallRecord
              /\ Done(c, b).req = c.req /\ Done(c, b).idx = c.idx + 1
              /\ Done(c, b).reply = c.reply
              /\ Done(c, b).pc = (IF c.pc \in {"wait", "direct"} THEN "apply"
                                  ELSE IF c.pc = "sync" THEN "force" ELSE c.pc)
         /\ \A r \in {"ok", "not_found", "invalid"} :
              /\ Ends(c, r) \in CallRecord /\ Ends(c, r).req = c.req
              /\ Ends(c, r).idx = c.idx
              /\ Ends(c, r).pc = "reply" /\ Ends(c, r).reply = r
         /\ \A p \in {"force", "apply", "outer"} :
              /\ Pass(c, p) \in CallRecord /\ Pass(c, p).req = c.req
              /\ Pass(c, p).idx = 1 /\ Pass(c, p).pc = p
              /\ Pass(c, p).reply = c.reply
         /\ \A p \in {"wait", "direct", "sync"} :
              /\ At(c, p) \in CallRecord
              /\ At(c, p).req = c.req /\ At(c, p).idx = c.idx
              /\ At(c, p).pc = p /\ At(c, p).reply = c.reply
         /\ /\ Further(c) \in CallRecord
            /\ Further(c).req = c.req
            /\ Further(c).idx = c.idx + 1
            /\ Further(c).pc = c.pc
            /\ Further(c).reply = c.reply
<1> USE DEF CallRecord
<1>1. \A b \in BOOLEAN :
        /\ Done(c, b) \in CallRecord
        /\ Done(c, b).req = c.req /\ Done(c, b).idx = c.idx + 1
        /\ Done(c, b).reply = c.reply
        /\ Done(c, b).pc = (IF c.pc \in {"wait", "direct"} THEN "apply"
                            ELSE IF c.pc = "sync" THEN "force" ELSE c.pc)
  <2> SUFFICES ASSUME NEW b \in BOOLEAN
               PROVE  /\ Done(c, b) \in CallRecord
                      /\ Done(c, b).req = c.req /\ Done(c, b).idx = c.idx + 1
                      /\ Done(c, b).reply = c.reply
                      /\ Done(c, b).pc = (IF c.pc \in {"wait", "direct"} THEN "apply"
                                          ELSE IF c.pc = "sync" THEN "force" ELSE c.pc)
    OBVIOUS
  <2> DEFINE q == IF c.pc \in {"wait", "direct"} THEN "apply"
                  ELSE IF c.pc = "sync" THEN "force" ELSE c.pc
             k == c.ok \/ b
             n == c.idx + 1
  <2>1. /\ q \in {"idle", "force", "sync", "apply", "wait", "direct", "outer", "reply"}
        /\ k \in BOOLEAN /\ n \in Nat \ {0}
    OBVIOUS
  <2>2. Done(c, b) = [c EXCEPT !.pc = q, !.idx = n, !.ok = k]
    BY DEF Done
  <2> HIDE DEF q, k, n
  <2>3. /\ Done(c, b) \in CallRecord
        /\ Done(c, b).req = c.req /\ Done(c, b).idx = n
        /\ Done(c, b).reply = c.reply /\ Done(c, b).pc = q
    BY <2>1, <2>2
  <2> QED
    BY <2>3 DEF q, n
<1>2. \A r \in {"ok", "not_found", "invalid"} :
        /\ Ends(c, r) \in CallRecord /\ Ends(c, r).req = c.req
        /\ Ends(c, r).idx = c.idx
        /\ Ends(c, r).pc = "reply" /\ Ends(c, r).reply = r
  BY DEF Ends
<1>3. \A p \in {"force", "apply", "outer"} :
        /\ Pass(c, p) \in CallRecord /\ Pass(c, p).req = c.req
        /\ Pass(c, p).idx = 1 /\ Pass(c, p).pc = p
        /\ Pass(c, p).reply = c.reply
  <2> SUFFICES ASSUME NEW p \in {"force", "apply", "outer"}
               PROVE  /\ Pass(c, p) \in CallRecord /\ Pass(c, p).req = c.req
                      /\ Pass(c, p).idx = 1 /\ Pass(c, p).pc = p
                      /\ Pass(c, p).reply = c.reply
    OBVIOUS
  <2> DEFINE n == 1
  <2>1. Pass(c, p) = [c EXCEPT !.pc = p, !.idx = n, !.ok = FALSE]
    BY DEF Pass
  <2>2. n \in Nat \ {0}
    OBVIOUS
  <2> HIDE DEF n
  <2>3. /\ Pass(c, p) \in CallRecord /\ Pass(c, p).req = c.req
        /\ Pass(c, p).idx = n /\ Pass(c, p).pc = p
        /\ Pass(c, p).reply = c.reply
    BY <2>1, <2>2
  <2> QED
    BY <2>3 DEF n
<1>4. \A p \in {"wait", "direct", "sync"} :
        /\ At(c, p) \in CallRecord
        /\ At(c, p).req = c.req /\ At(c, p).idx = c.idx
        /\ At(c, p).pc = p /\ At(c, p).reply = c.reply
  BY DEF At
<1>5. /\ Further(c) \in CallRecord
      /\ Further(c).req = c.req
      /\ Further(c).idx = c.idx + 1
      /\ Further(c).pc = c.pc
      /\ Further(c).reply = c.reply
  BY DEF Further
<1> QED
  BY <1>1, <1>2, <1>3, <1>4, <1>5

LEMMA TypeFacts ==
  ASSUME TypeInv
  PROVE  /\ deal \in [Writers -> DealRecord]
         /\ Twins \subseteq Names /\ Twins \subseteq Nat \ {0}
         /\ Atoi \in [Values -> Nat]
         /\ \A w \in Writers : deal[w].val # None => deal[w].val \in Values
         /\ \A t \in Twins : desired[t] \in Texts
  BY TwinAssumption DEF TypeInv, TypeOK, DealRecord, Twins, Texts

LEMMA DisturbType == \A P : Disturb(P) => disturbed' \in [Names -> BOOLEAN]
<1> SUFFICES ASSUME NEW P, Disturb(P) PROVE disturbed' \in [Names -> BOOLEAN]
  OBVIOUS
<1>1. \A n \in Names : (disturbed[n] \/ n \in P \/ Overlap(n)') \in BOOLEAN
  OBVIOUS
<1> QED
  BY <1>1 DEF Disturb

(* The types of a deal that one step of device_deal_twin leaves.           *)
LEMMA DealTypes ==
  ASSUME TypeInv, NEW w \in Writers, DealStep(w)
  PROVE  TypeInv'
<1>1. /\ deal \in [Writers -> DealRecord] /\ Twins \subseteq Names
      /\ Atoi \in [Values -> Nat] /\ \A t \in Twins : desired[t] \in Texts
      /\ DealInv /\ None \notin Values
  BY TypeFacts, TwinAssumption DEF TypeInv
<1>2. UNCHANGED <<desired, started, next, force, call, sent>>
  BY DEF DealStep, DealTest, DealWrites, DealFails, DealReports, DealRecords,
     DealPublishes, DealFrame
<1>3. CallInv'
  BY <1>2 DEF TypeInv, CallInv, Items
<1>4. disturbed' \in [Names -> BOOLEAN]
  BY DisturbType DEF DealStep, DealTest, DealWrites, DealFails, DealReports,
     DealRecords, DealPublishes
<1>5. deal[w].pc # "off" /\ deal[w].twin \in Twins
  BY <1>1 DEF DealStep, DealTest, DealWrites, DealFails, DealReports,
     DealRecords, DealPublishes, DealInv
<1>6. faults' \in 0 .. MaxFaults
  BY TwinAssumption DEF DealStep, DealTest, DealWrites, DealFails, DealReports,
     DealRecords, DealPublishes, Fault, TypeInv, TypeOK
<1>7. deal' \in [Writers -> DealRecord] /\ DealInv'
  <2>1. CASE DealTest(w)
    <3>1. PICK v \in Values \cup {None} :
            deal' = [deal EXCEPT ![w].pc = IF v = None THEN "over" ELSE "exec",
                                 ![w].val = v]
      <4>1. deal[w].lost \/ desired[deal[w].twin] \in Values \cup {None}
        BY <1>5 DEF TypeInv, TypeOK
      <4> QED
        BY <2>1, <4>1 DEF DealTest
    <3>2. /\ deal' \in [Writers -> DealRecord]
          /\ deal'[w].twin = deal[w].twin /\ deal'[w].val = v
          /\ deal'[w].pc = (IF v = None THEN "over" ELSE "exec")
          /\ \A u \in Writers \ {w} : deal'[u] = deal[u]
      <4> DEFINE a == IF v = None THEN "over" ELSE "exec"
      <4>1. a \in {"over", "exec"} /\ deal' = [deal EXCEPT ![w].pc = a, ![w].val = v]
        BY <3>1
      <4> HIDE DEF a
      <4>2. /\ deal' \in [Writers -> DealRecord]
            /\ deal'[w].twin = deal[w].twin /\ deal'[w].val = v /\ deal'[w].pc = a
            /\ \A u \in Writers \ {w} : deal'[u] = deal[u]
        BY <1>1, <4>1 DEF DealRecord
      <4> QED
        BY <4>2 DEF a
    <3> QED
      BY <1>1, <1>5, <3>2 DEF DealInv, Working
  <2>2. CASE ~DealTest(w)
    <3>1. /\ deal[w].pc \in Working
          /\ \/ \E a \in {"report", "record", "publish"} : deal' = [deal EXCEPT ![w].pc = a]
             \/ \E b \in {0, 1} : deal' = [deal EXCEPT ![w].pc = "over", ![w].rc = b]
      BY <2>2 DEF DealStep, DealWrites, DealFails, DealReports,
         DealRecords, DealPublishes, Working
    <3>2. /\ deal' \in [Writers -> DealRecord]
          /\ deal'[w].twin = deal[w].twin /\ deal'[w].val = deal[w].val
          /\ \A u \in Writers \ {w} : deal'[u] = deal[u]
      BY <1>1, <3>1 DEF DealRecord
    <3> QED
      BY <1>1, <1>5, <3>1, <3>2 DEF DealInv
  <2> QED
    BY <2>1, <2>2
<1>8. /\ register' \in [Names -> Nat]
      /\ reported' \in [Twins -> Texts]
      /\ recorded' \in [Twins -> Texts] /\ published' \in [Twins -> Texts]
  <2>1. Shown(w) \subseteq Texts
    BY <1>1, <1>5 DEF Shown, Texts, DealRecord
  <2>2. deal[w].pc \in Working => Atoi[deal[w].val] \in Nat
    BY <1>1 DEF DealInv
  <2>3. register' \in {register, [register EXCEPT ![deal[w].twin] = Atoi[deal[w].val]]}
        /\ (register' = register \/ deal[w].pc \in Working)
    BY DEF DealStep, DealTest, DealWrites, DealFails, DealReports, DealRecords,
       DealPublishes, pushVars, Working
  <2>4. register' \in [Names -> Nat]
    BY <1>1, <1>5, <2>2, <2>3 DEF TypeInv, TypeOK
  <2>5. /\ reported' = reported
           \/ \E v \in Shown(w) : reported' = [reported EXCEPT ![deal[w].twin] = v]
        /\ recorded' = recorded
           \/ \E v \in Shown(w) : recorded' = [recorded EXCEPT ![deal[w].twin] = v]
        /\ published' = published
           \/ \E v \in Shown(w) : published' = [published EXCEPT ![deal[w].twin] = v]
    BY DEF DealStep, DealTest, DealWrites, DealFails, DealReports, DealRecords,
       DealPublishes, pushVars
  <2>6. /\ reported \in [Twins -> Texts] /\ recorded \in [Twins -> Texts]
        /\ published \in [Twins -> Texts]
    BY DEF TypeInv, TypeOK
  <2> QED
    BY <1>5, <2>1, <2>4, <2>5, <2>6
<1>9. TypeOK'
  BY <1>2, <1>4, <1>6, <1>7, <1>8 DEF TypeInv, TypeOK, DealRecord, Items
<1> QED
  BY <1>3, <1>7, <1>9 DEF TypeInv

(* What one step of UpdateDevice makes of its call.                        *)
CallOnlyStep(h) ==
  \/ SkipItem(h) \/ ApplyTwin(h) \/ ApplyNoTwin(h) \/ WaitEnds(h)
  \/ DirectWrites(h) \/ DirectUnknown(h) \/ DirectFails(h) \/ ForceSync(h)
  \/ ForceEnds(h) \/ ApplyEnds(h) \/ OuterEnds(h) \/ Reply(h)

Becomes(h, c) == call'[h] = c

LEMMA CallTo ==
  ASSUME TypeInv, NEW h \in Handlers
  PROVE  /\ SkipItem(h) => Becomes(h, Further(call[h]))
         /\ ApplyTwin(h) => Becomes(h, At(call[h], "wait"))
         /\ ApplyNoTwin(h) => Becomes(h, At(call[h], "direct"))
         /\ WaitEnds(h) =>
              \/ deal[h].rc = 0 /\ Becomes(h, Done(call[h], TRUE))
              \/ Becomes(h, At(call[h], "direct"))
         /\ DirectWrites(h) =>
              IF call[h].pc = "force" THEN Becomes(h, At(call[h], "sync"))
                                      ELSE Becomes(h, Done(call[h], TRUE))
         /\ DirectUnknown(h) \/ DirectFails(h) => Becomes(h, Done(call[h], FALSE))
         /\ ForceSync(h) => Becomes(h, Done(call[h], TRUE))
         /\ ForceEnds(h) => \/ Becomes(h, Ends(call[h], "ok"))
                            \/ Becomes(h, Pass(call[h], "apply"))
         /\ ApplyEnds(h) => \/ Becomes(h, Ends(call[h], "ok"))
                            \/ Becomes(h, Pass(call[h], "outer"))
         /\ OuterEnds(h) => \/ Becomes(h, Ends(call[h], "ok"))
                            \/ Becomes(h, Ends(call[h], "not_found"))
         /\ Reply(h) => Becomes(h, Idle)
         /\ CallOnlyStep(h) => \A g \in Handlers \ {h} : call'[g] = call[g]
<1>1. call \in [Handlers -> CallRecord]
  BY DEF TypeInv, CallInv
<1> USE DEF Becomes, At, Further
<1>2. SkipItem(h) => Becomes(h, Further(call[h]))
  BY <1>1 DEF SkipItem
<1>3. ApplyTwin(h) => Becomes(h, At(call[h], "wait"))
  BY <1>1 DEF ApplyTwin
<1>4. ApplyNoTwin(h) => Becomes(h, At(call[h], "direct"))
  BY <1>1 DEF ApplyNoTwin
<1>5. WaitEnds(h) =>
        \/ deal[h].rc = 0 /\ Becomes(h, Done(call[h], TRUE))
        \/ Becomes(h, At(call[h], "direct"))
  BY <1>1 DEF WaitEnds
<1>6. DirectWrites(h) =>
        IF call[h].pc = "force" THEN Becomes(h, At(call[h], "sync"))
                                ELSE Becomes(h, Done(call[h], TRUE))
  BY <1>1 DEF DirectWrites
<1>7. DirectUnknown(h) \/ DirectFails(h) => Becomes(h, Done(call[h], FALSE))
  BY <1>1 DEF DirectUnknown, DirectFails
<1>8. ForceSync(h) => Becomes(h, Done(call[h], TRUE))
  BY <1>1 DEF ForceSync
<1>9. ForceEnds(h) => \/ Becomes(h, Ends(call[h], "ok"))
                      \/ Becomes(h, Pass(call[h], "apply"))
  BY <1>1 DEF ForceEnds
<1>10. ApplyEnds(h) => \/ Becomes(h, Ends(call[h], "ok"))
                       \/ Becomes(h, Pass(call[h], "outer"))
  BY <1>1 DEF ApplyEnds
<1>11. OuterEnds(h) => \/ Becomes(h, Ends(call[h], "ok"))
                       \/ Becomes(h, Ends(call[h], "not_found"))
  BY <1>1 DEF OuterEnds
<1>12. Reply(h) => Becomes(h, Idle)
  BY <1>1 DEF Reply
<1>13. CallOnlyStep(h) => \A g \in Handlers \ {h} : call'[g] = call[g]
  BY <1>1 DEF CallOnlyStep, SkipItem, ApplyTwin, ApplyNoTwin, WaitEnds,
     DirectWrites, DirectUnknown, DirectFails, ForceSync, ForceEnds, ApplyEnds,
     OuterEnds, Reply
<1> QED
  BY <1>2, <1>3, <1>4, <1>5, <1>6, <1>7, <1>8, <1>9, <1>10, <1>11, <1>12, <1>13

LEMMA IdleType == Idle \in CallRecord /\ Idle.pc = "idle" /\ Idle.idx = 1
                  /\ Idle.req.props = <<>> /\ Idle.req.dev = "absent"
                  /\ Idle.reply = "none"
<1> DEFINE n == 1
           q == Idle.req
<1>1. n \in Nat \ {0} /\ q \in Requests \cup {Idle.req}
  OBVIOUS
<1>2. /\ Idle = [pc |-> "idle", req |-> q, idx |-> n, ok |-> FALSE, reply |-> "none"]
      /\ q.props = <<>> /\ q.dev = "absent"
  BY DEF Idle
<1> HIDE DEF n, q
<1>3. Idle \in CallRecord /\ Idle.pc = "idle" /\ Idle.idx = n /\ Idle.req = q
      /\ Idle.reply = "none"
  BY <1>1, <1>2 DEF CallRecord
<1> QED
  BY <1>2, <1>3 DEF n

(* A call keeps its request until the reply and never goes past its items. *)
LEMMA CallKeeps ==
  ASSUME TypeInv, Place, NEW h \in Handlers, CallOnlyStep(h)
  PROVE  /\ call' \in [Handlers -> CallRecord] /\ CallInv'
         /\ IF Reply(h) THEN call'[h] = Idle ELSE call'[h].req = call[h].req
<1>1. /\ call \in [Handlers -> CallRecord] /\ call[h] \in CallRecord
      /\ \A g \in Handlers : call[g].idx <= Len(Items(g)) + 1
  BY DEF TypeInv, CallInv
<1>2. \E c : call' = [call EXCEPT ![h] = c]
  BY <1>1 DEF CallOnlyStep, SkipItem, ApplyTwin, ApplyNoTwin, WaitEnds,
     DirectWrites, DirectUnknown, DirectFails, ForceSync, ForceEnds, ApplyEnds,
     OuterEnds, Reply
<1>3. /\ Len(Items(h)) \in Nat /\ DOMAIN Items(h) = 1 .. Len(Items(h))
      /\ call[h].idx \in Nat \ {0}
  BY ItemFacts DEF TypeInv
<1>4. IF Reply(h) THEN call'[h] = Idle
      ELSE call'[h] \in CallRecord /\ call'[h].req = call[h].req
           /\ call'[h].idx <= Len(Items(h)) + 1
  <2>1. CASE SkipItem(h)
    <3>1. More(h) /\ call[h].pc # "reply" /\ call'[h] = Further(call[h])
      BY <2>1, CallTo DEF SkipItem, Becomes
    <3>2. call'[h] \in CallRecord /\ call'[h].req = call[h].req
          /\ call'[h].idx = call[h].idx + 1
      BY <1>1, <3>1, CallOps
    <3> QED
      BY <1>3, <3>1, <3>2 DEF More, Reply
  <2>2. CASE ApplyTwin(h) \/ ApplyNoTwin(h)
    <3>1. /\ call[h].pc # "reply"
          /\ call'[h] \in {At(call[h], "wait"), At(call[h], "direct")}
      BY <2>2, CallTo DEF ApplyTwin, ApplyNoTwin, Due, Becomes
    <3>2. call'[h] \in CallRecord /\ call'[h].req = call[h].req
          /\ call'[h].idx = call[h].idx
      BY <1>1, <3>1, CallOps
    <3> QED
      BY <1>1, <3>1, <3>2 DEF Reply
  <2>3. CASE \/ WaitEnds(h) \/ DirectWrites(h) \/ DirectUnknown(h)
             \/ DirectFails(h) \/ ForceSync(h)
    <3>1. call[h].pc # "reply" /\ More(h)
      BY <2>3 DEF WaitEnds, DirectWrites, DirectUnknown, DirectFails, Due,
         ForceSync, Place
    <3>2. call'[h] \in {At(call[h], "direct"), At(call[h], "sync"),
                        Done(call[h], TRUE), Done(call[h], FALSE)}
      BY <2>3, CallTo DEF Becomes
    <3>3. call'[h] \in CallRecord /\ call'[h].req = call[h].req
          /\ call'[h].idx \in {call[h].idx, call[h].idx + 1}
      <4>1. CASE call'[h] \in {At(call[h], "direct"), At(call[h], "sync")}
        BY <1>1, <4>1, CallOps
      <4>2. CASE \E b \in BOOLEAN : call'[h] = Done(call[h], b)
        BY <1>1, <4>2, CallOps
      <4> QED
        BY <3>2, <4>1, <4>2
    <3> QED
      BY <1>3, <3>1, <3>3 DEF More, Reply
  <2>4. CASE ForceEnds(h) \/ ApplyEnds(h) \/ OuterEnds(h)
    <3>1. call[h].pc # "reply"
      BY <2>4 DEF ForceEnds, ApplyEnds, OuterEnds
    <3>2. call'[h] \in {Ends(call[h], "ok"), Ends(call[h], "not_found"),
                        Pass(call[h], "apply"), Pass(call[h], "outer")}
      BY <2>4, CallTo DEF Becomes
    <3>3. call'[h] \in CallRecord /\ call'[h].req = call[h].req
          /\ call'[h].idx \in {call[h].idx, 1}
      BY <1>1, <3>2, CallOps
    <3> QED
      BY <1>1, <1>3, <3>1, <3>3 DEF Reply
  <2>5. CASE Reply(h)
    BY <2>5, CallTo DEF Becomes
  <2> QED
    BY <2>1, <2>2, <2>3, <2>4, <2>5 DEF CallOnlyStep
<1>5. call'[h] \in CallRecord /\ call'[h].idx <= Len(Items(h)') + 1
  BY <1>4, IdleType DEF Items
<1>6. \A g \in Handlers \ {h} : call'[g] = call[g]
  BY CallTo
<1>7. call' \in [Handlers -> CallRecord]
  BY <1>1, <1>2, <1>5
<1>8. CallInv'
  BY <1>1, <1>5, <1>6, <1>7 DEF CallInv, Items
<1> QED
  BY <1>4, <1>7, <1>8

LEMMA StaleFacts ==
  ASSUME TypeInv, NEW h \in Handlers, NEW t
  PROVE  /\ Stale(h, t) \in [Writers -> DealRecord]
         /\ \A w \in Writers :
              LET d == Stale(h, t)[w] IN
              /\ d.pc = deal[w].pc /\ d.twin = deal[w].twin /\ d.val = deal[w].val
              /\ d.lost = deal[w].lost /\ d.rc = deal[w].rc
              /\ d.stale = (deal[w].stale \/ (w # h /\ deal[w].twin = t
                              /\ deal[w].pc \notin {"test", "over"}))
<1>1. deal \in [Writers -> DealRecord]
  BY TypeFacts
<1>2. ASSUME NEW w \in Writers
      PROVE  LET d == Stale(h, t)[w] IN
             /\ d \in DealRecord
             /\ d.pc = deal[w].pc /\ d.twin = deal[w].twin /\ d.val = deal[w].val
             /\ d.lost = deal[w].lost /\ d.rc = deal[w].rc
             /\ d.stale = (deal[w].stale \/ (w # h /\ deal[w].twin = t
                             /\ deal[w].pc \notin {"test", "over"}))
  <2> DEFINE b == deal[w].stale \/ (w # h /\ deal[w].twin = t
                                    /\ deal[w].pc \notin {"test", "over"})
             e == [deal[w] EXCEPT !.stale = b]
  <2>1. Stale(h, t)[w] = e
    BY DEF Stale
  <2>2. b \in BOOLEAN
    BY <1>1 DEF DealRecord
  <2> HIDE DEF b
  <2>3. /\ e \in DealRecord
        /\ e.pc = deal[w].pc /\ e.twin = deal[w].twin /\ e.val = deal[w].val
        /\ e.lost = deal[w].lost /\ e.rc = deal[w].rc /\ e.stale = b
    BY <1>1, <2>2 DEF DealRecord
  <2> QED
    BY <2>1, <2>3 DEF b
<1>3. Stale(h, t) \in [Writers -> DealRecord]
  BY <1>2 DEF Stale
<1> QED
  BY <1>2, <1>3

LEMMA OffFacts ==
  /\ Off \in DealRecord /\ Off.pc = "off" /\ Off.twin = 0 /\ ~Off.lost /\ ~Off.stale
  /\ \A t \in Twins :
       LET d == [Off EXCEPT !.pc = "test", !.twin = t] IN
       /\ d \in DealRecord /\ d.pc = "test" /\ d.twin = t /\ ~d.lost /\ ~d.stale
BY DEF Off, DealRecord

(* The types of what a step of UpdateDevice leaves.                        *)
LEMMA CallTypes ==
  ASSUME TypeInv, Place, NEW h \in Handlers, CallOnlyStep(h)
  PROVE  TypeInv'
<1>1. /\ deal \in [Writers -> DealRecord] /\ Twins \subseteq Names
      /\ Twins \subseteq Nat \ {0}
      /\ Atoi \in [Values -> Nat] /\ DealInv /\ h \in Writers
  BY TypeFacts DEF TypeInv, Writers
<1>2. UNCHANGED <<pushVars, started, next, force, sent>>
  BY DEF CallOnlyStep, SkipItem, ApplyTwin, ApplyNoTwin, WaitEnds, CallFrame,
     DirectWrites, DirectUnknown, DirectFails, ForceSync, ForceEnds, ApplyEnds,
     OuterEnds, Reply, CallOnly
<1>3. CallInv' /\ call' \in [Handlers -> CallRecord]
  BY CallKeeps
<1>4. disturbed' \in [Names -> BOOLEAN]
  BY DisturbType DEF CallOnlyStep, SkipItem, ApplyTwin, ApplyNoTwin, WaitEnds,
     DirectWrites, DirectUnknown, DirectFails, ForceSync, ForceEnds, ApplyEnds,
     OuterEnds, Reply
<1>5. faults' \in 0 .. MaxFaults
  <2>1. faults' = faults \/ Fault
    BY DEF CallOnlyStep, SkipItem, ApplyTwin, ApplyNoTwin, WaitEnds,
       DirectWrites, DirectUnknown, DirectFails, ForceSync, ForceEnds, ApplyEnds,
       OuterEnds, Reply, CallOnly, CallFrame
  <2>2. faults \in 0 .. MaxFaults /\ MaxFaults \in Nat
    BY TwinAssumption DEF TypeInv, TypeOK
  <2> QED
    BY <2>1, <2>2 DEF Fault
<1>6. More(h) => Item(h).name \in Names /\ Item(h).val \in Values \cup {None}
  BY ItemFacts DEF TypeInv
<1>7. /\ deal' \in [Writers -> DealRecord] /\ DealInv'
      /\ desired' \in [Twins -> Values \cup {None}]
      /\ reported' \in [Twins -> Texts]
  <2>1. desired \in [Twins -> Values \cup {None}] /\ reported \in [Twins -> Texts]
    BY DEF TypeInv, TypeOK
  <2>2. CASE ApplyTwin(h)
    <3> DEFINE t == TwinOf(Item(h).name, call[h].idx)
               d == [Off EXCEPT !.pc = "test", !.twin = t]
    <3>1. /\ t # 0 /\ More(h)
          /\ deal' = [Stale(h, t) EXCEPT ![h] = d]
          /\ desired' = [desired EXCEPT ![t] = Item(h).val]
          /\ reported' = reported
      BY <2>2 DEF ApplyTwin, Due
    <3>2. t \in Twins
      <4>1. call[h].idx \in Nat
        BY ItemFacts DEF TypeInv
      <4> QED
        BY <3>1, <4>1, TwinOfType
    <3>3. d \in DealRecord /\ d.pc = "test" /\ d.twin = t
      BY <3>2, OffFacts
    <3> HIDE DEF t, d
    <3>4. deal' \in [Writers -> DealRecord] /\ deal'[h] = d
          /\ \A w \in Writers \ {h} : deal'[w] = Stale(h, t)[w]
      BY <1>1, <3>1, <3>3, StaleFacts
    <3>5. DealInv'
      BY <1>1, <3>2, <3>3, <3>4, StaleFacts DEF DealInv, Working
    <3> QED
      BY <1>6, <2>1, <3>1, <3>2, <3>4, <3>5
  <2>3. CASE ForceSync(h)
    <3>1. /\ \/ deal' = deal
             \/ deal' = Stale(h, Item(h).name)
          /\ More(h)
          /\ \/ UNCHANGED <<desired, reported>>
             \/ /\ Item(h).name \in Twins
                /\ desired' = [desired EXCEPT ![Item(h).name] = Item(h).val]
                /\ reported' = [reported EXCEPT ![Item(h).name] = Item(h).val]
      BY <2>3 DEF ForceSync, twinVars, Place
    <3>2. deal' \in [Writers -> DealRecord] /\ DealInv'
      BY <1>1, <3>1, StaleFacts DEF DealInv
    <3> QED
      BY <1>6, <2>1, <3>1, <3>2 DEF Texts
  <2>4. CASE WaitEnds(h)
    <3>1. deal' = [deal EXCEPT ![h] = Off] /\ UNCHANGED <<desired, reported>>
      BY <2>4 DEF WaitEnds, twinVars
    <3> QED
      BY <1>1, <2>1, <3>1, OffFacts DEF DealInv, Working
  <2>5. CASE ~ApplyTwin(h) /\ ~ForceSync(h) /\ ~WaitEnds(h)
    <3>1. UNCHANGED <<deal, desired, reported>>
      BY <2>5 DEF CallOnlyStep, SkipItem, ApplyNoTwin, DirectWrites, DirectUnknown,
         DirectFails, ForceEnds, ApplyEnds, OuterEnds, Reply, CallOnly, CallFrame,
         twinVars
    <3> QED
      BY <1>1, <2>1, <3>1 DEF DealInv
  <2> QED
    BY <2>2, <2>3, <2>4, <2>5
<1>8. register' \in [Names -> Nat]
  <2>1. \/ register' = register
        \/ /\ More(h) /\ Item(h).val # None
           /\ register' = [register EXCEPT ![Item(h).name] = Atoi[Item(h).val]]
    BY DEF CallOnlyStep, SkipItem, ApplyTwin, ApplyNoTwin, WaitEnds,
       DirectWrites, DirectUnknown, DirectFails, ForceSync, ForceEnds, ApplyEnds,
       OuterEnds, Reply, CallOnly, CallFrame, Due
  <2>2. Item(h).val \in Values => Atoi[Item(h).val] \in Nat
    BY <1>1
  <2> QED
    BY <1>6, <2>1, <2>2 DEF TypeInv, TypeOK
<1>9. TypeOK'
  <2>1. ASSUME NEW g \in Handlers
        PROVE  /\ call'[g] \in CallRecord
               /\ (call[g].idx \in 1 .. Len(Items(g)) + 1)'
    <3>1. /\ (call[g].idx <= Len(Items(g)) + 1)' /\ call'[g] \in CallRecord
          /\ Len(Items(g)') \in Nat
      BY <1>3, ItemFacts DEF CallInv
    <3> QED
      BY <3>1 DEF CallRecord
  <2> QED
    BY <1>2, <1>4, <1>5, <1>7, <1>8, <2>1
       DEF TypeInv, TypeOK, DealRecord, CallRecord, pushVars
<1> QED
  BY <1>3, <1>7, <1>9 DEF TypeInv

(* The remaining steps: requests, device_start and the data thread's loop. *)
OtherStep ==
  \/ Rebuild \/ DataPolls \/ DataSimulates \/ DataNext
  \/ \E h \in Handlers : \E r \in Requests : Receive(h, r)

LEMMA NextCases ==
  ASSUME [Next]_vars
  PROVE  \/ \E w \in Writers : DealStep(w)
         \/ \E h \in Handlers : CallOnlyStep(h)
         \/ OtherStep \/ UNCHANGED vars
BY DEF Next, DataStep, CallStep, CallOnlyStep, OtherStep, Writers

LEMMA Received ==
  ASSUME TypeInv, NEW h \in Handlers, NEW r \in Requests, Receive(h, r)
  PROVE  /\ call' \in [Handlers -> CallRecord] /\ CallInv'
         /\ \A g \in Handlers \ {h} : call'[g] = call[g]
         /\ call'[h].req = r /\ call'[h].idx = 1
         /\ call'[h].pc \in {"reply", "force", "apply"}
         /\ call'[h].pc = "force" => force
         /\ call'[h].pc = "reply" => call'[h].reply = "invalid"
         /\ call'[h].pc # "reply" => call'[h].reply = "none"
<1> DEFINE c == [Idle EXCEPT !.req = r]
<1>1. c \in CallRecord /\ c.req = r /\ c.reply = "none"
  <2>1. Idle \in CallRecord /\ r \in Requests \cup {Idle.req} /\ Idle.reply = "none"
    BY IdleType
  <2> QED
    BY <2>1 DEF CallRecord
<1>2. /\ Ends(c, "invalid") \in CallRecord /\ Ends(c, "invalid").req = r
      /\ Ends(c, "invalid").pc = "reply" /\ Ends(c, "invalid").reply = "invalid"
      /\ Ends(c, "invalid").idx = 1
  <2>1. c.idx = 1
    BY DEF Idle
  <2> HIDE DEF c
  <2> QED
    BY <1>1, <2>1, CallOps
<1>3. \A p \in {"force", "apply"} :
        /\ Pass(c, p) \in CallRecord /\ Pass(c, p).req = r
        /\ Pass(c, p).pc = p /\ Pass(c, p).idx = 1
        /\ Pass(c, p).reply = "none"
  <2> HIDE DEF c
  <2> QED
    BY <1>1, CallOps
<1>4. \E x \in {Ends(c, "invalid"), Pass(c, "force"), Pass(c, "apply")} :
        /\ call' = [call EXCEPT ![h] = x]
        /\ x = Pass(c, "force") => force
  BY <1>2, <1>3 DEF Receive
<1> HIDE DEF c
<1>5. PICK x \in {Ends(c, "invalid"), Pass(c, "force"), Pass(c, "apply")} :
        /\ call' = [call EXCEPT ![h] = x]
        /\ x = Pass(c, "force") => force
  BY <1>4
<1>6. /\ x \in CallRecord /\ x.req = r /\ x.idx = 1
      /\ x.pc \in {"reply", "force", "apply"}
      /\ x.pc = "force" => force
      /\ x.pc = "reply" => x.reply = "invalid"
      /\ x.pc # "reply" => x.reply = "none"
  BY <1>2, <1>3, <1>5
<1>7. call \in [Handlers -> CallRecord] /\ \A g \in Handlers : call[g].idx <= Len(Items(g)) + 1
  BY DEF TypeInv, CallInv
<1>8. call' \in [Handlers -> CallRecord] /\ call'[h] = x
      /\ \A g \in Handlers \ {h} : call'[g] = call[g]
  BY <1>5, <1>6, <1>7
<1>9. Len(Items(h)') \in Nat
  <2>1. Items(h)' = r.props
    BY <1>6, <1>8 DEF Items
  <2> QED
    BY <2>1, TwinAssumption
<1>10. CallInv'
  BY <1>6, <1>7, <1>8, <1>9 DEF CallInv, Items
<1> QED
  BY <1>6, <1>8, <1>10

LEMMA OtherTypes == TypeInv /\ (OtherStep \/ UNCHANGED vars) => TypeInv'
<1> SUFFICES ASSUME TypeInv, OtherStep \/ UNCHANGED vars PROVE TypeInv'
  OBVIOUS
<1>1. /\ deal \in [Writers -> DealRecord] /\ DealInv /\ TypeOK /\ CallInv
      /\ "data" \in Writers /\ 0 \notin Twins
  BY TypeFacts DEF TypeInv, Writers
<1>2. CASE \E h \in Handlers : \E r \in Requests : Receive(h, r)
  <2>1. PICK h \in Handlers, r \in Requests : Receive(h, r)
    BY <1>2
  <2>2. call' \in [Handlers -> CallRecord] /\ CallInv'
    BY <2>1, Received
  <2>3. /\ UNCHANGED <<twinVars, register, deal, faults, pushVars, started, next, force>>
        /\ disturbed' \in [Names -> BOOLEAN] /\ sent' = sent + 1 + Len(r.props)
        /\ sent' <= MaxWork
    BY <2>1, DisturbType DEF Receive, CallFrame
  <2>4. sent' \in 0 .. MaxWork
    <3> DEFINE k == Len(r.props)
    <3>1. k \in Nat /\ MaxWork \in Nat /\ sent \in Nat
      BY <1>1, TwinAssumption DEF TypeOK
    <3>2. sent' = sent + 1 + k /\ sent' <= MaxWork
      BY <2>3
    <3> HIDE DEF k
    <3> QED
      BY <3>1, <3>2
  <2>5. ASSUME NEW g \in Handlers
        PROVE  /\ call'[g] \in CallRecord
               /\ (call[g].idx \in 1 .. Len(Items(g)) + 1)'
    <3>1. (call[g].idx <= Len(Items(g)) + 1)' /\ call'[g] \in CallRecord
      BY <2>2 DEF CallInv
    <3>2. Len(Items(g)') \in Nat
      <4>1. Items(g)' = Items(g) \/ Items(g)' = r.props
        BY <2>1, Received DEF Items
      <4> QED
        BY <1>1, <4>1, ItemFacts, TwinAssumption
    <3> QED
      BY <3>1, <3>2 DEF CallRecord
  <2> QED
    BY <1>1, <2>2, <2>3, <2>4, <2>5
       DEF TypeInv, TypeOK, DealInv, CallRecord, twinVars, pushVars
<1>3. CASE Rebuild
  <2>1. ASSUME NEW w \in Writers
        PROVE  /\ deal'[w] \in DealRecord
               /\ deal'[w].pc = deal[w].pc /\ deal'[w].twin = deal[w].twin
               /\ deal'[w].val = deal[w].val
    <3> DEFINE b == deal[w].lost \/ deal[w] # Off
    <3>1. b \in BOOLEAN /\ deal'[w] = [deal[w] EXCEPT !.lost = b]
      BY <1>1, <1>3 DEF Rebuild, DealRecord
    <3> HIDE DEF b
    <3> QED
      BY <1>1, <3>1 DEF DealRecord
  <2>2. deal' \in [Writers -> DealRecord] /\ DealInv'
    BY <1>1, <1>3, <2>1 DEF Rebuild, DealInv
  <2>3. CallInv'
    BY <1>1, <1>3 DEF Rebuild, CallInv, Items
  <2>4. disturbed' \in [Names -> BOOLEAN]
    BY <1>3, DisturbType DEF Rebuild
  <2> QED
    BY <1>1, <1>3, <2>2, <2>3, <2>4
       DEF Rebuild, TypeInv, TypeOK, DealRecord, Items, pushVars, Texts
<1>4. CASE DataPolls \/ DataSimulates \/ DataNext \/ UNCHANGED vars
  <2>1. /\ UNCHANGED <<desired, register, published, started, force, call, sent, faults>>
        /\ disturbed' \in [Names -> BOOLEAN]
    BY <1>1, <1>4, DisturbType DEF DataPolls, DataSimulates, DataNext, vars,
       twinVars, pushVars, TypeOK
  <2>2. next' \in Twins
    <3>1. NumTwins \in Nat \ {0} /\ next \in Twins
      BY <1>1, TwinAssumption DEF TypeOK
    <3>2. next % NumTwins \in 0 .. (NumTwins - 1)
      BY <3>1, SMT DEF Twins
    <3>3. next' = next \/ Advance
      BY <1>4 DEF DataPolls, DataSimulates, DataNext, vars
    <3> QED
      BY <3>1, <3>2, <3>3 DEF Advance, Twins
  <2>3. reported' \in [Twins -> Texts] /\ recorded' \in [Twins -> Texts]
    <3>1. \/ UNCHANGED <<reported, recorded>>
          \/ \E v \in Readings : /\ reported' = [reported EXCEPT ![next] = v]
                                 /\ recorded' = [recorded EXCEPT ![next] = v]
      BY <1>4 DEF DataPolls, DataSimulates, DataNext, vars, twinVars, pushVars
    <3>2. Readings \subseteq Texts
      BY TwinAssumption DEF Texts
    <3> QED
      BY <1>1, <3>1, <3>2 DEF TypeOK
  <2>4. deal' \in [Writers -> DealRecord] /\ DealInv'
    <3>1. CASE UNCHANGED deal
      BY <1>1, <3>1 DEF DealInv
    <3>2. CASE DataPolls
      <4> DEFINE d == [Off EXCEPT !.pc = "test", !.twin = next]
      <4>1. d \in DealRecord /\ d.pc = "test" /\ d.twin \in Twins
        BY <1>1, OffFacts DEF TypeOK
      <4>2. deal' = [deal EXCEPT !["data"] = d]
        BY <3>2 DEF DataPolls
      <4> HIDE DEF d
      <4> QED
        BY <1>1, <4>1, <4>2 DEF DealInv, Working
    <3>3. CASE DataNext
      BY <1>1, <3>3, OffFacts DEF DataNext, DealInv, Working
    <3> QED
      BY <1>4, <3>1, <3>2, <3>3 DEF DataSimulates, vars
  <2>5. CallInv'
    BY <1>1, <2>1 DEF CallInv, Items
  <2> QED
    BY <1>1, <2>1, <2>2, <2>3, <2>4, <2>5 DEF TypeInv, TypeOK, DealRecord, Items
<1> QED
  BY <1>2, <1>3, <1>4 DEF OtherStep

-----------------------------------------------------------------------------
(* Places of the code.                                                     *)

LEMMA DealKeeps ==
  ASSUME TypeInv, NEW w \in Writers, DealStep(w)
  PROVE  /\ UNCHANGED <<desired, started, next, force, call, sent>>
         /\ \A u \in Writers \ {w} : deal'[u] = deal[u]
         /\ deal'[w].twin = deal[w].twin /\ deal'[w].stale = deal[w].stale
         /\ deal'[w].lost = deal[w].lost
         /\ deal[w].pc # "off" /\ deal'[w].pc # "off" /\ deal'[w].pc # "test"
<1>1. deal \in [Writers -> DealRecord]
  BY TypeFacts
<1>2. UNCHANGED <<desired, started, next, force, call, sent>>
  BY DEF DealStep, DealTest, DealWrites, DealFails, DealReports, DealRecords,
     DealPublishes, DealFrame
<1>3. deal[w].pc # "off"
  BY DEF DealStep, DealTest, DealWrites, DealFails, DealReports, DealRecords,
     DealPublishes
<1>4. \/ \E a \in {"over", "exec"} : \E v : deal' = [deal EXCEPT ![w].pc = a, ![w].val = v]
      \/ \E a \in {"report", "record", "publish"} : deal' = [deal EXCEPT ![w].pc = a]
      \/ \E b : deal' = [deal EXCEPT ![w].pc = "over", ![w].rc = b]
  <2>1. CASE DealTest(w)
    <3>1. PICK v : deal' = [deal EXCEPT ![w].pc = IF v = None THEN "over" ELSE "exec",
                                        ![w].val = v]
      BY <2>1 DEF DealTest
    <3> DEFINE a == IF v = None THEN "over" ELSE "exec"
    <3>2. a \in {"over", "exec"} /\ deal' = [deal EXCEPT ![w].pc = a, ![w].val = v]
      BY <3>1
    <3> HIDE DEF a
    <3> QED
      BY <3>2
  <2>2. CASE ~DealTest(w)
    BY <2>2 DEF DealStep, DealWrites, DealFails, DealReports, DealRecords,
       DealPublishes
  <2> QED
    BY <2>1, <2>2
<1> QED
  BY <1>1, <1>2, <1>3, <1>4 DEF DealRecord

LEMMA StaleOff ==
  ASSUME TypeInv, NEW h \in Handlers, NEW t, t # 0, deal["data"] = Off
  PROVE  Stale(h, t)["data"] = Off
<1>1. "data" \in Writers
  BY DEF Writers
<1> DEFINE b == deal["data"].stale \/ ("data" # h /\ deal["data"].twin = t
                                       /\ deal["data"].pc \notin {"test", "over"})
<1>2. Stale(h, t)["data"] = [Off EXCEPT !.stale = b]
  BY <1>1 DEF Stale
<1>3. b = FALSE
  BY OffFacts
<1> HIDE DEF b
<1> QED
  BY <1>2, <1>3 DEF Off

LEMMA StaleTest ==
  ASSUME TypeInv, Place, NEW h \in Handlers, NEW t, NEW w \in Writers,
         Stale(h, t)[w].pc = "test"
  PROVE  ~Stale(h, t)[w].stale
<1> DEFINE d == Stale(h, t)[w]
<1>1. /\ d.pc = deal[w].pc
      /\ d.stale = (deal[w].stale \/ (w # h /\ deal[w].twin = t
                                     /\ deal[w].pc \notin {"test", "over"}))
  BY StaleFacts
<1>2. deal[w].pc = "test" /\ ~deal[w].stale
  BY <1>1 DEF Place
<1> QED
  BY <1>1, <1>2

LEMMA PlaceStep == TypeInv /\ Place /\ [Next]_vars => Place'
<1> SUFFICES ASSUME TypeInv, Place, [Next]_vars PROVE Place'
  OBVIOUS
<1>1. /\ deal \in [Writers -> DealRecord] /\ DealInv /\ "data" \in Writers
      /\ Handlers \subseteq Writers /\ "data" \notin Handlers
      /\ Twins \subseteq Nat \ {0}
  BY TypeFacts, TwinAssumption DEF TypeInv, Writers
<1>2. ASSUME NEW w \in Writers, DealStep(w) PROVE Place'
  <2>1. w = "data" => started
    <3>1. deal[w].pc # "off"
      BY <1>2, DealKeeps
    <3> QED
      BY <3>1, OffFacts DEF Place
  <2> QED
    BY <1>1, <1>2, <2>1, DealKeeps DEF Place, Items, Item, More
<1>3. ASSUME NEW h \in Handlers, CallOnlyStep(h) PROVE Place'
  <2>1. UNCHANGED <<started, force>>
    BY <1>3 DEF CallOnlyStep, SkipItem, ApplyTwin, ApplyNoTwin, WaitEnds,
       CallFrame, DirectWrites, DirectUnknown, DirectFails, ForceSync, ForceEnds,
       ApplyEnds, OuterEnds, Reply, CallOnly
  <2>2. \A g \in Handlers \ {h} : call'[g] = call[g]
    BY <1>3, CallTo
  <2>3. /\ deal'["data"].lost = deal["data"].lost
        /\ deal["data"] = Off => deal'["data"] = Off
        /\ \A g \in Handlers \ {h} :
             deal'[g].pc = deal[g].pc /\ deal'[g].twin = deal[g].twin
    <3>1. CASE ApplyTwin(h)
      <4>1. PICK t, d : t # 0 /\ deal' = [Stale(h, t) EXCEPT ![h] = d]
        BY <3>1 DEF ApplyTwin
      <4>2. \A w \in Writers \ {h} : deal'[w] = Stale(h, t)[w]
        BY <4>1, StaleFacts
      <4> QED
        BY <1>1, <4>1, <4>2, StaleFacts, StaleOff
    <3>2. CASE ForceSync(h)
      <4>1. deal' = deal \/ (Item(h).name \in Twins /\ deal' = Stale(h, Item(h).name))
        BY <3>2 DEF ForceSync
      <4> QED
        BY <1>1, <4>1, StaleFacts, StaleOff
    <3>3. CASE ~ApplyTwin(h) /\ ~ForceSync(h)
      BY <1>1, <1>3, <3>3 DEF CallOnlyStep, SkipItem, ApplyNoTwin, WaitEnds,
         DirectWrites, DirectUnknown, DirectFails, ForceEnds, ApplyEnds,
         OuterEnds, Reply, CallOnly
    <3> QED
      BY <3>1, <3>2, <3>3
  <2>4. /\ call[h] \in CallRecord /\ deal[h] \in DealRecord
        /\ IF Reply(h) THEN call'[h] = Idle ELSE call'[h].req = call[h].req
    BY <1>1, <1>3, CallKeeps DEF TypeInv, CallInv
  <2>5. /\ deal'[h].pc # "off" => call'[h].pc = "wait"
        /\ call'[h].pc \in {"wait", "sync", "direct"} =>
             (More(h) /\ Item(h).val # None)'
        /\ call'[h].pc = "wait" =>
             /\ call'[h].req.dev = "known"
             /\ deal'[h].twin = TwinOf(Item(h)'.name, call'[h].idx)
             /\ deal'[h].twin # 0
        /\ call'[h].pc = "idle" => Items(h)' = <<>>
        /\ call'[h].pc \in {"force", "sync"} => force
    <3>1. CASE ApplyTwin(h)
      <4> DEFINE t == TwinOf(Item(h).name, call[h].idx)
                 d == [Off EXCEPT !.pc = "test", !.twin = t]
      <4>1. /\ t # 0 /\ More(h) /\ call[h].req.dev = "known" /\ Item(h).val # None
            /\ deal' = [Stale(h, t) EXCEPT ![h] = d]
        BY <3>1 DEF ApplyTwin, Due
      <4>2. t \in Twins
        BY <4>1, TwinOfType, ItemFacts DEF TypeInv
      <4>3. d.twin = t
        BY <4>2, OffFacts
      <4> HIDE DEF d
      <4>4. deal'[h] = d
        BY <1>1, <4>1, StaleFacts
      <4>5. call'[h] = At(call[h], "wait")
        BY <3>1, CallTo DEF Becomes
      <4>6. call'[h].pc = "wait" /\ call'[h].req = call[h].req /\ call'[h].idx = call[h].idx
        BY <2>4, <4>5, CallOps
      <4> QED
        BY <4>1, <4>3, <4>4, <4>6 DEF More, Item, Items
    <3>2. CASE WaitEnds(h)
      <4>1. deal'[h].pc = "off" /\ call[h].pc = "wait"
        BY <1>1, <3>2, OffFacts DEF WaitEnds
      <4>2. call'[h] \in {Done(call[h], TRUE), At(call[h], "direct")}
        BY <3>2, CallTo DEF Becomes
      <4>3. CASE call'[h] = Done(call[h], TRUE)
        <5>1. \E b \in BOOLEAN : call'[h] = Done(call[h], b)
          BY <4>3
        <5>2. call'[h].pc = "apply"
          BY <2>4, <4>1, <5>1, CallOps
        <5> QED
          BY <4>1, <5>2
      <4>4. CASE call'[h] = At(call[h], "direct")
        <5>1. call'[h].pc = "direct" /\ call'[h].req = call[h].req
              /\ call'[h].idx = call[h].idx
          BY <2>4, <4>4, CallOps
        <5> QED
          BY <4>1, <5>1 DEF Place, More, Item, Items
      <4> QED
        BY <4>2, <4>3, <4>4
    <3>3. CASE ~ApplyTwin(h) /\ ~WaitEnds(h)
      <4>1. call[h].pc # "wait" /\ call[h].pc # "idle"
        BY <1>3, <3>3 DEF CallOnlyStep, SkipItem, ApplyNoTwin, DirectWrites,
           DirectUnknown, DirectFails, ForceSync, ForceEnds, ApplyEnds, OuterEnds,
           Reply, Due
      <4>2. deal'[h].pc = deal[h].pc
        <5>1. deal' = deal \/ deal' = Stale(h, Item(h).name)
          BY <1>3, <3>3 DEF CallOnlyStep, SkipItem, ApplyNoTwin, DirectWrites,
             DirectUnknown, DirectFails, ForceSync, ForceEnds, ApplyEnds,
             OuterEnds, Reply, CallOnly
        <5> QED
          BY <1>1, <5>1, StaleFacts
      <4>3. deal'[h].pc = "off"
        BY <4>1, <4>2 DEF Place
      <4>4. CASE SkipItem(h)
        <5>1. call'[h] = Further(call[h]) /\ call[h].pc \in {"force", "apply", "outer"}
          BY <4>4, CallTo DEF Becomes, SkipItem
        <5>2. call'[h].pc = call[h].pc
          BY <2>4, <5>1, CallOps
        <5> QED
          BY <4>3, <5>1, <5>2 DEF Place
      <4>5. CASE ApplyNoTwin(h)
        <5>1. call'[h] = At(call[h], "direct") /\ More(h) /\ Item(h).val # None
          BY <4>5, CallTo DEF Becomes, ApplyNoTwin, Due
        <5>2. call'[h].pc = "direct" /\ call'[h].req = call[h].req
              /\ call'[h].idx = call[h].idx
          BY <2>4, <5>1, CallOps
        <5> QED
          BY <4>3, <5>1, <5>2 DEF More, Item, Items
      <4>6. CASE DirectWrites(h) /\ call[h].pc = "force"
        <5>1. call'[h] = At(call[h], "sync") /\ More(h) /\ Item(h).val # None /\ force
          BY <4>6, CallTo DEF Becomes, DirectWrites, Due, Place
        <5>2. call'[h].pc = "sync" /\ call'[h].req = call[h].req
              /\ call'[h].idx = call[h].idx
          BY <2>4, <5>1, CallOps
        <5> QED
          BY <4>3, <5>1, <5>2 DEF More, Item, Items
      <4>7. CASE \/ DirectWrites(h) /\ call[h].pc # "force"
                 \/ DirectUnknown(h) \/ DirectFails(h) \/ ForceSync(h)
        <5>1. /\ call[h].pc \in {"force", "direct", "outer", "sync"}
              /\ call[h].pc \in {"force", "sync"} => force
          BY <4>7 DEF DirectWrites, DirectUnknown, DirectFails, ForceSync, Due, Place
        <5>2. \E b \in BOOLEAN : call'[h] = Done(call[h], b)
          BY <4>7, CallTo DEF Becomes
        <5>3. /\ call'[h].pc \in {"force", "apply", "outer"}
              /\ call'[h].pc = "force" => force
          BY <2>4, <5>1, <5>2, CallOps
        <5> QED
          BY <4>3, <5>3
      <4>8. CASE ForceEnds(h) \/ ApplyEnds(h) \/ OuterEnds(h)
        <5>1. call'[h] \in {Ends(call[h], "ok"), Ends(call[h], "not_found"),
                            Pass(call[h], "apply"), Pass(call[h], "outer")}
          BY <4>8, CallTo DEF Becomes
        <5>2. call'[h].pc \in {"reply", "apply", "outer"}
          BY <2>4, <5>1, CallOps
        <5> QED
          BY <4>3, <5>2
      <4>9. CASE Reply(h)
        <5>1. call'[h] = Idle
          BY <4>9, CallTo DEF Becomes
        <5>2. call'[h].pc = "idle" /\ Items(h)' = <<>>
          BY <5>1, IdleType DEF Items
        <5> QED
          BY <4>3, <5>2
      <4> QED
        BY <1>3, <3>3, <4>4, <4>5, <4>6, <4>7, <4>8, <4>9 DEF CallOnlyStep
    <3> QED
      BY <3>1, <3>2, <3>3
  <2>6. ASSUME NEW w \in Writers, deal'[w].pc = "test" PROVE ~deal'[w].stale
    <3>1. CASE ApplyTwin(h)
      <4> DEFINE t == TwinOf(Item(h).name, call[h].idx)
                 d == [Off EXCEPT !.pc = "test", !.twin = t]
      <4>1. t # 0 /\ More(h) /\ deal' = [Stale(h, t) EXCEPT ![h] = d]
        BY <3>1 DEF ApplyTwin, Due
      <4>2. t \in Twins
        BY <4>1, TwinOfType, ItemFacts DEF TypeInv
      <4>3. ~d.stale
        BY <4>2, OffFacts
      <4> HIDE DEF d, t
      <4>4. IF w = h THEN deal'[w] = d ELSE deal'[w] = Stale(h, t)[w]
        BY <1>1, <4>1, StaleFacts
      <4>5. CASE w = h
        BY <4>3, <4>4, <4>5
      <4>6. CASE w # h
        <5>1. deal'[w] = Stale(h, t)[w]
          BY <4>4, <4>6
        <5> QED
          BY <2>6, <5>1, StaleTest
      <4> QED
        BY <4>5, <4>6
    <3>2. CASE WaitEnds(h)
      <4>1. IF w = h THEN deal'[w] = Off ELSE deal'[w] = deal[w]
        BY <1>1, <3>2, OffFacts DEF WaitEnds
      <4> QED
        BY <2>6, <4>1, OffFacts DEF Place
    <3>3. CASE ~ApplyTwin(h) /\ ~WaitEnds(h)
      <4>1. deal' = deal \/ deal' = Stale(h, Item(h).name)
        BY <1>3, <3>3 DEF CallOnlyStep, SkipItem, ApplyNoTwin, DirectWrites,
           DirectUnknown, DirectFails, ForceSync, ForceEnds, ApplyEnds,
           OuterEnds, Reply, CallOnly
      <4>2. CASE deal' = deal
        BY <2>6, <4>2 DEF Place
      <4>3. CASE deal' = Stale(h, Item(h).name)
        <5>1. deal'[w] = Stale(h, Item(h).name)[w]
          BY <4>3
        <5> QED
          BY <2>6, <5>1, StaleTest
      <4> QED
        BY <4>1, <4>2, <4>3
    <3> QED
      BY <3>1, <3>2, <3>3
  <2>7. call'[h].pc # "reply" => call'[h].reply = "none"
    <3>1. CASE Reply(h)
      BY <2>4, <3>1, IdleType
    <3>2. CASE ~Reply(h)
      <4>1. call[h].reply = "none"
        BY <1>3, <3>2 DEF CallOnlyStep, SkipItem, ApplyTwin, ApplyNoTwin, WaitEnds,
           DirectWrites, DirectUnknown, DirectFails, ForceSync, ForceEnds,
           ApplyEnds, OuterEnds, Due, Place
      <4>2. \/ call'[h] = Further(call[h])
            \/ \E q \in {"wait", "direct", "sync"} : call'[h] = At(call[h], q)
            \/ \E q \in {"apply", "outer"} : call'[h] = Pass(call[h], q)
            \/ \E b \in BOOLEAN : call'[h] = Done(call[h], b)
            \/ \E r \in {"ok", "not_found"} : call'[h] = Ends(call[h], r)
        BY <1>3, <3>2, CallTo DEF CallOnlyStep, Becomes
      <4> QED
        BY <2>4, <4>1, <4>2, CallOps
    <3> QED
      BY <3>1, <3>2
  <2> QED
    BY <2>1, <2>2, <2>3, <2>5, <2>6, <2>7 DEF Place, More, Item, Items
<1>4. CASE OtherStep \/ UNCHANGED vars
  <2>1. CASE \E h \in Handlers : \E r \in Requests : Receive(h, r)
    <3>1. PICK h \in Handlers, r \in Requests : Receive(h, r)
      BY <2>1
    <3>2. UNCHANGED <<deal, started, force>> /\ call[h].pc = "idle"
      BY <3>1, IdleType DEF Receive, CallFrame
    <3>3. deal[h].pc = "off"
      BY <3>2 DEF Place
    <3> QED
      BY <3>1, <3>2, <3>3, Received DEF Place, More, Item, Items
  <2>2. CASE Rebuild
    <3>1. \A w \in Writers : /\ deal'[w].pc = deal[w].pc /\ deal'[w].twin = deal[w].twin
                             /\ deal'[w].stale = deal[w].stale
      BY <1>1, <2>2 DEF Rebuild, DealRecord
    <3>2. ~deal'["data"].lost
      <4>1. deal["data"] = Off
        BY <2>2 DEF Rebuild, Place
      <4>2. deal'["data"] = [Off EXCEPT !.lost = FALSE]
        BY <1>1, <2>2, <4>1, OffFacts DEF Rebuild
      <4> QED
        BY <4>2 DEF Off
    <3> QED
      BY <1>1, <2>2, <3>1, <3>2 DEF Rebuild, Place, More, Item, Items
  <2>3. CASE DataPolls \/ DataSimulates \/ DataNext \/ UNCHANGED vars
    <3>1. UNCHANGED <<call, started, force>>
      BY <2>3 DEF DataPolls, DataSimulates, DataNext, vars
    <3>2. /\ \A h \in Handlers : deal'[h] = deal[h]
          /\ ~deal'["data"].lost
          /\ ~started => deal'["data"] = Off
          /\ deal'["data"].pc = "test" => ~deal'["data"].stale
      <4>1. CASE DataPolls
        <5>1. next \in Twins /\ started
          BY <4>1 DEF DataPolls, TypeInv, TypeOK
        <5> DEFINE d == [Off EXCEPT !.pc = "test", !.twin = next]
        <5>2. ~d.lost /\ ~d.stale /\ deal' = [deal EXCEPT !["data"] = d]
          BY <4>1, <5>1, OffFacts DEF DataPolls
        <5> HIDE DEF d
        <5> QED
          BY <1>1, <5>1, <5>2
      <4>2. CASE DataNext
        BY <1>1, <4>2, OffFacts DEF DataNext
      <4>3. CASE UNCHANGED deal
        BY <1>1, <4>3 DEF Place
      <4> QED
        BY <2>3, <4>1, <4>2, <4>3 DEF DataSimulates, vars
    <3> QED
      BY <3>1, <3>2 DEF Place, More, Item, Items, Writers
  <2> QED
    BY <1>4, <2>1, <2>2, <2>3 DEF OtherStep
<1> QED
  BY <1>2, <1>3, <1>4, NextCases

LEMMA TypeStep == TypeInv /\ Place /\ [Next]_vars => TypeInv'
BY DealTypes, CallTypes, OtherTypes, NextCases

=============================================================================
