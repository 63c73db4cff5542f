--------------------------- MODULE TwinSyncTruth ---------------------------
(***************************************************************************)
(* Proofs about TwinSync, second part: a writable twin that no overlap, no *)
(* failed command and no write past it has disturbed tells the truth about *)
(* its register, the database and the broker, for any number of twins,     *)
(* handlers, requests and failures. TwinSyncProofs has the types and the   *)
(* places of the code this part rests on.                                  *)
(***************************************************************************)
EXTENDS TwinSyncProofs

-----------------------------------------------------------------------------
(* What is true of a writable twin p that nothing has disturbed.           *)

Clean(p) == Kind[p] = "writable" /\ ~disturbed[p]

(* A deal at work on p holds the desired value of p.                       *)
DealOwn(w, p) ==
  deal[w].twin = p =>
    /\ deal[w].pc \in Working =>
         ~deal[w].stale /\ ~deal[w].lost /\ deal[w].val = desired[p]
    /\ deal[w].pc = "report" => register[p] = Atoi[desired[p]]
    /\ deal[w].pc \in {"record", "publish"} => reported[p] = desired[p]
    /\ deal[w].pc = "publish" /\ ~force => recorded[p] = desired[p]

(* Item i of s names p, has a value, and none of the items before n that   *)
(* follow it serves p with another one.                                    *)
Latest(s, p, i, n) ==
  /\ i \in DOMAIN s /\ i < n
  /\ s[i].name = p /\ s[i].val # None
  /\ \A j \in DOMAIN s :
       i < j /\ j < n => TwinOf(s[j].name, j) # p \/ s[j].val = None

(* The items of call c handled so far, as far as a twin is concerned;      *)
(* mine: its deal is at work on that twin.                                 *)
Upto(c, mine) ==
  CASE c.pc \in {"force", "sync", "apply"} -> c.idx
    [] c.pc = "wait"   -> IF mine THEN 1 ELSE c.idx
    [] c.pc = "direct" -> c.idx + 1
    [] c.pc = "outer"  -> Len(c.req.props) + 1
    [] c.pc = "reply" /\ c.reply = "ok" -> Len(c.req.props) + 1
    [] OTHER -> 1

Told(h, p) ==          \* the twin reports the last of those items
  call[h].req.dev = "known" =>
    \A i \in DOMAIN Items(h) :
      Latest(Items(h), p, i, Upto(call[h], deal[h].twin = p)) =>
        reported[p] = Items(h)[i].val

CallOwn(h, p) ==
  /\ call[h].pc = "wait" /\ deal[h].twin = p =>
       /\ desired[p] = Item(h).val
       /\ deal[h].pc = "test" => ~deal[h].lost
       /\ deal[h].pc = "over" => reported[p] = desired[p]
  /\ call[h].pc = "sync" /\ Item(h).name = p =>
       call[h].req.dev = "known" /\ register[p] = Atoi[Item(h).val]
  /\ Told(h, p)

Own(w, p) == DealOwn(w, p) /\ (w \in Handlers => CallOwn(w, p))

(* The register is ahead of the twin: between a write and the report of it *)
(* and while the last pass repeats values that later items replace.        *)
Repeats(s, p, n) ==
  \E i, j \in DOMAIN s :
    /\ i < n /\ n <= j
    /\ s[i].name = p /\ s[i].val # None
    /\ s[j].name = p /\ s[j].val # None

Ahead(w, p) ==
  \/ deal[w].pc = "report" /\ deal[w].twin = p
  \/ /\ w \in Handlers
     /\ \/ call[w].pc = "outer" /\ Repeats(Items(w), p, call[w].idx)
        \/ call[w].pc = "sync" /\ Item(w).name = p

Good(p) == reported[p] # None => register[p] = Atoi[reported[p]]

Unpublished(w, p) == deal[w].pc \in {"record", "publish"} /\ deal[w].twin = p

Pushed(p) ==
  reported[p] # None => recorded[p] = reported[p] /\ published[p] = reported[p]

CleanInv(p) ==
  Clean(p) =>
    /\ \A w \in Writers : Own(w, p)
    /\ (\A w \in Writers : ~Ahead(w, p)) => Good(p)
    /\ ~force /\ (\A w \in Writers : ~Unpublished(w, p)) => Pushed(p)

TwinInv == TypeInv /\ Place /\ Apart /\ \A p \in Twins : CleanInv(p)

-----------------------------------------------------------------------------
(* One writer at a time. Writers that are not active on p say nothing of   *)
(* it, so that a step of w concerns w alone.                               *)

Solo(w, p) ==
  /\ Own(w, p)
  /\ ~Ahead(w, p) => Good(p)
  /\ ~force /\ ~Unpublished(w, p) => Pushed(p)

(* What a step of w leaves alone.                                          *)
Frame(w, p) ==
  /\ force' = force
  /\ \A v \in Writers \ {w} :
       /\ deal'[v].pc = deal[v].pc /\ deal'[v].twin = deal[v].twin
       /\ deal'[v].val = deal[v].val /\ deal'[v].lost = deal[v].lost
       /\ v \in Handlers => call'[v] = call[v]
  /\ ~Active(w, p) =>
       /\ desired'[p] = desired[p] /\ reported'[p] = reported[p]
       /\ register'[p] = register[p]
       /\ recorded'[p] = recorded[p] /\ published'[p] = published[p]
       /\ \A v \in Writers \ {w} :
            deal[v].twin = p => deal'[v].stale = deal[v].stale

LEMMA Away ==
  ASSUME TypeInv, Place, NEW p \in Twins, NEW w \in Writers, ~Active(w, p)
  PROVE  Own(w, p) /\ ~Ahead(w, p) /\ ~Unpublished(w, p)
<1>1. CASE w = "data"
  <2>1. w \notin Handlers
    BY <1>1, TwinAssumption
  <2>2. deal[w].twin = p => deal[w].pc \notin Working
    BY <1>1 DEF Active, Working
  <2> QED
    BY <2>1, <2>2 DEF Own, DealOwn, Ahead, Unpublished, Working
<1>2. CASE w # "data"
  <2>1. w \in Handlers
    BY <1>2 DEF Writers
  <2>2. \A i \in DOMAIN Items(w) : /\ Items(w)[i].name # p
                                   /\ TwinOf(Items(w)[i].name, i) # p
    BY <1>2 DEF Active
  <2>3. deal[w].pc # "off" => deal[w].twin # p
    BY <2>1, <2>2 DEF Place, More, Item
  <2>4. ~(call[w].pc = "wait" /\ deal[w].twin = p)
    BY <2>1, <2>2 DEF Place, More, Item
  <2>5. ~(call[w].pc = "sync" /\ Item(w).name = p)
    BY <2>1, <2>2 DEF Place, More, Item
  <2>6. Told(w, p) /\ \A n : ~Repeats(Items(w), p, n)
    BY <2>2 DEF Told, Latest, Repeats
  <2> QED
    BY <2>1, <2>3, <2>4, <2>5, <2>6
       DEF Own, DealOwn, CallOwn, Ahead, Unpublished, Working
<1> QED
  BY <1>1, <1>2

LEMMA AwayAfter ==
  ASSUME TypeInv', Place', NEW p \in Twins, NEW w \in Writers, ~Active(w, p)'
  PROVE  (Own(w, p) /\ ~Ahead(w, p) /\ ~Unpublished(w, p))'
<1>1. CASE w = "data"
  <2>1. w \notin Handlers
    BY <1>1, TwinAssumption
  <2>2. deal'[w].twin = p => deal'[w].pc \notin Working
    BY <1>1 DEF Active, Working
  <2> QED
    BY <2>1, <2>2 DEF Own, DealOwn, Ahead, Unpublished, Working
<1>2. CASE w # "data"
  <2>1. w \in Handlers
    BY <1>2 DEF Writers
  <2>2. \A i \in DOMAIN Items(w)' : /\ Items(w)'[i].name # p
                                    /\ TwinOf(Items(w)'[i].name, i) # p
    BY <1>2 DEF Active
  <2>3. deal'[w].pc # "off" => deal'[w].twin # p
    BY <2>1, <2>2 DEF Place, More, Item
  <2>4. ~(call'[w].pc = "wait" /\ deal'[w].twin = p)
    BY <2>1, <2>2 DEF Place, More, Item
  <2>5. ~(call'[w].pc = "sync" /\ Item(w)'.name = p)
    BY <2>1, <2>2 DEF Place, More, Item
  <2>6. Told(w, p)' /\ \A n : ~Repeats(Items(w)', p, n)
    BY <2>2 DEF Told, Latest, Repeats
  <2> QED
    BY <2>1, <2>3, <2>4, <2>5, <2>6
       DEF Own, DealOwn, CallOwn, Ahead, Unpublished, Working
<1> QED
  BY <1>1, <1>2

LEMMA Glue ==
  ASSUME TypeInv, Place, TypeInv', Place', NEW p \in Twins, NEW w \in Writers,
         CleanInv(p), Clean(p), ~Overlap(p), ~Overlap(p)', Frame(w, p),
         Solo(w, p) => Solo(w, p)'
  PROVE  CleanInv(p)'
<1>1. \A v \in Writers \ {w} : Active(v, p)' <=> Active(v, p)
  BY DEF Frame, Active, Items, Writers
<1>2. CASE \E v \in Writers \ {w} : Active(v, p)
  <2>1. ~Active(w, p) /\ ~Active(w, p)'
    BY <1>1, <1>2 DEF Overlap
  <2>2. /\ desired'[p] = desired[p] /\ reported'[p] = reported[p]
        /\ register'[p] = register[p]
        /\ recorded'[p] = recorded[p] /\ published'[p] = published[p]
        /\ force' = force
    BY <2>1 DEF Frame
  <2>3. ASSUME NEW u \in Writers \ {w}
        PROVE  /\ Own(u, p)'
               /\ Ahead(u, p)' <=> Ahead(u, p)
               /\ Unpublished(u, p)' <=> Unpublished(u, p)
    <3>1. /\ deal'[u].pc = deal[u].pc /\ deal'[u].twin = deal[u].twin
          /\ deal'[u].val = deal[u].val /\ deal'[u].lost = deal[u].lost
          /\ deal[u].twin = p => deal'[u].stale = deal[u].stale
          /\ u \in Handlers => call'[u] = call[u]
      BY <2>1 DEF Frame
    <3>2. u \in Handlers => Items(u)' = Items(u) /\ Item(u)' = Item(u)
      BY <3>1 DEF Item, Items
    <3>3. Own(u, p)
      BY DEF CleanInv
    <3>4. DealOwn(u, p)'
      BY <2>2, <3>1, <3>3 DEF Own, DealOwn
    <3>5. u \in Handlers => CallOwn(u, p)'
      BY <2>2, <3>1, <3>2, <3>3 DEF Own, CallOwn, Told
    <3>6. Ahead(u, p)' <=> Ahead(u, p)
      BY <3>1, <3>2 DEF Ahead
    <3>7. Unpublished(u, p)' <=> Unpublished(u, p)
      BY <3>1 DEF Unpublished
    <3> QED
      BY <3>4, <3>5, <3>6, <3>7 DEF Own
  <2>4. /\ Own(w, p)' /\ ~Ahead(w, p) /\ ~Unpublished(w, p)
        /\ ~Ahead(w, p)' /\ ~Unpublished(w, p)'
    BY <2>1, Away, AwayAfter
  <2>5. \A u \in Writers : Own(u, p)'
    BY <2>3, <2>4
  <2>6. (\A u \in Writers : ~Ahead(u, p)') => Good(p)'
    <3>1. (\A u \in Writers : ~Ahead(u, p)') => \A u \in Writers : ~Ahead(u, p)
      BY <2>3, <2>4
    <3>2. Good(p) => Good(p)'
      BY <2>2 DEF Good
    <3> QED
      BY <3>1, <3>2 DEF CleanInv
  <2>7. ~force' /\ (\A u \in Writers : ~Unpublished(u, p)') => Pushed(p)'
    <3>1. (\A u \in Writers : ~Unpublished(u, p)') =>
             \A u \in Writers : ~Unpublished(u, p)
      BY <2>3, <2>4
    <3>2. Pushed(p) => Pushed(p)'
      BY <2>2 DEF Pushed
    <3> QED
      BY <2>2, <3>1, <3>2 DEF CleanInv
  <2> QED
    BY <2>5, <2>6, <2>7 DEF CleanInv
<1>3. CASE \A v \in Writers \ {w} : ~Active(v, p)
  <2>1. \A v \in Writers \ {w} :
          /\ ~Ahead(v, p) /\ ~Unpublished(v, p)
          /\ Own(v, p)' /\ ~Ahead(v, p)' /\ ~Unpublished(v, p)'
    BY <1>1, <1>3, Away, AwayAfter
  <2>2. Solo(w, p)
    <3>1. ~Ahead(w, p) => Good(p)
      BY <2>1 DEF CleanInv
    <3>2. ~force /\ ~Unpublished(w, p) => Pushed(p)
      BY <2>1 DEF CleanInv
    <3> QED
      BY <3>1, <3>2 DEF CleanInv, Solo
  <2>3. Solo(w, p)'
    BY <2>2
  <2> QED
    BY <2>1, <2>3 DEF CleanInv, Solo
<1> QED
  BY <1>2, <1>3

-----------------------------------------------------------------------------
(* The items handled so far.                                               *)

LEMMA UptoIs ==
  ASSUME NEW c, NEW mine
  PROVE  /\ c.pc \in {"force", "sync", "apply"} => Upto(c, mine) = c.idx
         /\ c.pc = "wait" => Upto(c, mine) = IF mine THEN 1 ELSE c.idx
         /\ c.pc = "direct" => Upto(c, mine) = c.idx + 1
         /\ c.pc = "outer" => Upto(c, mine) = Len(c.req.props) + 1
         /\ c.pc = "reply" /\ c.reply = "ok" => Upto(c, mine) = Len(c.req.props) + 1
         /\ c.pc = "reply" /\ c.reply # "ok" => Upto(c, mine) = 1
         /\ c.pc = "idle" => Upto(c, mine) = 1
BY DEF Upto

(* One more item: it is the latest, it is no part of the matter, or it     *)
(* serves p and nothing before it counts.                                  *)
LEMMA LatestFacts ==
  ASSUME NEW s \in Seq(ItemRecord), NEW p \in Twins, NEW i \in DOMAIN s,
         NEW n \in Nat
  PROVE  /\ ~Latest(s, p, i, 1)
         /\ Latest(s, p, i, n + 1) /\ i # n => Latest(s, p, i, n)
         /\ Latest(s, p, i, n + 1) /\ n \in DOMAIN s /\ s[n].val # None
              /\ TwinOf(s[n].name, n) = p => i = n
         /\ n \in DOMAIN s /\ s[n].name = p /\ s[n].val # None
              => Latest(s, p, n, n + 1)
<1>1. DOMAIN s \subseteq Nat \ {0} /\ i \in Nat \ {0}
  OBVIOUS
<1>2. ~Latest(s, p, i, 1)
  BY <1>1 DEF Latest
<1>3. Latest(s, p, i, n + 1) /\ i # n => Latest(s, p, i, n)
  BY <1>1 DEF Latest
<1>4. Latest(s, p, i, n + 1) /\ n \in DOMAIN s /\ s[n].val # None
        /\ TwinOf(s[n].name, n) = p => i = n
  BY <1>1 DEF Latest
<1>5. n \in DOMAIN s /\ s[n].name = p /\ s[n].val # None
        => Latest(s, p, n, n + 1)
  BY <1>1 DEF Latest
<1> QED
  BY <1>2, <1>3, <1>4, <1>5

(* The last pass: an item that is not for p may be passed over, and none   *)
(* is left at the end.                                                     *)
LEMMA RepeatFacts ==
  ASSUME NEW s \in Seq(ItemRecord), NEW p \in Twins, NEW n \in Nat \ {0}
  PROVE  /\ n \in DOMAIN s /\ (s[n].name # p \/ s[n].val = None)
              /\ ~Repeats(s, p, n + 1) => ~Repeats(s, p, n)
         /\ n \notin DOMAIN s => ~Repeats(s, p, n)
         /\ ~Repeats(s, p, 1)
<1>1. DOMAIN s = 1 .. Len(s) /\ Len(s) \in Nat
  OBVIOUS
<1>2. n \in DOMAIN s /\ (s[n].name # p \/ s[n].val = None)
        /\ ~Repeats(s, p, n + 1) => ~Repeats(s, p, n)
  <2> SUFFICES ASSUME n \in DOMAIN s, s[n].name # p \/ s[n].val = None,
                      Repeats(s, p, n)
               PROVE  Repeats(s, p, n + 1)
    OBVIOUS
  <2>1. PICK i, j \in DOMAIN s : /\ i < n /\ n <= j
                                 /\ s[i].name = p /\ s[i].val # None
                                 /\ s[j].name = p /\ s[j].val # None
    BY DEF Repeats
  <2>2. j # n
    BY <2>1
  <2>3. i < n + 1 /\ n + 1 <= j
    BY <1>1, <2>1, <2>2
  <2> QED
    BY <2>1, <2>3 DEF Repeats
<1>3. n \notin DOMAIN s => ~Repeats(s, p, n)
  BY <1>1 DEF Repeats
<1>4. ~Repeats(s, p, 1)
  BY <1>1 DEF Repeats
<1> QED
  BY <1>2, <1>3, <1>4

-----------------------------------------------------------------------------
(* device_deal_twin.                                                       *)

LEMMA WorksOn ==
  ASSUME TypeInv, Place, NEW w \in Writers, deal[w].pc \in Working
  PROVE  Active(w, deal[w].twin)
<1>1. CASE w = "data"
  BY <1>1 DEF Active, Working
<1>2. CASE w # "data"
  <2>1. w \in Handlers
    BY <1>2 DEF Writers
  <2>2. /\ call[w].idx \in DOMAIN Items(w)
        /\ deal[w].twin = TwinOf(Items(w)[call[w].idx].name, call[w].idx)
    BY <2>1 DEF Place, Working, More, Item
  <2> QED
    BY <1>2, <2>2 DEF Active
<1> QED
  BY <1>1, <1>2

LEMMA DealFramed ==
  ASSUME TypeInv, Place, NEW w \in Writers, DealStep(w), NEW p \in Twins
  PROVE  Frame(w, p)
<1>1. UNCHANGED <<desired, force, call>> /\ \A v \in Writers \ {w} : deal'[v] = deal[v]
  BY DealKeeps
<1>2. ~Active(w, p) => /\ reported'[p] = reported[p] /\ register'[p] = register[p]
                       /\ recorded'[p] = recorded[p] /\ published'[p] = published[p]
  <2>1. CASE DealTest(w)
    BY <2>1 DEF DealTest, pushVars
  <2>2. CASE ~DealTest(w)
    <3>1. deal[w].pc \in Working
      BY <2>2 DEF DealStep, DealWrites, DealFails, DealReports, DealRecords,
         DealPublishes, Working
    <3>2. Active(w, deal[w].twin)
      BY <3>1, WorksOn
    <3> SUFFICES ASSUME deal[w].twin # p
                 PROVE  /\ reported'[p] = reported[p] /\ register'[p] = register[p]
                        /\ recorded'[p] = recorded[p] /\ published'[p] = published[p]
      BY <3>2
    <3>3. /\ register \in [Names -> Nat] /\ reported \in [Twins -> Texts]
          /\ recorded \in [Twins -> Texts] /\ published \in [Twins -> Texts]
          /\ Twins \subseteq Names
      BY TypeFacts DEF TypeInv, TypeOK
    <3>4. /\ register' = register
             \/ \E v : register' = [register EXCEPT ![deal[w].twin] = v]
          /\ reported' = reported
             \/ \E v : reported' = [reported EXCEPT ![deal[w].twin] = v]
          /\ recorded' = recorded
             \/ \E v : recorded' = [recorded EXCEPT ![deal[w].twin] = v]
          /\ published' = published
             \/ \E v : published' = [published EXCEPT ![deal[w].twin] = v]
      BY DEF DealStep, DealTest, DealWrites, DealFails, DealReports, DealRecords,
         DealPublishes, pushVars
    <3> QED
      BY <3>3, <3>4
  <2> QED
    BY <2>1, <2>2
<1> QED
  BY <1>1, <1>2 DEF Frame

(* A deal with another twin says nothing of p.                             *)
LEMMA DealElsewhere ==
  ASSUME TypeInv, Place, NEW w \in Writers, DealStep(w), NEW p \in Twins,
         deal[w].twin # p, Solo(w, p)
  PROVE  Solo(w, p)'
<1>1. /\ UNCHANGED <<desired, force, call>> /\ deal'[w].twin = deal[w].twin
  BY DealKeeps
<1>2. /\ register \in [Names -> Nat] /\ reported \in [Twins -> Texts]
      /\ recorded \in [Twins -> Texts] /\ published \in [Twins -> Texts]
      /\ Twins \subseteq Names
  BY TypeFacts DEF TypeInv, TypeOK
<1>3. /\ register' = register
         \/ \E v : register' = [register EXCEPT ![deal[w].twin] = v]
      /\ reported' = reported
         \/ \E v : reported' = [reported EXCEPT ![deal[w].twin] = v]
      /\ recorded' = recorded
         \/ \E v : recorded' = [recorded EXCEPT ![deal[w].twin] = v]
      /\ published' = published
         \/ \E v : published' = [published EXCEPT ![deal[w].twin] = v]
  BY DEF DealStep, DealTest, DealWrites, DealFails, DealReports, DealRecords,
     DealPublishes, pushVars
<1>4. /\ reported'[p] = reported[p] /\ register'[p] = register[p]
      /\ recorded'[p] = recorded[p] /\ published'[p] = published[p]
  BY <1>2, <1>3
<1>5. w \in Handlers => Items(w)' = Items(w) /\ Item(w)' = Item(w)
  BY <1>1 DEF Items, Item
<1>6. Own(w, p)'
  <2>1. DealOwn(w, p)'
    BY <1>1 DEF DealOwn
  <2>2. w \in Handlers => CallOwn(w, p)'
    BY <1>1, <1>4, <1>5 DEF Solo, Own, CallOwn, Told
  <2> QED
    BY <2>1, <2>2 DEF Own
<1>7. ~Ahead(w, p)' => Good(p)'
  <2>1. Ahead(w, p)' <=> Ahead(w, p)
    BY <1>1, <1>5 DEF Ahead
  <2> QED
    BY <1>4, <2>1 DEF Solo, Good
<1>8. ~force' /\ ~Unpublished(w, p)' => Pushed(p)'
  BY <1>1, <1>4 DEF Solo, Unpublished, Pushed
<1> QED
  BY <1>6, <1>7, <1>8 DEF Solo

(* Each of its steps on p, for the deal that alone works on p.             *)
LEMMA DealHere ==
  ASSUME TypeInv, Place, NEW w \in Writers, DealStep(w), NEW p \in Twins,
         deal[w].twin = p, Clean(p), Clean(p)', Solo(w, p)
  PROVE  Solo(w, p)'
<1>1. /\ UNCHANGED <<desired, force, call>>
      /\ deal'[w].twin = p /\ deal'[w].stale = deal[w].stale
      /\ deal'[w].lost = deal[w].lost /\ deal'[w].pc \notin {"off", "test"}
  BY DealKeeps
<1>2. /\ register \in [Names -> Nat] /\ reported \in [Twins -> Texts]
      /\ recorded \in [Twins -> Texts] /\ published \in [Twins -> Texts]
      /\ deal \in [Writers -> DealRecord] /\ p \in Names /\ faults \in Nat
  BY TypeFacts, TwinAssumption DEF TypeInv, TypeOK
<1>3. w \in Handlers => /\ call[w].pc = "wait" /\ Items(w)' = Items(w)
                        /\ Item(w)' = Item(w) /\ Item(w).val # None
                        /\ Items(w) \in Seq(ItemRecord)
  BY <1>1, DealKeeps, ItemFacts DEF Place, Items, Item, TypeInv
<1>4. /\ ~Repeats(Items(w), p, call[w].idx) \/ w \notin Handlers \/ call[w].pc # "outer"
      /\ Ahead(w, p) <=> deal[w].pc = "report"
      /\ Ahead(w, p)' <=> deal'[w].pc = "report"
      /\ Unpublished(w, p) <=> deal[w].pc \in {"record", "publish"}
      /\ Unpublished(w, p)' <=> deal'[w].pc \in {"record", "publish"}
  BY <1>1, <1>3 DEF Ahead, Unpublished
<1>5. DealOwn(w, p) /\ (w \in Handlers => desired[p] = Item(w).val)
  BY <1>3 DEF Solo, Own, CallOwn
<1>6. w \in Handlers => Told(w, p)'
  <2> SUFFICES ASSUME w \in Handlers PROVE Told(w, p)'
    OBVIOUS
  <2>1. Upto(call'[w], deal'[w].twin = p) = 1
    BY <1>1, <1>3, UptoIs
  <2>2. \A i \in DOMAIN Items(w) : ~Latest(Items(w), p, i, 1)
    BY <1>3 DEF Latest
  <2> QED
    BY <1>3, <2>1, <2>2 DEF Told
<1>7. disturbed'[p] = FALSE /\ Kind[p] = "writable"
  BY DEF Clean
<1> DEFINE Kept == /\ deal'[w].pc = "over" /\ w \in Handlers => reported'[p] = desired[p]
                   /\ DealOwn(w, p)'
                   /\ deal'[w].pc # "report" => Good(p)'
                   /\ ~force /\ deal'[w].pc \notin {"record", "publish"} => Pushed(p)'
<1>8. Kept => Solo(w, p)'
  <2>1. ASSUME Kept, w \in Handlers PROVE CallOwn(w, p)'
    BY <1>1, <1>3, <1>5, <1>6, <2>1 DEF CallOwn
  <2> QED
    BY <1>1, <1>4, <2>1 DEF Solo, Own
<1>9. CASE DealTest(w)
  <2>1. ~deal[w].lost /\ ~deal[w].stale /\ deal[w].pc = "test"
    <3>1. CASE w \in Handlers
      BY <1>3, <1>9, <3>1 DEF Solo, Own, CallOwn, DealTest, Place
    <3>2. CASE w = "data"
      BY <1>9, <3>2 DEF DealTest, Place
    <3> QED
      BY <1>9, <3>1, <3>2 DEF Writers, DealTest
  <2> DEFINE v == IF DealSkips(p) THEN None ELSE desired[p]
             a == IF v = None THEN "over" ELSE "exec"
  <2>2. /\ deal' = [deal EXCEPT ![w].pc = a, ![w].val = v]
        /\ UNCHANGED <<reported, register, recorded, published>>
    BY <1>9, <2>1 DEF DealTest, pushVars
  <2>3. a = "over" /\ w \in Handlers => reported[p] = desired[p]
    BY <1>3, <1>5, <1>7 DEF DealSkips
  <2>4. a = "exec" => v = desired[p]
    OBVIOUS
  <2>5. a \in {"over", "exec"}
    OBVIOUS
  <2> HIDE DEF a, v
  <2>6. deal'[w].pc = a /\ deal'[w].val = v
    BY <1>2, <2>2 DEF DealRecord
  <2>7. DealOwn(w, p)'
    BY <1>1, <2>1, <2>4, <2>5, <2>6 DEF DealOwn, Working
  <2>8. Good(p)' /\ (~force => Pushed(p)')
    <3>1. Good(p) /\ (~force => Pushed(p))
      BY <1>4, <2>1 DEF Solo
    <3> QED
      BY <2>2, <3>1 DEF Good, Pushed
  <2> QED
    BY <1>8, <2>2, <2>3, <2>6, <2>7, <2>8
<1>10. CASE DealWrites(w)
  <2>1. /\ deal[w].pc = "exec" /\ deal' = [deal EXCEPT ![w].pc = "report"]
        /\ register' = [register EXCEPT ![p] = Atoi[deal[w].val]]
        /\ UNCHANGED <<reported, recorded, published>>
    BY <1>10 DEF DealWrites, pushVars
  <2>2. deal'[w].pc = "report" /\ deal'[w].val = deal[w].val
    BY <1>2, <2>1 DEF DealRecord
  <2>3. ~deal[w].stale /\ ~deal[w].lost /\ deal[w].val = desired[p]
    BY <1>5, <2>1 DEF DealOwn, Working
  <2>4. register'[p] = Atoi[desired[p]]
    BY <1>2, <2>1, <2>3
  <2>5. DealOwn(w, p)'
    BY <1>1, <2>2, <2>3, <2>4 DEF DealOwn
  <2>6. ~force => Pushed(p)'
    BY <1>4, <2>1 DEF Solo, Pushed
  <2> QED
    BY <1>8, <2>2, <2>5, <2>6
<1>11. CASE DealFails(w)
  <2>1. disturbed'[p] = TRUE
    BY <1>2, <1>11 DEF DealFails, Disturb
  <2> QED
    BY <1>7, <2>1
<1>12. CASE DealReports(w)
  <2>1. deal[w].pc = "report" /\ deal' = [deal EXCEPT ![w].pc = "record"]
    BY <1>12 DEF DealReports
  <2>2. deal'[w].pc = "record" /\ deal'[w].val = deal[w].val
    BY <1>2, <2>1 DEF DealRecord
  <2>3. /\ ~deal[w].stale /\ ~deal[w].lost /\ deal[w].val = desired[p]
        /\ register[p] = Atoi[desired[p]]
    BY <1>5, <2>1 DEF DealOwn, Working
  <2>4. /\ reported' = [reported EXCEPT ![p] = desired[p]]
        /\ UNCHANGED <<register, recorded, published>>
    BY <1>12, <2>3 DEF DealReports, Shown, pushVars
  <2>5. reported'[p] = desired[p]
    BY <1>2, <2>4
  <2>6. DealOwn(w, p)'
    BY <1>1, <2>2, <2>3, <2>5 DEF DealOwn
  <2>7. Good(p)'
    BY <2>3, <2>4, <2>5 DEF Good
  <2> QED
    BY <1>8, <2>2, <2>6, <2>7
<1>13. CASE DealRecords(w)
  <2>1. deal[w].pc = "record" /\ deal' = [deal EXCEPT ![w].pc = "publish"]
    BY <1>13 DEF DealRecords
  <2>2. deal'[w].pc = "publish" /\ deal'[w].val = deal[w].val
    BY <1>2, <2>1 DEF DealRecord
  <2>3. /\ ~deal[w].stale /\ ~deal[w].lost /\ deal[w].val = desired[p]
        /\ reported[p] = desired[p]
    BY <1>5, <2>1 DEF DealOwn, Working
  <2>4. faults' = faults
    <3>1. Disturb(IF faults' = faults THEN {} ELSE {p})
      BY <1>13 DEF DealRecords
    <3> QED
      BY <1>2, <1>7, <3>1 DEF Disturb
  <2>5. ~Fault
    BY <1>2, <2>4 DEF Fault
  <2>6. /\ recorded' = [recorded EXCEPT ![p] = desired[p]]
        /\ UNCHANGED <<register, reported, published>>
    BY <1>13, <2>3, <2>5 DEF DealRecords, Shown
  <2>7. recorded'[p] = desired[p]
    BY <1>2, <2>6
  <2>8. DealOwn(w, p)'
    BY <1>1, <2>2, <2>3, <2>6, <2>7 DEF DealOwn
  <2>9. Good(p)'
    BY <1>4, <2>1, <2>6 DEF Good, Solo
  <2> QED
    BY <1>8, <2>2, <2>8, <2>9
<1>14. CASE DealPublishes(w)
  <2>1. deal[w].pc = "publish" /\ deal' = [deal EXCEPT ![w].pc = "over", ![w].rc = 0]
    BY <1>14 DEF DealPublishes
  <2>2. deal'[w].pc = "over"
    BY <1>2, <2>1 DEF DealRecord
  <2>3. /\ ~deal[w].stale /\ ~deal[w].lost /\ deal[w].val = desired[p]
        /\ reported[p] = desired[p] /\ (~force => recorded[p] = desired[p])
    BY <1>5, <2>1 DEF DealOwn, Working
  <2>4. faults' = faults
    <3>1. Disturb(IF faults' = faults THEN {} ELSE {p})
      BY <1>14 DEF DealPublishes
    <3> QED
      BY <1>2, <1>7, <3>1 DEF Disturb
  <2>5. ~Fault
    BY <1>2, <2>4 DEF Fault
  <2>6. /\ published' = [published EXCEPT ![p] = desired[p]]
        /\ UNCHANGED <<register, reported, recorded>>
    BY <1>14, <2>3, <2>5 DEF DealPublishes, Shown
  <2>7. published'[p] = desired[p]
    BY <1>2, <2>6
  <2>8. DealOwn(w, p)'
    BY <2>2 DEF DealOwn, Working
  <2>9. Good(p)'
    BY <1>4, <2>1, <2>6 DEF Good, Solo
  <2>10. ~force => Pushed(p)'
    BY <2>3, <2>6, <2>7 DEF Pushed
  <2> QED
    BY <1>8, <2>2, <2>3, <2>6, <2>8, <2>9, <2>10
<1> QED
  BY <1>9, <1>10, <1>11, <1>12, <1>13, <1>14 DEF DealStep

-----------------------------------------------------------------------------
(* UpdateDevice.                                                           *)

LEMMA CallFramed ==
  ASSUME TypeInv, Place, NEW h \in Handlers, CallOnlyStep(h), NEW p \in Twins
  PROVE  Frame(h, p)
<1>1. /\ deal \in [Writers -> DealRecord] /\ p \in Names /\ h \in Writers /\ h # "data"
      /\ desired \in [Twins -> Values \cup {None}] /\ reported \in [Twins -> Texts]
      /\ register \in [Names -> Nat]
  BY TypeFacts, TwinAssumption DEF TypeInv, TypeOK, Writers
<1>2. /\ force' = force /\ UNCHANGED <<recorded, published>>
      /\ \A g \in Handlers \ {h} : call'[g] = call[g]
  BY CallTo DEF CallOnlyStep, SkipItem, ApplyTwin, ApplyNoTwin, WaitEnds,
     CallFrame, DirectWrites, DirectUnknown, DirectFails, ForceSync, ForceEnds,
     ApplyEnds, OuterEnds, Reply, CallOnly, pushVars
<1>3. More(h) /\ (Item(h).name = p \/ TwinOf(Item(h).name, call[h].idx) = p)
        => Active(h, p)
  BY <1>1 DEF More, Item, Active
<1>4. ~Active(h, p) => /\ register'[p] = register[p]
                       /\ desired'[p] = desired[p] /\ reported'[p] = reported[p]
  <2>1. /\ \/ register' = register
           \/ More(h) /\ \E v : register' = [register EXCEPT ![Item(h).name] = v]
        /\ \/ desired' = desired
           \/ More(h) /\ \E v : desired' =
                [desired EXCEPT ![TwinOf(Item(h).name, call[h].idx)] = v]
           \/ More(h) /\ \E v : desired' = [desired EXCEPT ![Item(h).name] = v]
        /\ \/ reported' = reported
           \/ More(h) /\ \E v : reported' = [reported EXCEPT ![Item(h).name] = v]
    BY DEF CallOnlyStep, SkipItem, ApplyTwin, ApplyNoTwin, WaitEnds, twinVars,
       CallFrame, DirectWrites, DirectUnknown, DirectFails, ForceSync, ForceEnds,
       ApplyEnds, OuterEnds, Reply, CallOnly, Due, Place
  <2> QED
    BY <1>1, <1>3, <2>1
<1>5. ASSUME NEW v \in Writers \ {h}
      PROVE  /\ deal'[v].pc = deal[v].pc /\ deal'[v].twin = deal[v].twin
             /\ deal'[v].val = deal[v].val /\ deal'[v].lost = deal[v].lost
             /\ ~Active(h, p) /\ deal[v].twin = p => deal'[v].stale = deal[v].stale
  <2>1. CASE deal'[v] = deal[v]
    BY <2>1
  <2>2. CASE \E t : /\ deal'[v] = Stale(h, t)[v] /\ More(h)
                    /\ t \in {Item(h).name, TwinOf(Item(h).name, call[h].idx)}
    <3>1. PICK t : /\ deal'[v] = Stale(h, t)[v] /\ More(h)
                   /\ t \in {Item(h).name, TwinOf(Item(h).name, call[h].idx)}
      BY <2>2
    <3>2. /\ deal'[v].pc = deal[v].pc /\ deal'[v].twin = deal[v].twin
          /\ deal'[v].val = deal[v].val /\ deal'[v].lost = deal[v].lost
          /\ deal'[v].stale = (deal[v].stale \/ (v # h /\ deal[v].twin = t
                                 /\ deal[v].pc \notin {"test", "over"}))
      BY <3>1, StaleFacts
    <3>3. ~Active(h, p) => t # p
      BY <1>3, <3>1
    <3>4. deal[v].stale \in BOOLEAN
      BY <1>1 DEF DealRecord
    <3> QED
      BY <3>2, <3>3, <3>4
  <2>3. CASE ApplyTwin(h)
    <3>1. /\ More(h)
          /\ \E d : deal' = [Stale(h, TwinOf(Item(h).name, call[h].idx)) EXCEPT ![h] = d]
      BY <2>3 DEF ApplyTwin, Due
    <3>2. deal'[v] = Stale(h, TwinOf(Item(h).name, call[h].idx))[v]
      BY <3>1, StaleFacts
    <3> QED
      BY <2>2, <3>1, <3>2
  <2>4. CASE ~ApplyTwin(h)
    <3>1. \/ deal' = deal \/ deal' = [deal EXCEPT ![h] = Off]
          \/ More(h) /\ deal' = Stale(h, Item(h).name)
      BY <2>4 DEF CallOnlyStep, SkipItem, ApplyNoTwin, WaitEnds, DirectWrites,
         DirectUnknown, DirectFails, ForceSync, ForceEnds, ApplyEnds, OuterEnds,
         Reply, CallOnly, Place
    <3>2. CASE deal' = deal \/ deal' = [deal EXCEPT ![h] = Off]
      BY <1>1, <2>1, <3>2
    <3>3. CASE More(h) /\ deal' = Stale(h, Item(h).name)
      BY <2>2, <3>3
    <3> QED
      BY <3>1, <3>2, <3>3
  <2> QED
    BY <2>3, <2>4
<1>6. "data" \notin Handlers
  BY TwinAssumption
<1> QED
  BY <1>2, <1>4, <1>5 DEF Frame

(* What a call whose deal is over has to say of p.                         *)
LEMMA OffSolo ==
  ASSUME NEW h \in Handlers, NEW p, Place', call'[h].pc # "wait",
         call'[h].pc = "sync" /\ Item(h)'.name = p =>
           call'[h].req.dev = "known" /\ register'[p] = Atoi[Item(h)'.val],
         Told(h, p)', ~Ahead(h, p)' => Good(p)', ~force' => Pushed(p)'
  PROVE  Solo(h, p)'
<1>1. deal'[h].pc = "off"
  BY DEF Place
<1>2. DealOwn(h, p)'
  BY <1>1 DEF DealOwn, Working
<1>3. CallOwn(h, p)'
  BY DEF CallOwn
<1> QED
  BY <1>2, <1>3 DEF Solo, Own

(* An item that does not concern p is passed over.                         *)
LEMMA PassedOver ==
  ASSUME TypeInv, Place, Place', NEW h \in Handlers, NEW p \in Twins, Solo(h, p),
         More(h), Item(h).name # p \/ Item(h).val = None,
         call[h].pc \in {"force", "sync", "apply", "direct", "outer"},
         call[h].pc = "sync" => Item(h).name # p,
         call'[h].req = call[h].req, call'[h].idx = call[h].idx + 1,
         call'[h].pc = IF call[h].pc = "direct" THEN "apply"
                       ELSE IF call[h].pc = "sync" THEN "force" ELSE call[h].pc,
         reported'[p] = reported[p], register'[p] = register[p],
         UNCHANGED <<recorded, published, force>>
  PROVE  Solo(h, p)'
<1> DEFINE n == call[h].idx
           s == Items(h)
<1>1. /\ s \in Seq(ItemRecord) /\ n \in Nat \ {0} /\ Items(h)' = s
      /\ n \in DOMAIN s /\ Item(h) = s[n]
      /\ call[h].req.props = s /\ call'[h].req.props = s
  BY ItemFacts DEF TypeInv, More, Item, Items
<1>2. deal[h].pc = "off"
  BY DEF Place
<1>3. /\ Told(h, p) /\ (~Ahead(h, p) => Good(p)) /\ (~force => Pushed(p))
  BY <1>2 DEF Solo, Own, CallOwn, Unpublished
<1>4. Told(h, p)'
  <2> SUFFICES ASSUME call[h].req.dev = "known", NEW i \in DOMAIN s,
                      Latest(s, p, i, Upto(call'[h], (deal[h].twin = p)'))
               PROVE  reported[p] = s[i].val
    BY <1>1 DEF Told
  <2>1. \A m : Latest(s, p, i, m) => i # n
    BY <1>1 DEF Latest
  <2>2. CASE call[h].pc \in {"force", "sync", "apply"}
    <3>1. Upto(call[h], deal[h].twin = p) = n
      BY <2>2, UptoIs
    <3>2. Upto(call'[h], (deal[h].twin = p)') = n + 1
      BY <2>2, UptoIs
    <3>3. Latest(s, p, i, n)
      BY <1>1, <2>1, <3>2, LatestFacts
    <3> QED
      BY <1>3, <3>1, <3>3 DEF Told
  <2>3. CASE call[h].pc \in {"direct", "outer"}
    <3>1. Upto(call[h], deal[h].twin = p) = Upto(call'[h], (deal[h].twin = p)')
      <4>1. CASE call[h].pc = "direct"
        BY <4>1, UptoIs
      <4>2. CASE call[h].pc = "outer"
        <5>1. call'[h].pc = "outer"
          BY <4>2
        <5>2. Upto(call[h], deal[h].twin = p) = Len(call[h].req.props) + 1
          BY <4>2, UptoIs
        <5>3. Upto(call'[h], (deal[h].twin = p)') = Len(call'[h].req.props) + 1
          BY <5>1, UptoIs
        <5> QED
          BY <5>2, <5>3
      <4> QED
        BY <2>3, <4>1, <4>2
    <3> QED
      BY <1>3, <3>1 DEF Told
  <2> QED
    BY <2>2, <2>3
<1>5. ~Ahead(h, p)' => ~Ahead(h, p)
  <2>1. call[h].pc = "outer" /\ Repeats(s, p, n) => Repeats(s, p, n + 1)
    BY <1>1, RepeatFacts
  <2> QED
    BY <1>1, <1>2, <2>1 DEF Ahead
<1>6. (~Ahead(h, p) => Good(p)') /\ (~force' => Pushed(p)')
  BY <1>3 DEF Good, Pushed
<1> QED
  BY <1>4, <1>5, <1>6, OffSolo

LEMMA ApplyTwinSolo ==
  ASSUME TypeInv, Place, NEW h \in Handlers, NEW p \in Twins, ApplyTwin(h),
         Solo(h, p)
  PROVE  Solo(h, p)'
<1> DEFINE n == call[h].idx
           s == Items(h)
           t == TwinOf(Item(h).name, n)
           d == [Off EXCEPT !.pc = "test", !.twin = t]
<1>1. /\ s \in Seq(ItemRecord) /\ n \in Nat \ {0} /\ n \in DOMAIN s
      /\ h \in Writers /\ call[h] \in CallRecord
  BY ItemFacts DEF TypeInv, More, Items, ApplyTwin, Due, Writers
<1>2. /\ call[h].pc = "apply" /\ t # 0 /\ Item(h).val # None
      /\ deal' = [Stale(h, t) EXCEPT ![h] = d]
      /\ desired' = [desired EXCEPT ![t] = Item(h).val]
      /\ UNCHANGED <<reported, register, recorded, published, force>>
  BY DEF ApplyTwin, Due, CallFrame, pushVars
<1>3. deal[h].pc = "off"
  BY <1>2 DEF Place
<1>4. t \in Twins
  BY <1>1, <1>2, TwinOfType
<1>5. d.pc = "test" /\ d.twin = t /\ ~d.lost
  BY <1>4, OffFacts
<1> HIDE DEF d
<1>6. deal'[h] = d
  BY <1>1, <1>2, StaleFacts
<1>7. call'[h] = At(call[h], "wait")
  BY CallTo DEF Becomes
<1>8. call'[h].pc = "wait" /\ call'[h].req = call[h].req /\ call'[h].idx = n
  BY <1>1, <1>7, CallOps
<1>9. Items(h)' = s /\ Item(h)' = Item(h)
  BY <1>8 DEF Items, Item
<1>10. desired \in [Twins -> Values \cup {None}]
  BY DEF TypeInv, TypeOK
<1>11. t = p => desired'[p] = Item(h).val
  BY <1>2, <1>10
<1>12. Told(h, p)'
  <2> SUFFICES ASSUME call[h].req.dev = "known", NEW i \in DOMAIN s,
                      Latest(s, p, i, Upto(call'[h], t = p))
               PROVE  reported[p] = s[i].val
    BY <1>2, <1>5, <1>6, <1>8, <1>9 DEF Told
  <2>1. CASE t = p
    <3>1. Upto(call'[h], t = p) = 1
      BY <1>8, <2>1, UptoIs
    <3> QED
      BY <1>1, <3>1 DEF Latest
  <2>2. CASE t # p
    <3>1. Upto(call'[h], t = p) = n /\ Upto(call[h], deal[h].twin = p) = n
      BY <1>2, <1>8, <2>2, UptoIs
    <3> QED
      BY <3>1 DEF Solo, Own, CallOwn, Told
  <2> QED
    BY <2>1, <2>2
<1>13. Own(h, p)'
  <2>1. DealOwn(h, p)'
    BY <1>5, <1>6 DEF DealOwn, Working
  <2>2. CallOwn(h, p)'
    BY <1>5, <1>6, <1>8, <1>9, <1>11, <1>12 DEF CallOwn
  <2> QED
    BY <2>1, <2>2 DEF Own
<1>14. Good(p)' /\ (~force => Pushed(p)')
  <2>1. ~Ahead(h, p) /\ ~Unpublished(h, p)
    BY <1>2, <1>3 DEF Ahead, Unpublished
  <2> QED
    BY <1>2, <2>1 DEF Solo, Good, Pushed
<1> QED
  BY <1>2, <1>13, <1>14 DEF Solo

LEMMA ApplyNoTwinSolo ==
  ASSUME TypeInv, Place, Place', NEW h \in Handlers, NEW p \in Twins,
         ApplyNoTwin(h), Solo(h, p)
  PROVE  Solo(h, p)'
<1> DEFINE n == call[h].idx
           s == Items(h)
<1>1. /\ s \in Seq(ItemRecord) /\ n \in Nat \ {0} /\ n \in DOMAIN s
      /\ Item(h) = s[n] /\ call[h] \in CallRecord /\ p # 0
  BY ItemFacts, TypeFacts DEF TypeInv, More, Items, Item, ApplyNoTwin, Due
<1>2. /\ call[h].pc = "apply"
      /\ UNCHANGED <<reported, register, recorded, published, force>>
      /\ call[h].req.dev = "known" => TwinOf(Item(h).name, n) = 0
  BY DEF ApplyNoTwin, Due, CallOnly, CallFrame, twinVars, pushVars
<1>3. deal[h].pc = "off"
  BY <1>2 DEF Place
<1>4. call'[h] = At(call[h], "direct")
  BY CallTo DEF Becomes
<1>5. call'[h].pc = "direct" /\ call'[h].req = call[h].req /\ call'[h].idx = n
  BY <1>1, <1>4, CallOps
<1>6. Items(h)' = s
  BY <1>5 DEF Items
<1>7. Told(h, p)'
  <2> SUFFICES ASSUME call[h].req.dev = "known", NEW i \in DOMAIN s,
                      Latest(s, p, i, Upto(call'[h], (deal[h].twin = p)'))
               PROVE  reported[p] = s[i].val
    BY <1>2, <1>5, <1>6 DEF Told
  <2>1. Upto(call'[h], (deal[h].twin = p)') = n + 1
    BY <1>5, UptoIs
  <2>2. i # n
    <3>1. i = n => s[n].name = p
      BY DEF Latest
    <3>2. s[n].name # p
      BY <1>1, <1>2 DEF TwinOf
    <3> QED
      BY <3>1, <3>2
  <2>3. Latest(s, p, i, n)
    BY <1>1, <2>1, <2>2, LatestFacts
  <2>4. Upto(call[h], deal[h].twin = p) = n
    BY <1>2, UptoIs
  <2> QED
    BY <2>3, <2>4 DEF Solo, Own, CallOwn, Told
<1>8. Good(p)' /\ (~force => Pushed(p)')
  <2>1. ~Ahead(h, p) /\ ~Unpublished(h, p)
    BY <1>2, <1>3 DEF Ahead, Unpublished
  <2> QED
    BY <1>2, <2>1 DEF Solo, Good, Pushed
<1> QED
  BY <1>2, <1>5, <1>7, <1>8, OffSolo

LEMMA WaitEndsSolo ==
  ASSUME TypeInv, Place, Place', NEW h \in Handlers, NEW p \in Twins,
         WaitEnds(h), Solo(h, p)
  PROVE  Solo(h, p)'
<1> DEFINE n == call[h].idx
           s == Items(h)
<1>1. /\ call[h].pc = "wait" /\ deal[h].pc = "over"
      /\ UNCHANGED <<desired, reported, register, recorded, published, force>>
  BY DEF WaitEnds, CallFrame, twinVars, pushVars
<1>2. /\ s \in Seq(ItemRecord) /\ n \in Nat \ {0} /\ n \in DOMAIN s
      /\ Item(h) = s[n] /\ call[h] \in CallRecord /\ s[n].val # None
      /\ deal[h].twin = TwinOf(s[n].name, n)
  BY <1>1, ItemFacts DEF TypeInv, More, Items, Item, Place
<1>3. /\ call'[h].req = call[h].req
      /\ \/ call'[h].pc = "apply" /\ call'[h].idx = n + 1
         \/ call'[h].pc = "direct" /\ call'[h].idx = n
  <2>1. call'[h] = Done(call[h], TRUE) \/ call'[h] = At(call[h], "direct")
    BY CallTo DEF Becomes
  <2>2. CASE \E b \in BOOLEAN : call'[h] = Done(call[h], b)
    BY <1>1, <1>2, <2>2, CallOps
  <2>3. CASE call'[h] = At(call[h], "direct")
    BY <1>2, <2>3, CallOps
  <2> QED
    BY <2>1, <2>2, <2>3
<1>4. Items(h)' = s
  BY <1>3 DEF Items
<1>5. Told(h, p)'
  <2> SUFFICES ASSUME call[h].req.dev = "known", NEW i \in DOMAIN s,
                      Latest(s, p, i, Upto(call'[h], (deal[h].twin = p)'))
               PROVE  reported[p] = s[i].val
    BY <1>1, <1>3, <1>4 DEF Told
  <2>1. Upto(call'[h], (deal[h].twin = p)') = n + 1
    BY <1>3, UptoIs
  <2>2. CASE deal[h].twin = p
    <3>1. i = n
      <4>1. Latest(s, p, i, n + 1) /\ n \in Nat /\ n \in DOMAIN s /\ s[n].val # None
        BY <1>2, <2>1
      <4>2. TwinOf(s[n].name, n) = p
        BY <1>2, <2>2
      <4> HIDE DEF n, s
      <4> QED
        BY <1>2, <4>1, <4>2, LatestFacts
    <3>2. reported[p] = desired[p] /\ desired[p] = Item(h).val
      BY <1>1, <2>2 DEF Solo, Own, CallOwn
    <3> QED
      BY <1>2, <3>1, <3>2
  <2>3. CASE deal[h].twin # p
    <3>1. i # n
      <4>1. i = n => s[n].name = p
        BY DEF Latest
      <4>2. s[n].name # p
        BY <1>2, <2>3 DEF TwinOf
      <4> QED
        BY <4>1, <4>2
    <3>2. Latest(s, p, i, n)
      BY <1>2, <2>1, <3>1, LatestFacts
    <3>3. Upto(call[h], deal[h].twin = p) = n
      BY <1>1, <2>3, UptoIs
    <3> QED
      BY <3>2, <3>3 DEF Solo, Own, CallOwn, Told
  <2> QED
    BY <2>2, <2>3
<1>6. Good(p)' /\ (~force => Pushed(p)')
  <2>1. ~Ahead(h, p) /\ ~Unpublished(h, p)
    BY <1>1 DEF Ahead, Unpublished
  <2> QED
    BY <1>1, <2>1 DEF Solo, Good, Pushed
<1> QED
  BY <1>1, <1>3, <1>5, <1>6, OffSolo

LEMMA SkipItemSolo ==
  ASSUME TypeInv, Place, Place', NEW h \in Handlers, NEW p \in Twins,
         SkipItem(h), Solo(h, p)
  PROVE  Solo(h, p)'
<1>1. /\ call[h].pc \in {"force", "apply", "outer"} /\ More(h) /\ Item(h).val = None
      /\ UNCHANGED <<reported, register, recorded, published, force>>
      /\ call'[h] = Further(call[h])
  BY CallTo DEF SkipItem, CallOnly, CallFrame, twinVars, pushVars, Becomes
<1>2. call[h] \in CallRecord
  BY ItemFacts DEF TypeInv
<1>3. /\ call'[h].req = call[h].req /\ call'[h].idx = call[h].idx + 1
      /\ call'[h].pc = call[h].pc
  BY <1>1, <1>2, CallOps
<1> QED
  BY <1>1, <1>3, PassedOver

(* A register written without its twin. For p that is right only if the    *)
(* twin holds the value, which TwinHolds says or the deal before it left.  *)
LEMMA DirectWritesSolo ==
  ASSUME TypeInv, Place, Place', NEW h \in Handlers, NEW p \in Twins, Clean(p)',
         DirectWrites(h), Solo(h, p)
  PROVE  Solo(h, p)'
<1> DEFINE n == call[h].idx
           s == Items(h)
<1>1. /\ call[h].pc \in {"force", "direct", "outer"} /\ More(h)
      /\ register' = [register EXCEPT ![Item(h).name] = Atoi[Item(h).val]]
      /\ UNCHANGED <<desired, reported, recorded, published, force>>
  BY DEF DirectWrites, Due, CallFrame, twinVars, pushVars
<1>2. /\ s \in Seq(ItemRecord) /\ n \in Nat \ {0} /\ n \in DOMAIN s
      /\ Item(h) = s[n] /\ call[h] \in CallRecord /\ s[n].val # None
      /\ call[h].req.props = s
  BY ItemFacts DEF TypeInv, More, Items, Item, DirectWrites, Due
<1>3. register \in [Names -> Nat] /\ p \in Names
  BY TypeFacts DEF TypeInv, TypeOK
<1>4. deal[h].pc = "off"
  BY <1>1 DEF Place
<1>5. CASE call[h].pc = "force"
  <2>1. call'[h] = At(call[h], "sync")
    BY <1>5, CallTo DEF Becomes
  <2>2. call'[h].pc = "sync" /\ call'[h].req = call[h].req /\ call'[h].idx = n
    BY <1>2, <2>1, CallOps
  <2>3. Items(h)' = s /\ Item(h)' = Item(h)
    BY <2>2 DEF Items, Item
  <2>4. ~Ahead(h, p) /\ ~Unpublished(h, p)
    BY <1>4, <1>5 DEF Ahead, Unpublished
  <2>5. Told(h, p)'
    <3>1. Upto(call'[h], (deal[h].twin = p)') = n
      BY <2>2, UptoIs
    <3>2. Upto(call[h], deal[h].twin = p) = n
      BY <1>5, UptoIs
    <3> QED
      BY <1>1, <2>2, <2>3, <3>1, <3>2 DEF Solo, Own, CallOwn, Told
  <2>6. CASE Item(h).name = p
    <3>1. call[h].req.dev = "known"
      BY <1>3, <2>6 DEF DirectWrites, Disturb, Clean, TwinHolds
    <3>2. register'[p] = Atoi[Item(h).val]
      BY <1>1, <1>3, <2>6
    <3>3. Ahead(h, p)'
      BY <2>2, <2>3, <2>6 DEF Ahead
    <3>4. ~force => Pushed(p)'
      BY <1>1, <2>4 DEF Solo, Pushed
    <3> QED
      BY <1>1, <2>2, <2>3, <2>5, <3>1, <3>2, <3>3, <3>4, OffSolo
  <2>7. CASE Item(h).name # p
    <3>1. register'[p] = register[p]
      BY <1>1, <1>3, <2>7
    <3>2. Good(p)' /\ (~force => Pushed(p)')
      BY <1>1, <2>4, <3>1 DEF Solo, Good, Pushed
    <3> QED
      BY <1>1, <2>2, <2>3, <2>5, <2>7, <3>2, OffSolo
  <2> QED
    BY <2>6, <2>7
<1>6. CASE call[h].pc # "force"
  <2>1. call'[h] = Done(call[h], TRUE)
    BY <1>6, CallTo DEF Becomes
  <2>2. \E b \in BOOLEAN : call'[h] = Done(call[h], b)
    BY <2>1
  <2>3. /\ call'[h].req = call[h].req /\ call'[h].idx = n + 1
        /\ call'[h].pc = (IF call[h].pc = "direct" THEN "apply" ELSE call[h].pc)
    BY <1>1, <1>2, <1>6, <2>2, CallOps
  <2>4. Items(h)' = s
    BY <2>3 DEF Items
  <2>5. CASE Item(h).name # p
    <3>1. register'[p] = register[p]
      BY <1>1, <1>3, <2>5
    <3>2. call[h].pc \in {"direct", "outer"}
      BY <1>1, <1>6
    <3> QED
      BY <1>1, <2>3, <2>5, <3>1, <3>2, PassedOver
  <2>6. CASE Item(h).name = p
    <3>1. TwinHolds(h)
      BY <1>3, <2>6 DEF DirectWrites, Disturb, Clean
    <3>2. call[h].req.dev = "known"
      BY <3>1 DEF TwinHolds
    <3>3. register'[p] = Atoi[s[n].val]
      BY <1>1, <1>2, <1>3, <2>6
    <3>4. Latest(s, p, n, n + 1)
      BY <1>2, <2>6, LatestFacts
    <3>5. ~Ahead(h, p)' => Latest(s, p, n, Upto(call[h], deal[h].twin = p))
      <4>1. CASE call[h].pc = "direct"
        <5>1. Upto(call[h], deal[h].twin = p) = n + 1
          BY <4>1, UptoIs
        <5> QED
          BY <3>4, <5>1
      <4>2. CASE call[h].pc = "outer"
        <5>1. Upto(call[h], deal[h].twin = p) = Len(s) + 1
          BY <1>2, <4>2, UptoIs
        <5> SUFFICES ASSUME ~Ahead(h, p)', NEW j \in DOMAIN s, n < j
                     PROVE  TwinOf(s[j].name, j) # p \/ s[j].val = None
          BY <1>2, <2>6, <5>1 DEF Latest
        <5>2. ~Repeats(s, p, n + 1)
          BY <2>3, <2>4, <4>2 DEF Ahead
        <5>3. n \in DOMAIN s /\ n < n + 1 /\ n + 1 <= j
          BY <1>2
        <5>4. s[j].name # p \/ s[j].val = None
          BY <1>2, <2>6, <5>2, <5>3 DEF Repeats
        <5>5. s[j].name # p => TwinOf(s[j].name, j) # p
          BY <1>2, <2>6, <3>1, <4>2 DEF TwinHolds
        <5> QED
          BY <5>4, <5>5
      <4> QED
        BY <1>1, <1>6, <4>1, <4>2
    <3>6. Told(h, p) /\ (~force => Pushed(p))
      BY <1>4 DEF Solo, Own, CallOwn, Unpublished
    <3>7. ~Ahead(h, p)' => Good(p)'
      BY <1>1, <1>2, <3>2, <3>3, <3>5, <3>6 DEF Told, Good
    <3>8. Told(h, p)'
      <4>1. Upto(call'[h], (deal[h].twin = p)') = Upto(call[h], deal[h].twin = p)
        <5>1. CASE call[h].pc = "direct"
          BY <2>3, <5>1, UptoIs
        <5>2. CASE call[h].pc = "outer"
          <6>1. call'[h].pc = "outer" /\ call'[h].req.props = s
            BY <1>2, <2>3, <5>2
          <6> QED
            BY <1>2, <5>2, <6>1, UptoIs
        <5> QED
          BY <1>1, <1>6, <5>1, <5>2
      <4> QED
        BY <1>1, <2>3, <2>4, <3>6, <4>1 DEF Told
    <3>9. ~force' => Pushed(p)'
      BY <1>1, <3>6 DEF Pushed
    <3>10. call'[h].pc \notin {"wait", "sync"}
      BY <1>1, <2>3
    <3> QED
      BY <3>7, <3>8, <3>9, <3>10, OffSolo
  <2> QED
    BY <2>5, <2>6
<1> QED
  BY <1>5, <1>6

LEMMA DirectElseSolo ==
  ASSUME TypeInv, Place, Place', NEW h \in Handlers, NEW p \in Twins, Clean(p)',
         DirectUnknown(h) \/ DirectFails(h), Solo(h, p)
  PROVE  Solo(h, p)'
<1>1. /\ call[h].pc \in {"force", "direct", "outer"} /\ More(h)
      /\ register' = register
         \/ \E v : register' = [register EXCEPT ![Item(h).name] = v]
      /\ UNCHANGED <<desired, reported, recorded, published, force>>
  BY DEF DirectUnknown, DirectFails, Due, CallOnly, CallFrame, twinVars, pushVars
<1>2. call[h] \in CallRecord /\ register \in [Names -> Nat] /\ p \in Names
  BY TypeFacts, ItemFacts DEF TypeInv, TypeOK
<1>3. Item(h).name # p
  BY <1>2 DEF DirectUnknown, DirectFails, Disturb, Clean
<1>4. \E b \in BOOLEAN : call'[h] = Done(call[h], b)
  <2>1. call'[h] = Done(call[h], FALSE)
    BY CallTo DEF Becomes
  <2> QED
    BY <2>1
<1>5. /\ call'[h].req = call[h].req /\ call'[h].idx = call[h].idx + 1
      /\ call'[h].pc = (IF call[h].pc = "direct" THEN "apply" ELSE call[h].pc)
  BY <1>1, <1>2, <1>4, CallOps
<1>6. register'[p] = register[p]
  BY <1>1, <1>2, <1>3
<1> QED
  BY <1>1, <1>3, <1>5, <1>6, PassedOver

LEMMA ForceSyncSolo ==
  ASSUME TypeInv, Place, Place', NEW h \in Handlers, NEW p \in Twins,
         ForceSync(h), Solo(h, p)
  PROVE  Solo(h, p)'
<1> DEFINE n == call[h].idx
           s == Items(h)
<1>1. /\ call[h].pc = "sync" /\ More(h) /\ Item(h).val # None /\ force
      /\ UNCHANGED <<register, recorded, published, force>>
  BY DEF ForceSync, CallFrame, pushVars, Place
<1>2. /\ s \in Seq(ItemRecord) /\ n \in Nat \ {0} /\ n \in DOMAIN s
      /\ Item(h) = s[n] /\ call[h] \in CallRecord /\ call[h].req.props = s
      /\ desired \in [Twins -> Values \cup {None}] /\ reported \in [Twins -> Texts]
  BY <1>1, ItemFacts DEF TypeInv, TypeOK, More, Items, Item
<1>3. \E b \in BOOLEAN : call'[h] = Done(call[h], b)
  <2>1. call'[h] = Done(call[h], TRUE)
    BY CallTo DEF Becomes
  <2> QED
    BY <2>1
<1>4. /\ call'[h].req = call[h].req /\ call'[h].idx = n + 1
      /\ call'[h].pc = "force"
  BY <1>1, <1>2, <1>3, CallOps
<1>5. Items(h)' = s
  BY <1>4 DEF Items
<1>6. CASE Item(h).name # p
  <2>1. reported'[p] = reported[p]
    BY <1>2, <1>6 DEF ForceSync, twinVars
  <2> QED
    BY <1>1, <1>4, <1>6, <2>1, PassedOver
<1>7. CASE Item(h).name = p
  <2>1. call[h].req.dev = "known" /\ register[p] = Atoi[Item(h).val]
    BY <1>1, <1>7 DEF Solo, Own, CallOwn
  <2>2. reported'[p] = s[n].val
    BY <1>2, <1>7, <2>1 DEF ForceSync
  <2>3. Told(h, p)'
    <3> SUFFICES ASSUME NEW i \in DOMAIN s,
                        Latest(s, p, i, Upto(call'[h], (deal[h].twin = p)'))
                 PROVE  reported'[p] = s[i].val
      BY <1>5 DEF Told
    <3>1. Upto(call'[h], (deal[h].twin = p)') = n + 1
      BY <1>4, UptoIs
    <3>2. TwinOf(s[n].name, n) = p
      BY <1>2, <1>7 DEF TwinOf
    <3>3. Latest(s, p, i, n + 1) /\ s[n].val # None /\ n \in Nat /\ n \in DOMAIN s
      BY <1>1, <1>2, <3>1
    <3> HIDE DEF s, n
    <3>4. i = n
      BY <1>2, <3>2, <3>3, LatestFacts
    <3> QED
      BY <2>2, <3>4
  <2>4. Good(p)'
    BY <1>1, <1>2, <2>1, <2>2 DEF Good
  <2> QED
    BY <1>1, <1>4, <2>3, <2>4, OffSolo
<1> QED
  BY <1>6, <1>7

LEMMA EndsSolo ==
  ASSUME TypeInv, Place, Place', NEW h \in Handlers, NEW p \in Twins,
         ForceEnds(h) \/ ApplyEnds(h) \/ OuterEnds(h), Solo(h, p)
  PROVE  Solo(h, p)'
<1> DEFINE n == call[h].idx
           s == Items(h)
<1>1. /\ call[h].pc \in {"force", "apply", "outer"}
      /\ call[h].req.dev = "known" => ~More(h)
      /\ call[h].pc = "outer" => ~More(h)
      /\ UNCHANGED <<desired, reported, register, recorded, published, force>>
  BY DEF ForceEnds, ApplyEnds, OuterEnds, CallOnly, CallFrame, twinVars, pushVars
<1>2. /\ s \in Seq(ItemRecord) /\ n \in Nat \ {0} /\ n <= Len(s) + 1
      /\ call[h] \in CallRecord /\ call[h].req.props = s
      /\ DOMAIN s = 1 .. Len(s) /\ Len(s) \in Nat
  BY ItemFacts DEF TypeInv, Items
<1>3. deal[h].pc = "off"
  BY <1>1 DEF Place
<1>4. /\ call'[h].req = call[h].req
      /\ \/ call'[h].pc = "reply"
         \/ call'[h].pc = "apply" /\ call'[h].idx = 1
         \/ call'[h].pc = "outer" /\ call'[h].idx = 1
  <2>1. call'[h] \in {Ends(call[h], "ok"), Ends(call[h], "not_found"),
                      Pass(call[h], "apply"), Pass(call[h], "outer")}
    BY CallTo DEF Becomes
  <2> QED
    BY <1>2, <2>1, CallOps
<1>5. Items(h)' = s
  BY <1>4 DEF Items
<1>6. ~Ahead(h, p)
  <2>1. call[h].pc = "outer" => ~Repeats(s, p, n)
    BY <1>1, <1>2, RepeatFacts DEF More
  <2> QED
    BY <1>1, <1>3, <2>1 DEF Ahead
<1>7. Good(p)' /\ (~force => Pushed(p)')
  BY <1>1, <1>3, <1>6 DEF Solo, Unpublished, Good, Pushed
<1>8. Told(h, p)'
  <2> SUFFICES ASSUME call[h].req.dev = "known", NEW i \in DOMAIN s,
                      Latest(s, p, i, Upto(call'[h], (deal[h].twin = p)'))
               PROVE  reported[p] = s[i].val
    BY <1>1, <1>4, <1>5 DEF Told
  <2>1. n = Len(s) + 1
    BY <1>1, <1>2 DEF More
  <2>2. Upto(call[h], deal[h].twin = p) = Len(s) + 1
    <3>1. CASE call[h].pc = "outer"
      BY <1>2, <3>1, UptoIs
    <3>2. CASE call[h].pc \in {"force", "apply"}
      BY <2>1, <3>2, UptoIs
    <3> QED
      BY <1>1, <3>1, <3>2
  <2>3. Upto(call'[h], (deal[h].twin = p)') \in {1, Len(s) + 1}
    <3>1. call'[h].req.props = s
      BY <1>2, <1>4
    <3>2. CASE call'[h].pc = "reply"
      BY <3>1, <3>2, UptoIs
    <3>3. CASE call'[h].pc = "apply" /\ call'[h].idx = 1
      BY <3>3, UptoIs
    <3>4. CASE call'[h].pc = "outer"
      BY <3>1, <3>4, UptoIs
    <3> QED
      BY <1>4, <3>2, <3>3, <3>4
  <2>4. ~Latest(s, p, i, 1)
    BY <1>2, LatestFacts
  <2>5. Latest(s, p, i, Len(s) + 1)
    BY <2>3, <2>4
  <2> QED
    BY <2>2, <2>5 DEF Solo, Own, CallOwn, Told
<1> QED
  BY <1>1, <1>4, <1>7, <1>8, OffSolo

LEMMA ReplySolo ==
  ASSUME TypeInv, Place, Place', NEW h \in Handlers, NEW p \in Twins,
         Reply(h), Solo(h, p)
  PROVE  Solo(h, p)'
<1>1. /\ call[h].pc = "reply" /\ call'[h] = Idle
      /\ UNCHANGED <<desired, reported, register, recorded, published, force>>
  BY CallTo DEF Reply, CallOnly, CallFrame, twinVars, pushVars, Becomes
<1>2. deal[h].pc = "off"
  BY <1>1 DEF Place
<1>3. ~Ahead(h, p) /\ ~Unpublished(h, p)
  BY <1>1, <1>2 DEF Ahead, Unpublished
<1>4. Good(p)' /\ (~force => Pushed(p)')
  BY <1>1, <1>3 DEF Solo, Good, Pushed
<1>5. call'[h].pc = "idle" /\ Items(h)' = <<>>
  BY <1>1, IdleType DEF Items
<1>6. Told(h, p)'
  BY <1>5 DEF Told
<1> QED
  BY <1>1, <1>4, <1>5, <1>6, OffSolo

LEMMA ReceiveSolo ==
  ASSUME TypeInv, Place, Place', NEW h \in Handlers, NEW r \in Requests,
         NEW p \in Twins, Receive(h, r), Solo(h, p)
  PROVE  Solo(h, p)'
<1>1. /\ call[h].pc = "idle"
      /\ UNCHANGED <<desired, reported, register, recorded, published, force, deal>>
  BY IdleType DEF Receive, CallFrame, twinVars, pushVars
<1>2. deal[h].pc = "off"
  BY <1>1 DEF Place
<1>3. ~Ahead(h, p) /\ ~Unpublished(h, p)
  BY <1>1, <1>2 DEF Ahead, Unpublished
<1>4. Good(p)' /\ (~force => Pushed(p)')
  BY <1>1, <1>3 DEF Solo, Good, Pushed
<1>5. /\ call'[h].pc \in {"reply", "force", "apply"} /\ call'[h].idx = 1
      /\ call'[h].pc = "reply" => call'[h].reply = "invalid"
      /\ \A g \in Handlers \ {h} : call'[g] = call[g]
      /\ call' \in [Handlers -> CallRecord] /\ CallInv'
  BY Received
<1>6. Told(h, p)'
  <2>1. Upto(call'[h], (deal[h].twin = p)') = 1
    <3>1. CASE call'[h].pc = "reply"
      BY <1>5, <3>1, UptoIs
    <3>2. CASE call'[h].pc \in {"force", "apply"}
      BY <1>5, <3>2, UptoIs
    <3> QED
      BY <1>5, <3>1, <3>2
  <2>2. Items(h)' \in Seq(ItemRecord)
    <3>1. Items(h)' = r.props
      BY Received DEF Items
    <3> QED
      BY <3>1, TwinAssumption DEF ItemRecord
  <2>3. \A i \in DOMAIN Items(h)' : ~Latest(Items(h)', p, i, 1)
    BY <2>2, LatestFacts
  <2> QED
    BY <2>1, <2>3 DEF Told
<1> QED
  BY <1>1, <1>4, <1>5, <1>6, OffSolo

LEMMA ReceiveFramed ==
  ASSUME TypeInv, NEW h \in Handlers, NEW r \in Requests, NEW p \in Twins,
         Receive(h, r)
  PROVE  Frame(h, p)
<1>1. UNCHANGED <<desired, reported, register, recorded, published, force, deal>>
  BY DEF Receive, CallFrame, twinVars, pushVars
<1>2. \A g \in Handlers \ {h} : call'[g] = call[g]
  BY Received
<1> QED
  BY <1>1, <1>2 DEF Frame

LEMMA CallSolo ==
  ASSUME TypeInv, Place, Place', NEW h \in Handlers, NEW p \in Twins, Clean(p)',
         CallOnlyStep(h), Solo(h, p)
  PROVE  Solo(h, p)'
BY SkipItemSolo, ApplyTwinSolo, ApplyNoTwinSolo, WaitEndsSolo, DirectWritesSolo,
   DirectElseSolo, ForceSyncSolo, EndsSolo, ReplySolo DEF CallOnlyStep

-----------------------------------------------------------------------------
(* The data thread's loop and device_start.                                *)

LEMMA DataFramed ==
  ASSUME TypeInv, NEW p \in Twins, Kind[p] = "writable",
         DataPolls \/ DataSimulates \/ DataNext
  PROVE  /\ Frame("data", p) /\ reported'[p] = reported[p]
         /\ recorded'[p] = recorded[p]
         /\ UNCHANGED <<desired, register, published, force, call>>
         /\ deal["data"].pc \notin Working /\ deal'["data"].pc \notin Working
<1>1. /\ "data" \notin Handlers /\ "data" \in Writers
      /\ deal \in [Writers -> DealRecord] /\ next \in Twins
      /\ reported \in [Twins -> Texts] /\ recorded \in [Twins -> Texts]
  BY TypeFacts, TwinAssumption DEF Writers, TypeInv, TypeOK
<1>2. UNCHANGED <<desired, register, published, force, call>>
  BY DEF DataPolls, DataSimulates, DataNext, twinVars, pushVars
<1>3. deal["data"].pc \notin Working
  BY OffFacts DEF DataPolls, DataSimulates, DataNext, Working
<1>4. /\ deal'["data"].pc \notin Working
      /\ \A v \in Writers \ {"data"} : deal'[v] = deal[v]
  <2>1. CASE DataPolls
    <3> DEFINE d == [Off EXCEPT !.pc = "test", !.twin = next]
    <3>1. d.pc = "test" /\ deal' = [deal EXCEPT !["data"] = d]
      BY <1>1, <2>1, OffFacts DEF DataPolls
    <3> HIDE DEF d
    <3> QED
      BY <1>1, <3>1 DEF Working
  <2>2. CASE DataSimulates
    BY <1>3, <2>2 DEF DataSimulates
  <2>3. CASE DataNext
    BY <1>1, <2>3, OffFacts DEF DataNext, Working
  <2> QED
    BY <2>1, <2>2, <2>3
<1>5. reported'[p] = reported[p] /\ recorded'[p] = recorded[p]
  <2>1. CASE DataSimulates
    <3>1. next # p
      BY <2>1 DEF DataSimulates
    <3> QED
      BY <1>1, <2>1, <3>1 DEF DataSimulates
  <2>2. CASE DataPolls \/ DataNext
    BY <2>2 DEF DataPolls, DataNext, twinVars, pushVars
  <2> QED
    BY <2>1, <2>2
<1>6. Frame("data", p)
  BY <1>2, <1>4, <1>5 DEF Frame
<1> QED
  BY <1>2, <1>3, <1>4, <1>5, <1>6

LEMMA DataSolo ==
  ASSUME TypeInv, NEW p \in Twins, Kind[p] = "writable",
         DataPolls \/ DataSimulates \/ DataNext, Solo("data", p)
  PROVE  Solo("data", p)'
<1>1. "data" \notin Handlers
  BY TwinAssumption
<1>2. /\ reported'[p] = reported[p] /\ recorded'[p] = recorded[p]
      /\ UNCHANGED <<desired, register, published, force, call>>
      /\ deal["data"].pc \notin Working /\ deal'["data"].pc \notin Working
  BY DataFramed
<1>3. DealOwn("data", p)'
  BY <1>2 DEF DealOwn, Working
<1>4. Good(p) /\ (~force => Pushed(p))
  BY <1>1, <1>2 DEF Solo, Ahead, Unpublished, Working
<1> QED
  BY <1>1, <1>2, <1>3, <1>4 DEF Solo, Own, Good, Pushed

(* The twins are rebuilt empty; no one is at work on p then.               *)
LEMMA RebuildClean ==
  ASSUME TypeInv, Place, TypeInv', Place', NEW p \in Twins, Clean(p)', Rebuild
  PROVE  CleanInv(p)'
<1>1. p \in Names /\ "data" \in Writers /\ deal \in [Writers -> DealRecord]
  BY TypeFacts DEF Writers
<1>2. /\ reported'[p] = None /\ UNCHANGED call
      /\ Disturb({n \in Names : \E h \in Handlers : Active(h, n)})
  BY DEF Rebuild
<1>3. \A h \in Handlers : ~Active(h, p)
  BY <1>1, <1>2 DEF Disturb, Clean
<1>4. \A h \in Handlers : ~Active(h, p)'
  <2> SUFFICES ASSUME NEW h \in Handlers PROVE ~Active(h, p)'
    OBVIOUS
  <2>1. h # "data"
    BY TwinAssumption
  <2> QED
    BY <1>2, <1>3, <2>1 DEF Active, Items
<1>5. ~Active("data", p)'
  <2>1. deal["data"] = Off
    BY DEF Rebuild, Place
  <2>2. deal'["data"].pc = "off"
    BY <1>1, <2>1, OffFacts DEF Rebuild, DealRecord
  <2> QED
    BY <2>2 DEF Active
<1>6. \A w \in Writers : Own(w, p)'
  <2> SUFFICES ASSUME NEW w \in Writers PROVE Own(w, p)'
    OBVIOUS
  <2>1. ~Active(w, p)'
    BY <1>4, <1>5 DEF Writers
  <2> QED
    BY <2>1, AwayAfter
<1>7. Good(p)' /\ Pushed(p)'
  BY <1>2 DEF Good, Pushed
<1> QED
  BY <1>6, <1>7 DEF CleanInv

-----------------------------------------------------------------------------
(* Every step.                                                             *)

LEMMA Disturbs == [Next]_vars => (\E P : Disturb(P)) \/ UNCHANGED vars
<1> SUFFICES ASSUME [Next]_vars PROVE (\E P : Disturb(P)) \/ UNCHANGED vars
  OBVIOUS
<1>1. ASSUME NEW w \in Writers, DealStep(w) PROVE \E P : Disturb(P)
  BY <1>1 DEF DealStep, DealTest, DealWrites, DealFails, DealReports, DealRecords,
     DealPublishes
<1>2. ASSUME NEW h \in Handlers, CallOnlyStep(h) PROVE \E P : Disturb(P)
  BY <1>2 DEF CallOnlyStep, SkipItem, ApplyTwin, ApplyNoTwin, WaitEnds,
     DirectWrites, DirectUnknown, DirectFails, ForceSync, ForceEnds, ApplyEnds,
     OuterEnds, Reply
<1>3. ASSUME OtherStep PROVE \E P : Disturb(P)
  BY <1>3 DEF OtherStep, Rebuild, DataPolls, DataSimulates, DataNext, Receive
<1> QED
  BY <1>1, <1>2, <1>3, NextCases

LEMMA ApartStep ==
  ASSUME TypeInv, Apart, [Next]_vars
  PROVE  Apart' /\ \A n \in Names : disturbed[n] => disturbed'[n]
<1>1. CASE \E P : Disturb(P)
  <2>1. PICK P : Disturb(P)
    BY <1>1
  <2>2. ASSUME NEW n \in Names
        PROVE  disturbed'[n] = (disturbed[n] \/ n \in P \/ Overlap(n)')
    BY <2>1 DEF Disturb
  <2> QED
    BY <2>2 DEF Apart
<1>2. CASE UNCHANGED vars
  <2>1. ASSUME NEW n \in Names PROVE Overlap(n)' <=> Overlap(n)
    BY <1>2 DEF vars, Overlap, Active, Items
  <2> QED
    BY <1>2, <2>1 DEF vars, Apart
<1> QED
  BY <1>1, <1>2, Disturbs

LEMMA CleanStep ==
  ASSUME TypeInv, Place, Apart, TypeInv', Place', [Next]_vars,
         NEW p \in Twins, CleanInv(p)
  PROVE  CleanInv(p)'
<1> SUFFICES ASSUME Clean(p)' PROVE CleanInv(p)'
  BY DEF CleanInv
<1>1. p \in Names
  BY TypeFacts
<1>2. Clean(p) /\ ~Overlap(p) /\ ~Overlap(p)' /\ Kind[p] = "writable"
  BY <1>1, ApartStep DEF Clean, Apart
<1>3. ASSUME NEW w \in Writers, DealStep(w) PROVE CleanInv(p)'
  <2>1. Frame(w, p)
    BY <1>3, DealFramed
  <2>2. Solo(w, p) => Solo(w, p)'
    BY <1>2, <1>3, DealElsewhere, DealHere
  <2> QED
    BY <1>2, <2>1, <2>2, Glue
<1>4. ASSUME NEW h \in Handlers, CallOnlyStep(h) PROVE CleanInv(p)'
  <2>1. Frame(h, p)
    BY <1>4, CallFramed
  <2>2. Solo(h, p) => Solo(h, p)'
    BY <1>4, CallSolo
  <2> QED
    BY <1>2, <2>1, <2>2, Glue DEF Writers
<1>5. CASE OtherStep
  <2>1. CASE \E h \in Handlers : \E r \in Requests : Receive(h, r)
    <3>1. PICK h \in Handlers, r \in Requests : Receive(h, r)
      BY <2>1
    <3>2. Frame(h, p)
      BY <3>1, ReceiveFramed
    <3>3. Solo(h, p) => Solo(h, p)'
      BY <3>1, ReceiveSolo
    <3> QED
      BY <1>2, <3>2, <3>3, Glue DEF Writers
  <2>2. CASE Rebuild
    BY <2>2, RebuildClean
  <2>3. CASE DataPolls \/ DataSimulates \/ DataNext
    <3>1. "data" \in Writers
      BY DEF Writers
    <3>2. Frame("data", p)
      BY <1>2, <2>3, DataFramed
    <3>3. Solo("data", p) => Solo("data", p)'
      BY <1>2, <2>3, DataSolo
    <3> QED
      BY <1>2, <3>1, <3>2, <3>3, Glue
  <2> QED
    BY <1>5, <2>1, <2>2, <2>3 DEF OtherStep
<1>6. CASE UNCHANGED vars
  BY <1>6 DEF vars, twinVars, pushVars, CleanInv, Clean, Own, DealOwn, CallOwn,
     Told, Items, Item, Ahead, Good, Unpublished, Pushed
<1> QED
  BY <1>3, <1>4, <1>5, <1>6, NextCases

-----------------------------------------------------------------------------
(* From the start.                                                         *)

LEMMA InitTwin == Init => TwinInv
<1> SUFFICES ASSUME Init PROVE TwinInv
  OBVIOUS
<1> USE DEF Init
<1>1. /\ \A w \in Writers : deal[w] = Off
      /\ \A h \in Handlers : /\ call[h] = Idle /\ Items(h) = <<>>
                             /\ h \in Writers /\ h # "data"
      /\ "data" \in Writers
  BY IdleType, TwinAssumption DEF Items, Writers
<1>2. TypeInv
  <2>1. deal \in [Writers -> DealRecord] /\ call \in [Handlers -> CallRecord]
    BY OffFacts, IdleType
  <2>2. DealInv
    BY <1>1, OffFacts DEF DealInv, Working
  <2>3. CallInv
    BY <1>1, <2>1, IdleType DEF CallInv
  <2>4. /\ next \in Twins /\ sent \in 0 .. MaxWork /\ faults \in 0 .. MaxFaults
        /\ {started, force} \subseteq BOOLEAN
    <3>1. next = 1 /\ sent = 0 /\ faults = 0
      OBVIOUS
    <3>2. NumTwins \in Nat \ {0} /\ MaxWork \in Nat /\ MaxFaults \in Nat
      BY TwinAssumption
    <3>3. started = FALSE /\ force \in BOOLEAN
      BY TwinAssumption
    <3>4. next \in Twins /\ sent \in 0 .. MaxWork /\ faults \in 0 .. MaxFaults
      BY ONLY <3>1, <3>2 DEF Twins
    <3>5. {started, force} \subseteq BOOLEAN
      BY ONLY <3>3
    <3> QED
      BY ONLY <3>4, <3>5
  <2>5. /\ reported \in [Twins -> Texts] /\ recorded \in [Twins -> Texts]
        /\ published \in [Twins -> Texts] /\ register \in [Names -> Nat]
        /\ disturbed \in [Names -> BOOLEAN]
    BY DEF Texts
  <2>6. \A h \in Handlers : /\ call[h] \in CallRecord
                            /\ call[h].idx \in 1 .. Len(Items(h)) + 1
    BY <1>1, IdleType
  <2>7. TypeOK
    BY <2>1, <2>4, <2>5, <2>6 DEF TypeOK, DealRecord, CallRecord
  <2> QED
    BY <2>2, <2>3, <2>7 DEF TypeInv
<1>3. Place
  BY <1>1, IdleType, OffFacts DEF Place
<1>4. \A w \in Writers : \A n : ~Active(w, n)
  <2>1. \A n : ~Active("data", n)
    BY <1>1, OffFacts DEF Active
  <2>2. \A h \in Handlers : \A n : ~Active(h, n)
    BY <1>1 DEF Active
  <2> QED
    BY <2>1, <2>2 DEF Writers
<1>5. Apart
  BY <1>4 DEF Apart, Overlap
<1>6. ASSUME NEW p \in Twins PROVE CleanInv(p)
  <2>1. \A w \in Writers : Own(w, p)
    BY <1>2, <1>3, <1>4, Away
  <2>2. Good(p) /\ Pushed(p)
    BY DEF Good, Pushed
  <2> QED
    BY <2>1, <2>2 DEF CleanInv
<1> QED
  BY <1>2, <1>3, <1>5, <1>6 DEF TwinInv

LEMMA TwinStep == TwinInv /\ [Next]_vars => TwinInv'
<1> SUFFICES ASSUME TwinInv, [Next]_vars PROVE TwinInv'
  OBVIOUS
<1>1. TypeInv /\ Place /\ Apart /\ \A p \in Twins : CleanInv(p)
  BY DEF TwinInv
<1>2. TypeInv'
  BY <1>1, TypeStep
<1>3. Place'
  BY <1>1, PlaceStep
<1>4. Apart'
  BY <1>1, ApartStep
<1>5. \A p \in Twins : CleanInv(p)'
  BY <1>1, <1>2, <1>3, CleanStep
<1> QED
  BY <1>2, <1>3, <1>4, <1>5 DEF TwinInv

(* Every reachable state of the writers satisfies the invariant.           *)
THEOREM TwinInvariant == Spec => []TwinInv
<1> QED
  BY InitTwin, TwinStep, PTL DEF Spec

-----------------------------------------------------------------------------
(* What the invariant says of a twin at which no one is at work.           *)

LEMMA AtRest ==
  ASSUME TwinInv, NEW p \in Twins, Clean(p),
         \A w \in Writers : ~Ahead(w, p) /\ ~Unpublished(w, p)
  PROVE  Good(p) /\ (~force => Pushed(p))
BY DEF TwinInv, CleanInv

LEMMA QuietFacts ==
  ASSUME TwinInv, NEW p \in Twins, Settled(p), ~disturbed[p]
  PROVE  Good(p) /\ (~force => Pushed(p)) /\ reported[p] # None
<1>1. \A w \in Writers : ~Ahead(w, p) /\ ~Unpublished(w, p)
  BY Away DEF TwinInv, Settled, Quiet
<1>2. Clean(p) /\ reported[p] # None
  BY DEF Settled, Clean
<1> QED
  BY <1>1, <1>2, AtRest

(* Strings, registers, deals and calls keep their types, and a call's      *)
(* index its range, for every instance of TwinSync.                        *)
THEOREM TwinTypes == Spec => []TypeOK
<1>1. TwinInv => TypeOK
  BY DEF TwinInv, TypeInv
<1> QED
  BY <1>1, TwinInvariant, PTL

(* device_deal_twin may take reported = desired for "already written":     *)
(* at a settled, undisturbed twin the register has the value.              *)
THEOREM QuietTwins == Spec => []QuietTwinMatchesRegister
<1>1. TwinInv => QuietTwinMatchesRegister
  BY QuietFacts DEF QuietTwinMatchesRegister, Good
<1> QED
  BY <1>1, TwinInvariant, PTL

(* Without MAPPER_FORCE_FALLBACK the database and the broker have seen the *)
(* value of a settled, undisturbed twin last.                              *)
THEOREM QuietTwinsPublished == Spec => []QuietTwinIsPublished
<1>1. TwinInv => QuietTwinIsPublished
  BY QuietFacts DEF QuietTwinIsPublished, Pushed
<1> QED
  BY <1>1, TwinInvariant, PTL

(* An OK reply for a known device means that the last value the request    *)
(* gives for a writable, undisturbed twin is in its register.              *)
THEOREM OkReplies == Spec => []OkMeansReached
<1>1. TwinInv => OkMeansReached
  <2> SUFFICES ASSUME TwinInv, NEW h \in Handlers, call[h].reply = "ok",
                      call[h].req.dev = "known", NEW i \in DOMAIN Items(h),
                      Items(h)[i].name \in Twins, Clean(Items(h)[i].name),
                      Items(h)[i].val # None,
                      \A j \in i + 1 .. Len(Items(h)) :
                        \/ TwinOf(Items(h)[j].name, j) # Items(h)[i].name
                        \/ Items(h)[j].val = None
               PROVE  register[Items(h)[i].name] = Atoi[Items(h)[i].val]
    BY DEF OkMeansReached, Clean
  <2> DEFINE s == Items(h)
             p == s[i].name
  <2>1. /\ s \in Seq(ItemRecord) /\ DOMAIN s = 1 .. Len(s) /\ Len(s) \in Nat
        /\ call[h].req.props = s /\ h \in Writers /\ h # "data" /\ p \in Names
    BY ItemFacts, TypeFacts, TwinAssumption DEF TwinInv, TypeInv, Items, Writers
  <2>2. call[h].pc = "reply" /\ deal[h].pc = "off"
    BY DEF TwinInv, Place
  <2>3. Latest(s, p, i, Len(s) + 1)
    BY <2>1 DEF Latest
  <2>4. Upto(call[h], deal[h].twin = p) = Len(s) + 1
    BY <2>1, <2>2, UptoIs
  <2>5. reported[p] = s[i].val
    BY <2>1, <2>3, <2>4 DEF TwinInv, CleanInv, Own, CallOwn, Told
  <2>6. Active(h, p)
    BY <2>1 DEF Active
  <2>7. \A v \in Writers \ {h} : ~Active(v, p)
    BY <2>1, <2>6 DEF TwinInv, Apart, Overlap, Clean
  <2>8. ASSUME NEW w \in Writers PROVE ~Ahead(w, p) /\ ~Unpublished(w, p)
    <3>1. CASE w = h
      BY <2>2, <3>1 DEF Ahead, Unpublished
    <3>2. CASE w # h
      BY <2>7, <3>2, Away DEF TwinInv
    <3> QED
      BY <3>1, <3>2
  <2>9. Good(p)
    BY <2>8, AtRest
  <2> QED
    BY <2>5, <2>9 DEF Good
<1> QED
  BY <1>1, TwinInvariant, PTL

=============================================================================
