----------------------------- MODULE MCTwinSync -----------------------------
(* Instances of TwinSync. Property 1 is the twin named by TwinOne, 2 is    *)
(* writable (threshold) and a twin unless NumTwins = 1, 3 has a register   *)
(* but no twin, 4 has neither.                                             *)
EXTENDS TwinSync

CONSTANT TwinOne      \* the kind of twin 1

MCNames == 1 .. 4
MCValues == {"5", "7"}
MCAtoi == [v \in MCValues |-> IF v = "5" THEN 5 ELSE 7]
MCKind == <<TwinOne, "writable", "writable", "unknown">>

It(n, v) == [name |-> n, val |-> v]
Req(d, ps) == [dev |-> d, spec |-> TRUE, props |-> ps]

(* One value for the writable twin; two; two again, the second by position *)
(* and a name without register; the simulated twin, a match by position    *)
(* and a name without twin or register; no value.                          *)
ManyRequests ==
  {Req("known", <<It(2, v)>>) : v \in MCValues}
    \cup {Req("known", <<It(2, "5"), It(2, "7")>>),
          Req("known", <<It(2, "5"), It(4, "7")>>),
          Req("known", <<It(1, "5"), It(3, "7"), It(4, "7")>>),
          Req("unknown", <<It(2, "5"), It(4, None)>>),
          Req("unnamed", <<It(2, "7")>>),
          Req("absent", <<>>),
          [dev |-> "known", spec |-> FALSE, props |-> <<>>]}

FewRequests == {Req("known", <<It(1, v)>>) : v \in MCValues}

MCReadings == {"5"}

Both == {TRUE, FALSE}
Never == {FALSE}
=============================================================================
