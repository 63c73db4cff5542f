----------------------------- MODULE MCRegistry -----------------------------
(* Instances of Registry: registration replies, URLs and UpdateDevice      *)
(* targets. A name is the sequence of its parts.                           *)
EXTENDS Registry

A == <<"a">>
B == <<"b">>
AB == <<"a", ".", "b">>
TA == <<"test", ".", "a">>
Long == <<"long">>     \* stands for more than 63 characters
N1 == <<"n1">>
P == <<"p">>
Q == <<"q">>

D(ns, name, ref, proto, props, ms) ==
  [ns |-> ns, name |-> name, ref |-> ref, proto |-> proto, props |-> props,
   methods |-> ms]
M(name) == [name |-> name, ns |-> "n1"]

(* Two devices of one name in two namespaces, a model that is missing or   *)
(* there twice, a device without protocol, without properties, with        *)
(* methods of its own; an empty reply.                                     *)
PlainReplies ==
  {[devices |-> <<D(N1, A, "m", TRUE, <<P, Q>>, <<>>),
                  D(N1, B, "k", TRUE, <<P>>, <<>>),
                  D(<<"n2">>, A, "m", TRUE, <<Q>>, <<>>)>>,
    models |-> <<M("m"), M("m")>>],
   [devices |-> <<D(N1, B, "m", FALSE, <<P>>, <<>>),
                  D(N1, A, "k", TRUE, <<P, Q>>, << <<Q>>, <<P>> >>),
                  D(N1, Long, "m", TRUE, <<>>, <<>>)>>,
    models |-> <<M("k"), M("m")>>],
   [devices |-> <<>>, models |-> <<>>]}

Get(route, segs) == [get |-> TRUE, route |-> route, segs |-> segs]

PlainUrls ==
  {Get("device", <<N1, A, P>>), Get("device", <<N1, A, Q>>),
   Get("device", <<N1, B, P>>), Get("device", <<N1, Long, P>>),
   Get("devicemethod", <<N1, A, <<"SetProperty">>, Q, <<"7">>>>),
   Get("devicemethod", <<N1, B, <<"SetProperty">>, P, <<"7">>>>),
   Get("devicemethod", <<N1, A>>),
   Get("devicemethod", <<N1, B, <<"SetProperty">>, P, <<>>>>),
   Get("meta/model", <<N1, A>>), Get("database", <<N1, A>>),
   Get("ping", <<>>), [get |-> FALSE, route |-> "ping", segs |-> <<>>]}

PlainTargets == {[ns |-> <<>>, name |-> A], [ns |-> N1, name |-> B]}

LongOnes == {Long}
CutLong == [s \in LongOnes |-> <<"lon">>]

(* A dotted name, a device named like its last segment.                    *)
DottedReplies ==
  {[devices |-> <<D(N1, B, "m", TRUE, <<P>>, <<>>),
                  D(N1, AB, "m", TRUE, <<P>>, <<>>)>>,
    models |-> <<M("m")>>]}
DottedUrls == {Get("device", <<N1, n, P>>) : n \in {B, AB}}

NoTargets == {}
NoCut == [s \in {} |-> s]
=============================================================================
