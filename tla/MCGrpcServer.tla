---------------------------- MODULE MCGrpcServer ----------------------------
(* Instances of GrpcServer: main and RegisterMapper agree on the socket    *)
(* path, or differ because EDGECORE_SOCK is set, or there is no            *)
(* config.yaml for RegisterMapper to read.                                 *)
EXTENDS GrpcServer

CONSTANT Other      \* a socket path that is not the default

MCConfs ==
  {[main |-> Default, env |-> FALSE, found |-> TRUE, own |-> Default],
   [main |-> Other,   env |-> TRUE,  found |-> TRUE, own |-> Other],
   [main |-> NoPath,  env |-> FALSE, found |-> FALSE, own |-> NoPath]}

OneConf == {[main |-> Default, env |-> FALSE, found |-> TRUE,
             own |-> Default]}
=============================================================================
