---------------------------- MODULE MCDataSinks ----------------------------
(* Instances of DataSinks.                                                 *)
EXTENDS DataSinks

EveryMethod == AllMethods
OnlyHttp == {"http"}
FewRetries == {0, 2}
OneAttempt == {1}
=============================================================================
