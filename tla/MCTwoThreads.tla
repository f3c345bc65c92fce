---------------------------- MODULE MCTwoThreads ----------------------------
(* One app and one new key on a bootstrap network that stays.               *)
EXTENDS TwoThreads
\* No stored key is too long.
FirstBytes == [key \in LongKeys |-> CHOOSE k \in BindKeys : TRUE]
ThreadOptions ==
  { [hasBootstrapSsid |-> TRUE, initialSecret |-> InitialSecret,
     connectTimeout |-> 1, nonceTimeout |-> 2,
     needAdvanced |-> FALSE, confirmation |-> "NOT_REQUIRED",
     retryBootstrap |-> 1, retryDestination |-> 2] }
=============================================================================
