-------------------------- MODULE MCWrappingClock --------------------------
(* A bootstrapped device, no apps, and a day of a few units.                *)
EXTENDS WrappingClock
\* No stored key is too long.
FirstBytes == [key \in LongKeys |-> CHOOSE k \in BindKeys : TRUE]
ClockOptions ==
  { [hasBootstrapSsid |-> TRUE, initialSecret |-> InitialSecret,
     connectTimeout |-> 1, nonceTimeout |-> 1,
     needAdvanced |-> FALSE, confirmation |-> "NOT_REQUIRED",
     retryBootstrap |-> 1, retryDestination |-> 2] }
=============================================================================
