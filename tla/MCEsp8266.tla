----------------------------- MODULE MCEsp8266 -----------------------------
(***************************************************************************)
(* The options of the example program, which leaves the retry counts at 0, *)
(* and others with a confirmation and more than one attempt.               *)
(***************************************************************************)
EXTENDS Esp8266
\* No stored key is too long.
FirstBytes == [key \in LongKeys |-> CHOOSE k \in BindKeys : TRUE]
Options(confirmation, attempts) ==
  [hasBootstrapSsid |-> TRUE, initialSecret |-> InitialSecret,
   connectTimeout |-> 1, nonceTimeout |-> 1,
   needAdvanced |-> FALSE, confirmation |-> confirmation,
   retryBootstrap |-> attempts, retryDestination |-> 2 * attempts]
ExampleOptions == { Options("NOT_REQUIRED", 0), Options("ALWAYS_REQUIRED", 1) }
=============================================================================
