-------------------------- MODULE MCBootstrapWifi --------------------------
(***************************************************************************)
(* Instances of BootstrapWifi for TLC: the options of each run.  Timeouts  *)
(* of one or two units and at most two attempts let every deadline pass    *)
(* and every attempt counter reach its limit.                              *)
(***************************************************************************)
EXTENDS BootstrapWifi, TLC

Options(advanced, confirmation, attemptsBoot, attemptsDest) ==
  [hasBootstrapSsid |-> TRUE, initialSecret |-> InitialSecret,
   connectTimeout |-> 1, nonceTimeout |-> 1,
   needAdvanced |-> advanced, confirmation |-> confirmation,
   retryBootstrap |-> attemptsBoot, retryDestination |-> attemptsDest]

\* The key that a stored key which is too long is cut to.
FirstBytes == [key \in LongKeys |-> CHOOSE k \in BindKeys : TRUE]

\* With and without the advanced connection, every confirmation mode, a retry
\* count of 0 (what the example program passes) and of 2.
SafetyOptions ==
  { Options(TRUE, "REQUIRED_FIRST_START", 1, 1),
    Options(FALSE, "ALWAYS_REQUIRED", 0, 2),
    Options(FALSE, "NOT_REQUIRED", 2, 0) }

\* Every limit is one that the counter can pass.
LivenessOptions ==
  { Options(TRUE, "NOT_REQUIRED", 1, 1),
    Options(FALSE, "REQUIRED_FIRST_START", 0, 2),
    Options(TRUE, "NOT_REQUIRED", 2, 0) }

PlainOptions == { Options(FALSE, "NOT_REQUIRED", 1, 1) }

\* A session that outlives a slow scan.
SlowScanOptions == { [o EXCEPT !.nonceTimeout = 6] : o \in PlainOptions }

FirstStartOptions == { Options(FALSE, "REQUIRED_FIRST_START", 1, 1) }

\* As many attempts as the uint8_t option can express.
EndlessOptions == { Options(FALSE, "NOT_REQUIRED", MaxCount, 1) }

\* Two apps differ in their nonce only.
Apps == Permutations(AppNonces)
=============================================================================
