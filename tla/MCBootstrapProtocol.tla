------------------------- MODULE MCBootstrapProtocol -------------------------
EXTENDS BootstrapProtocol, TLC
CONSTANTS a1, a2, k1, k2, d1, d2
MCKeyOf == (a1 :> k1) @@ (a2 :> k2)
MCDataOf == (a1 :> d1) @@ (a2 :> d2)
\* No stored key is too long.
FirstBytes == [key \in LongKeys |-> CHOOSE k \in BindKeys : TRUE]
MCOptions ==
  { [hasBootstrapSsid |-> TRUE, initialSecret |-> InitialSecret,
     connectTimeout |-> 1, nonceTimeout |-> 1,
     needAdvanced |-> FALSE, confirmation |-> "NOT_REQUIRED",
     retryBootstrap |-> 0, retryDestination |-> 0] }

\* Two apps differ in their nonce, key and data only, and nonces are alike.
Same == [x \in {a1, a2, k1, k2, d1, d2} |-> x]
Swapped == (a1 :> a2) @@ (a2 :> a1) @@ (k1 :> k2) @@ (k2 :> k1) @@ (d1 :> d2) @@ (d2 :> d1)
Alike == {apps @@ nonces : apps \in {Same, Swapped}, nonces \in Permutations(DeviceNonces)}
=============================================================================
