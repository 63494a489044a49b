--------------------------- MODULE DeploymentSafety ---------------------------
(* What the release pipeline promises about the chain and the manifest.     *)
EXTENDS Deployment

TypeOK ==
  /\ nonce \in 0 .. MaxNonce /\ now \in 0 .. MaxTime /\ mishaps \in 0 .. MaxMishaps
  /\ \A a \in Addresses : code[a] \in Names \cup AdapterNames \cup {NoCode}
  /\ wired \subseteq Addresses
  /\ \A a \in Addresses : a >= nonce => code[a] = NoCode /\ refs[a] = {}
  /\ manifest # NoManifest => DOMAIN manifest.contracts = Names
  /\ script # NoScript => script.pc \in Nat /\ script.start <= nonce

Recorded(c) == manifest.contracts[c]

\* A manifest, written or rebuilt, names one deployment: every address holds the
\* contract it is listed under, and what those contracts point at (constructor
\* predictions and wirings) is listed under the same name.  Two interrupted
\* deployments, a nonce taken by another transaction and a wrong --start-nonce
\* all try to break it (assertPredicted, rebuild's reads).
ManifestIsCoherent ==
  /\ TypeOK
  /\ manifest # NoManifest =>
    \A c \in Names : /\ CodeAt(Recorded(c)) = c
                     /\ \A r \in refs[Recorded(c)] : Recorded(r[1]) = r[2]

\* Once a manifest names adapters, no adapter of an abandoned attempt serves
\* beside them, and the pooled position of the recorded ledger points at the Aave
\* adapter it names, whatever attempt of adapters.ts opened it (openPosition is
\* one-shot and sent before the registrations; the manifest comes last).
AdaptersMatchManifest ==
  (manifest # NoManifest /\ manifest.adapters # <<>>) =>
    /\ \A p \in position :
         p[1] = Recorded("PositionLedger") => p[2] = manifest.adapters["AaveSupply"]
    /\ \A x \in applied : x[1] = Recorded("AdapterRegistry") =>
         \E c \in AdapterNames : manifest.adapters[c] = x[2]

\* When verify-live passes, the deployment is whole: it reads only that the
\* vault and the ledger are wired, never to what, yet both point at the
\* recorded contracts, and each direction has an adapter of its own.
PassedIsWhole ==
  (manifest # NoManifest /\ ChecksPass) =>
    /\ \A k \in DOMAIN Wirings : \A c \in WireArgs(Wirings[k]) :
         <<c, Recorded(c)>> \in refs[Recorded(Wirings[k])]
    /\ \A c \in AdapterNames : \E x \in applied :
         x[1] = Recorded("AdapterRegistry") /\ CodeAt(x[2]) = c

\* A script that polls for the delay comes to an end: chain time passes whatever
\* the operator's own clock says (waitForTimelock).
WaitsEnd == (Applying /\ script.wait) ~> ~Applying
=============================================================================
