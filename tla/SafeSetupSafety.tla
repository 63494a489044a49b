---------------------------- MODULE SafeSetupSafety ----------------------------
(* What a page may conclude from its scan of a Safe. *)
EXTENDS SafeSetup

TypeOK ==
  /\ version \in BOOLEAN /\ safe \in Safe /\ wrapped \in Nat
  /\ scan \in [Pages -> Safe \cup {NoScan}] /\ partial \in [Pages -> Safe]
  /\ fetch \in [Pages -> Reads \cup {"none"}] /\ phase \in [Pages -> Phases]
  /\ sent \in [Pages -> [op : Operations, nonce : Nat]]
  /\ outside \in 0 .. MaxOutside /\ sends \in 0 .. MaxSends /\ visits \in 0 .. MaxVisits
  /\ \A p \in Pages : phase[p] # "idle" => scan[p] # NoScan
  /\ errored \in [Pages -> BOOLEAN]
  /\ disturbed \in [Pages -> BOOLEAN] /\ doubted \in [Pages -> BOOLEAN]

\* A page at rest that reports no error shows the Safe as it is, its own last
\* confirmed transaction included, unless somebody else acted since its last
\* scan began (the effect on the receipt; the reads of one scan are not of one
\* block; a read that fails leaves the old scan and its error, useSafeStatus).
SettledScanIsCurrent ==
  /\ TypeOK
  /\ \A p \in Pages :
    (/\ scan[p] # NoScan /\ fetch[p] = "none" /\ ~errored[p]
     /\ phase[p] # "confirmed" /\ ~disturbed[p])
      => scan[p] = safe

\* A transaction of the onboarding page, wrapping included, fails only if the
\* page had no settled scan of the present Safe when it was sent (a query under
\* way, one that failed, somebody else's transaction since it began), if
\* somebody else acted before it was mined, if the page could not learn what
\* became of it, or if the owners enabled the module's address before it was
\* deployed, which the page takes for progress.
\* Wrapping from the vault page is not covered: it asks too little (Offered).
FailureIsExplained ==
  \A p \in Pages :
    (phase[p] = "failed" /\ sent[p].op # "vault shield")
      => doubted[p] \/ (safe.enabled /\ ~safe.deployed)

\* A page that deployed the module comes to rest showing it, or an error: the
\* scan that follows the receipt began after it, whatever was under way.
DeploymentIsSeen ==
  \A p \in Pages :
    (phase[p] = "confirmed" /\ sent[p].op = "deploy")
      ~> /\ phase[p] # "confirmed" /\ fetch[p] = "none"
         /\ errored[p] \/ (scan[p] # NoScan /\ scan[p].deployed)
=============================================================================
