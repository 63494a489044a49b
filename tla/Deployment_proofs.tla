--------------------------- MODULE Deployment_proofs ---------------------------
(***************************************************************************)
(* Proofs about the release pipeline for every value of its constants: any *)
(* number of transactions, interrupted scripts and foreign transactions.   *)
(***************************************************************************)
EXTENDS DeploymentSafety, FiniteSetTheorems, TLAPS

-----------------------------------------------------------------------------
(* The names and their order. *)

\* The fourteen contracts of deploy.ts.
LEMMA NamesListed ==
  /\ DOMAIN Order = 1 .. 14 /\ Len(Order) = 14
  /\ Names = {"PauseController", "AssetRegistry", "AdapterRegistry", "PriceRegistry",
              "IntentBook", "PositionLedger", "ClearingVault", "CapsuleFactory",
              "ClearingEngine", "SettlementEngine", "ModuleFactory", "EmergencyExit",
              "WrappedUSDC", "WrappedWETH"}
<1>1. DOMAIN Order = 1 .. 14 /\ Len(Order) = 14
  BY DEF Order
<1>2. 1 .. 14 = {1, 2, 3, 4, 5, 6, 7, 8, 9, 10, 11, 12, 13, 14}
  OBVIOUS
<1>3. Names = {Order[k] : k \in {1, 2, 3, 4, 5, 6, 7, 8, 9, 10, 11, 12, 13, 14}}
  BY <1>1, <1>2 DEF Names
<1>4. Names = {Order[1], Order[2], Order[3], Order[4], Order[5], Order[6], Order[7], Order[8],
               Order[9], Order[10], Order[11], Order[12], Order[13], Order[14]}
  BY <1>3
<1> QED BY <1>1, <1>4 DEF Order

\* No name is listed twice.
LEMMA OrderIsOneToOne ==
  ASSUME NEW i \in 1 .. 14, NEW j \in 1 .. 14, Order[i] = Order[j]
  PROVE  i = j
<1>1. i \in {1, 2, 3, 4, 5, 6, 7, 8, 9, 10, 11, 12, 13, 14} /\ j \in {1, 2, 3, 4, 5, 6, 7, 8, 9, 10, 11, 12, 13, 14}
  OBVIOUS
<1> QED BY <1>1 DEF Order

\* The offset of the contract created at the k-th place is k - 1.
LEMMA OffsetOfPlace ==
  ASSUME NEW k \in 1 .. 14
  PROVE  Order[k] \in Names /\ Offset(Order[k]) = k - 1
<1>1. \A i \in 1 .. 14 : Order[i] = Order[k] => i = k
  BY OrderIsOneToOne
<1>2. (CHOOSE i \in DOMAIN Order : Order[i] = Order[k]) = k
  BY <1>1, NamesListed
<1> QED BY <1>2, NamesListed DEF Offset, Names

\* Every contract has an offset, and the place it says.
LEMMA PlaceOfOffset ==
  ASSUME NEW c \in Names
  PROVE  Offset(c) \in 0 .. 13 /\ Order[Offset(c) + 1] = c
<1>1. PICK k \in 1 .. 14 : Order[k] = c
  BY NamesListed DEF Names
<1>2. Offset(c) = k - 1
  BY <1>1, OffsetOfPlace
<1> QED BY <1>1, <1>2

\* The offsets the scripts count on.
LEMMA OffsetsListed ==
  /\ Offset("PauseController") = 0 /\ Offset("AssetRegistry") = 1 /\ Offset("AdapterRegistry") = 2
  /\ Offset("PriceRegistry") = 3 /\ Offset("IntentBook") = 4 /\ Offset("PositionLedger") = 5
  /\ Offset("ClearingVault") = 6 /\ Offset("CapsuleFactory") = 7 /\ Offset("ClearingEngine") = 8
  /\ Offset("SettlementEngine") = 9 /\ Offset("ModuleFactory") = 10 /\ Offset("EmergencyExit") = 11
  /\ Offset("WrappedUSDC") = 12 /\ Offset("WrappedWETH") = 13
<1>1. /\ Order[1] = "PauseController" /\ Order[2] = "AssetRegistry" /\ Order[3] = "AdapterRegistry"
      /\ Order[4] = "PriceRegistry" /\ Order[5] = "IntentBook" /\ Order[6] = "PositionLedger"
      /\ Order[7] = "ClearingVault" /\ Order[8] = "CapsuleFactory" /\ Order[9] = "ClearingEngine"
      /\ Order[10] = "SettlementEngine" /\ Order[11] = "ModuleFactory" /\ Order[12] = "EmergencyExit"
      /\ Order[13] = "WrappedUSDC" /\ Order[14] = "WrappedWETH"
  BY DEF Order
<1>2. /\ Offset(Order[1]) = 0 /\ Offset(Order[2]) = 1 /\ Offset(Order[3]) = 2 /\ Offset(Order[4]) = 3
      /\ Offset(Order[5]) = 4 /\ Offset(Order[6]) = 5 /\ Offset(Order[7]) = 6 /\ Offset(Order[8]) = 7
      /\ Offset(Order[9]) = 8 /\ Offset(Order[10]) = 9 /\ Offset(Order[11]) = 10 /\ Offset(Order[12]) = 11
      /\ Offset(Order[13]) = 12 /\ Offset(Order[14]) = 13
  BY OffsetOfPlace
<1> QED BY <1>1, <1>2

\* A constructor is given contracts that exist, or one of the four predictions.
LEMMA ArgsAreEarlierOrPredicted ==
  ASSUME NEW c \in Names, NEW d \in ConstructorArgs(c)
  PROVE  d \in Names /\ (Offset(d) < Offset(c) \/ d \in Predicted)
BY NamesListed, OffsetsListed DEF ConstructorArgs, Predicted

\* The three adapters, none of which deploy.ts creates.
LEMMA AdaptersListed ==
  /\ DOMAIN Adapters = {1, 2, 3} /\ Len(Adapters) = 3
  /\ AdapterNames = {"BuyBase", "SellBase", "AaveSupply"}
  /\ Adapters[1] = "BuyBase" /\ Adapters[2] = "SellBase" /\ Adapters[3] = "AaveSupply"
  /\ \A c \in AdapterNames : c \notin Names
<1>1. DOMAIN Adapters = 1 .. 3 /\ Len(Adapters) = 3
  BY DEF Adapters
<1>2. 1 .. 3 = {1, 2, 3}
  OBVIOUS
<1>3. AdapterNames = {Adapters[1], Adapters[2], Adapters[3]}
  BY <1>1, <1>2 DEF AdapterNames
<1>4. AdapterNames = {"BuyBase", "SellBase", "AaveSupply"}
  BY <1>3 DEF Adapters
<1> QED BY <1>1, <1>2, <1>4, NamesListed DEF Adapters

\* The three one-shot wirings.
LEMMA WiringsListed ==
  /\ DOMAIN Wirings = {1, 2, 3} /\ Len(Wirings) = 3
  /\ Wirings[1] = "IntentBook" /\ Wirings[2] = "ClearingVault" /\ Wirings[3] = "PositionLedger"
  /\ \A k \in {1, 2, 3} : Wirings[k] \in Names /\ WireArgs(Wirings[k]) \subseteq Names
<1>1. DOMAIN Wirings = 1 .. 3 /\ Len(Wirings) = 3
  BY DEF Wirings
<1>2. 1 .. 3 = {1, 2, 3}
  OBVIOUS
<1>3. Wirings[1] = "IntentBook" /\ Wirings[2] = "ClearingVault" /\ Wirings[3] = "PositionLedger"
  BY DEF Wirings
<1> QED BY <1>1, <1>2, <1>3, NamesListed DEF WireArgs

\* What a sequence with one more element holds.
LEMMA AppendHolds ==
  ASSUME NEW S, NEW s \in Seq(S), NEW z \in S
  PROVE  /\ Append(s, z) \in Seq(S) /\ Len(Append(s, z)) = Len(s) + 1
         /\ Append(s, z)[Len(s) + 1] = z /\ \A i \in 1 .. Len(s) : Append(s, z)[i] = s[i]
BY SMT

\* The three queued registrations, none of them on the adapter registry.
LEMMA RegistrationsListed ==
  /\ DOMAIN Registrations = {1, 2, 3} /\ Len(Registrations) = 3
  /\ \A k \in {1, 2, 3} : RegistryOf(Registrations[k]) \in {"AssetRegistry", "PriceRegistry"}
<1> DEFINE Items == {"WrappedUSDC", "WrappedWETH", "route"}
<1>1. Assets \in Seq(Items) /\ Len(Assets) = 2 /\ "route" \in Items
  BY DEF Assets
<1>2. /\ Registrations \in Seq(Items) /\ Len(Registrations) = 3
      /\ Registrations[1] = Assets[1] /\ Registrations[2] = Assets[2] /\ Registrations[3] = "route"
  <2>1. /\ Append(Assets, "route") \in Seq(Items) /\ Len(Append(Assets, "route")) = 2 + 1
        /\ Append(Assets, "route")[2 + 1] = "route"
        /\ \A i \in 1 .. 2 : Append(Assets, "route")[i] = Assets[i]
    <3> DEFINE s == Assets
               z == "route"
    <3>1. s \in Seq(Items) /\ Len(s) = 2 /\ z \in Items
      BY <1>1
    <3> HIDE DEF s, z, Items
    <3>2. /\ Append(s, z) \in Seq(Items) /\ Len(Append(s, z)) = Len(s) + 1
          /\ Append(s, z)[Len(s) + 1] = z /\ \A i \in 1 .. Len(s) : Append(s, z)[i] = s[i]
      BY <3>1, AppendHolds, ZenonT(60)
    <3>3. Len(Append(s, z)) = 2 + 1 /\ Append(s, z)[2 + 1] = z /\ \A i \in 1 .. 2 : Append(s, z)[i] = s[i]
      BY <3>1, <3>2, Zenon
    <3> QED BY <3>2, <3>3, Zenon DEF s, z
  <2> QED BY <2>1 DEF Registrations
<1>3. DOMAIN Registrations = 1 .. 3
  BY <1>2
<1>4. 1 .. 3 = {1, 2, 3}
  OBVIOUS
<1> QED BY <1>2, <1>3, <1>4 DEF RegistryOf, Assets

-----------------------------------------------------------------------------
(* The inductive invariant. *)

Entries == queue \cup applied

\* What the chain holds has its type, and nothing is where nothing was created.
ChainOK ==
  /\ nonce \in 0 .. MaxNonce /\ now \in 0 .. MaxTime /\ mishaps \in 0 .. MaxMishaps
  /\ code \in [Addresses -> Names \cup AdapterNames \cup {NoCode}]
  /\ refs \in [Addresses -> SUBSET (Names \X Nat)]
  /\ \A a \in Addresses : a >= nonce => code[a] = NoCode /\ refs[a] = {}
  /\ wired \subseteq Addresses
  /\ \A y \in Entries : y[1] \in Addresses /\ y[1] < nonce

ProcessOK ==
  script # NoScript =>
    /\ DOMAIN script = {"name", "pc", "start", "at", "wait", "read"}
    /\ script.name \in {"deploy", "apply", "applyAdapters", "adapters"}
    /\ script.pc \in Nat /\ script.start \in 0 .. nonce

\* at is one whole deployment on a chain with next nonce n, contracts cd and
\* references rf: each contract at its address, what each was given listed in at, the
\* asserted part without a gap, and nothing else from the first address to the last.
Whole(at, n, cd, rf) ==
  /\ \A c \in Names : at[c] \in Addresses /\ at[c] < n /\ cd[at[c]] = c
  /\ \A c \in Names : \A r \in rf[at[c]] : r[2] = at[r[1]]
  /\ \A c \in Names : Offset(c) <= 10 => at[c] = at["PauseController"] + Offset(c)
  /\ \A c, d \in Names : Offset(c) < Offset(d) => at[c] < at[d]
  /\ \A a \in Addresses :
       a >= at["PauseController"] /\ a <= at["WrappedWETH"] /\ cd[a] # NoCode =>
         \E c \in Names : a = at[c]

Complete(at) == Whole(at, nonce, code, refs)

\* How many contracts a running deploy.ts has created.
Made == IF script.pc <= Len(Order) THEN script.pc - 1 ELSE Len(Order)

\* A running deploy.ts: contracts point at what exists, or at a prediction that
\* assertPredicted will hold it to; with the first prediction kept there is no gap
\* up to the last; what is recorded is older.
DeployOK ==
  Running("deploy") =>
    /\ script.pc \in 1 .. 21
    /\ DOMAIN script.at = {c \in Names : Offset(c) < Made}
    /\ nonce >= script.start + Made
    /\ \A c \in DOMAIN script.at :
         /\ script.at[c] \in Addresses /\ script.at[c] < nonce /\ code[script.at[c]] = c
         /\ script.at[c] >= script.start + Offset(c)
    /\ \A c, d \in DOMAIN script.at : Offset(c) < Offset(d) => script.at[c] < script.at[d]
    /\ \A c \in DOMAIN script.at : \A r \in refs[script.at[c]] :
         IF r[1] \in DOMAIN script.at
         THEN r[2] = script.at[r[1]]
         ELSE r[1] \in Predicted /\ r[2] = script.start + Offset(r[1])
    /\ (nonce = script.start + Made \/ Made >= 8) =>
         \A c \in DOMAIN script.at : Offset(c) <= 10 => script.at[c] = script.start + Offset(c)
    /\ \A a \in Addresses : a >= script.start /\ code[a] # NoCode =>
         \E c \in DOMAIN script.at : a = script.at[c]
    /\ manifest # NoManifest => \A c \in Names : Recorded(c) < script.start

\* The deployment at is of an earlier run, or the one the running script has made.
Earlier(at) == \A c \in Names : at[c] < script.start
Mine(at) == script.pc > Len(Order) /\ \A c \in Names : at[c] = script.at[c]

\* A contract is wired to everything it takes, and a wired book belongs to a
\* whole deployment: wire() is sent after the last creation.
WiredOK ==
  \A b \in wired :
    /\ b < nonce /\ code[b] \in {"IntentBook", "ClearingVault", "PositionLedger"}
    /\ \A c \in WireArgs(code[b]) : \E r \in refs[b] : r[1] = c
    /\ code[b] = "IntentBook" =>
         \E at \in [Names -> Addresses] :
           /\ Complete(at) /\ at["IntentBook"] = b
           /\ Running("deploy") => Earlier(at) \/ Mine(at)

ManifestOK ==
  manifest # NoManifest => DOMAIN manifest.contracts = Names /\ Complete(manifest.contracts)

\* A script that began by reading the manifest holds what the manifest says.
ReaderOK ==
  (script # NoScript /\ script.name # "deploy") =>
    /\ manifest # NoManifest
    /\ \A c \in Names : c \in DOMAIN script.at /\ script.at[c] = Recorded(c)

\* Whatever waits or is applied at an adapter registry is an adapter, one of each
\* kind, and came after the position of its ledger was opened.
RegistriesOK ==
  \A y \in Entries : code[y[1]] = "AdapterRegistry" =>
    /\ PositionIsOpen(y[1] + 3) /\ y[2] \in Addresses /\ code[y[2]] \in AdapterNames
    /\ \A z \in Entries : z[1] = y[1] /\ code[z[2]] = code[y[2]] => z[2] = y[2]

\* The recorded ledger's position and the recorded registry's entries are those of
\* the adapters in at.
Serves(at) ==
  /\ PositionIsOpen(Recorded("PositionLedger"))
  /\ \A p \in position : p[1] = Recorded("PositionLedger") => p[2] = at["AaveSupply"]
  /\ \A y \in Entries : y[1] = Recorded("AdapterRegistry") => \E c \in AdapterNames : y[2] = at[c]

\* A running adapters.ts: past the position, no manifest has adapters, and its own
\* are the only ones.
AdaptersOK ==
  Running("adapters") =>
    /\ script.pc \in 1 .. 8
    /\ \A k \in DOMAIN Adapters : k < script.pc =>
         /\ Adapters[k] \in DOMAIN script.at /\ script.at[Adapters[k]] \in Addresses
         /\ script.at[Adapters[k]] < nonce /\ code[script.at[Adapters[k]]] = Adapters[k]
    /\ script.pc >= 5 => manifest.adapters = <<>> /\ Serves(script.at)

RecordedServe ==
  (manifest # NoManifest /\ manifest.adapters # <<>>) => Serves(manifest.adapters)

IInv ==
  /\ ChainOK /\ ProcessOK /\ DeployOK /\ WiredOK /\ ManifestOK /\ ReaderOK
  /\ RegistriesOK /\ AdaptersOK /\ RecordedServe

-----------------------------------------------------------------------------
(* What the parts of the invariant give. *)

\* A chain that only grows keeps a whole deployment whole.
LEMMA WholeStays ==
  ASSUME NEW at, NEW n \in Nat, NEW m \in Nat, NEW cd, NEW cd2, NEW rf, NEW rf2, n <= m,
         Whole(at, n, cd, rf),
         \A a \in Addresses : a < n => cd2[a] = cd[a],
         \A c \in Names : \A r \in rf2[at[c]] : r[2] = at[r[1]]
  PROVE  Whole(at, m, cd2, rf2)
<1>1. \A c \in Names : at[c] \in Addresses /\ at[c] \in Nat /\ at[c] < m /\ cd2[at[c]] = c
  BY DeploymentAssumption DEF Whole, Addresses
<1>2. \A a \in Addresses :
        a >= at["PauseController"] /\ a <= at["WrappedWETH"] /\ cd2[a] # NoCode =>
          \E c \in Names : a = at[c]
  <2>1. "WrappedWETH" \in Names /\ at["WrappedWETH"] < n /\ at["WrappedWETH"] \in Nat
    BY <1>1, NamesListed DEF Whole
  <2>2. ASSUME NEW a \in Addresses, a >= at["PauseController"], a <= at["WrappedWETH"], cd2[a] # NoCode
        PROVE  \E c \in Names : a = at[c]
    <3>1. a \in Nat /\ a < n
      BY <2>1, <2>2, DeploymentAssumption DEF Addresses
    <3> QED BY <2>2, <3>1 DEF Whole
  <2> QED BY <2>2
<1> QED BY <1>1, <1>2 DEF Whole

\* Being whole depends on the listed addresses alone.
LEMMA WholeSame ==
  ASSUME NEW at, NEW bt, NEW n, NEW cd, NEW rf, rf \in [Addresses -> SUBSET (Names \X Nat)],
         Whole(at, n, cd, rf), \A c \in Names : bt[c] = at[c]
  PROVE  Whole(bt, n, cd, rf)
<1>1. \A c \in Names : \A r \in rf[at[c]] : r[1] \in Names
  BY DEF Whole
<1>2. "PauseController" \in Names /\ "WrappedWETH" \in Names
  BY NamesListed
<1> QED BY <1>1, <1>2 DEF Whole

\* A process that goes on keeps everything but its place.
LEMMA Advanced ==
  ASSUME ProcessOK, script # NoScript
  PROVE  /\ DOMAIN Advance = DOMAIN script /\ DOMAIN Look = DOMAIN script
         /\ Advance.name = script.name /\ Advance.pc = script.pc + 1 /\ Advance.start = script.start
         /\ Advance.at = script.at /\ Advance.wait = script.wait /\ Advance.read = FALSE
         /\ Look.name = script.name /\ Look.pc = script.pc /\ Look.start = script.start
         /\ Look.at = script.at
<1>1. DOMAIN script = {"name", "pc", "start", "at", "wait", "read"}
  BY DEF ProcessOK
<1> QED BY <1>1 DEF Advance, Look

\* A process that creates a contract remembers where.
LEMMA AdvancedWith ==
  ASSUME ProcessOK, script # NoScript, NEW c, NEW x,
         NEW t, t = [Advance EXCEPT !.at = With(@, c, x)]
  PROVE  /\ DOMAIN t = DOMAIN script /\ t.name = script.name /\ t.pc = script.pc + 1
         /\ t.start = script.start /\ t.at = With(script.at, c, x)
<1>1. DOMAIN script = {"name", "pc", "start", "at", "wait", "read"}
  BY DEF ProcessOK
<1>2. DOMAIN Advance = DOMAIN script /\ Advance.at = script.at
  BY Advanced
<1>3. t = [Advance EXCEPT !.at = With(Advance.at, c, x)]
  OBVIOUS
<1>4. t.at = With(Advance.at, c, x)
  BY <1>1, <1>2, <1>3
<1>5. /\ DOMAIN t = DOMAIN Advance /\ t.name = Advance.name /\ t.pc = Advance.pc /\ t.start = Advance.start
  BY <1>1, <1>2, <1>3
<1> QED BY <1>2, <1>4, <1>5, Advanced

\* The manifest names one deployment.
LEMMA CoherentByInv ==
  ASSUME IInv
  PROVE  ManifestIsCoherent
<1>1. TypeOK
  BY DEF IInv, ChainOK, ProcessOK, ManifestOK, TypeOK
<1>2. ASSUME manifest # NoManifest, NEW c \in Names
      PROVE  /\ CodeAt(Recorded(c)) = c
             /\ \A r \in refs[Recorded(c)] : Recorded(r[1]) = r[2]
  <2>1. Whole(manifest.contracts, nonce, code, refs)
    BY <1>2 DEF IInv, ManifestOK, Complete
  <2> QED BY <2>1 DEF Whole, CodeAt, Recorded
<1> QED BY <1>1, <1>2 DEF ManifestIsCoherent

\* The recorded adapters are the ones that serve.
LEMMA MatchByInv ==
  ASSUME IInv
  PROVE  AdaptersMatchManifest
<1> SUFFICES ASSUME manifest # NoManifest, manifest.adapters # <<>>
             PROVE  /\ \A p \in position :
                         p[1] = Recorded("PositionLedger") => p[2] = manifest.adapters["AaveSupply"]
                    /\ \A x \in applied : x[1] = Recorded("AdapterRegistry") =>
                         \E c \in AdapterNames : manifest.adapters[c] = x[2]
  BY DEF AdaptersMatchManifest
<1>1. Serves(manifest.adapters)
  BY DEF IInv, RecordedServe
<1> QED BY <1>1 DEF Serves, Entries

\* The three kinds of adapter.
LEMMA AdapterKinds == IsFiniteSet(AdapterNames) /\ Cardinality(AdapterNames) = 3
<1>1. IsFiniteSet({}) /\ Cardinality({}) = 0
  BY FS_EmptySet
<1>2. IsFiniteSet({} \cup {"BuyBase"}) /\ Cardinality({} \cup {"BuyBase"}) = 1
  BY <1>1, FS_AddElement
<1>3. {} \cup {"BuyBase"} = {"BuyBase"} /\ "SellBase" \notin {"BuyBase"}
  OBVIOUS
<1>4. IsFiniteSet({"BuyBase"} \cup {"SellBase"}) /\ Cardinality({"BuyBase"} \cup {"SellBase"}) = 2
  BY <1>2, <1>3, FS_AddElement
<1>5. {"BuyBase"} \cup {"SellBase"} = {"BuyBase", "SellBase"} /\ "AaveSupply" \notin {"BuyBase", "SellBase"}
  OBVIOUS
<1>6. /\ IsFiniteSet({"BuyBase", "SellBase"} \cup {"AaveSupply"})
      /\ Cardinality({"BuyBase", "SellBase"} \cup {"AaveSupply"}) = 3
  BY <1>4, <1>5, FS_AddElement
<1>7. {"BuyBase", "SellBase"} \cup {"AaveSupply"} = AdapterNames
  BY AdaptersListed
<1> QED BY <1>6, <1>7

\* Three adapters of different kinds are one of each.
LEMMA OneOfEachKind ==
  ASSUME NEW S, NEW kind, Cardinality(S) = 3,
         \A a \in S : kind[a] \in AdapterNames,
         \A a, b \in S : kind[a] = kind[b] => a = b
  PROVE  \A c \in AdapterNames : \E a \in S : kind[a] = c
<1> DEFINE f == [a \in S |-> kind[a]]
<1>1. f \in Injection(S, AdapterNames)
  BY DEF Injection, IsInjective
<1>2. f \in Surjection(S, AdapterNames)
  <2> HIDE DEF f
  <2> QED BY <1>1, AdapterKinds, FS_Injection
<1> QED BY <1>2 DEF Surjection

\* What verify-live passes is whole.
LEMMA WholeByInv ==
  ASSUME IInv
  PROVE  PassedIsWhole
<1> SUFFICES ASSUME manifest # NoManifest, ChecksPass
             PROVE  /\ \A k \in DOMAIN Wirings : \A c \in WireArgs(Wirings[k]) :
                         <<c, Recorded(c)>> \in refs[Recorded(Wirings[k])]
                    /\ \A c \in AdapterNames : \E x \in applied :
                         x[1] = Recorded("AdapterRegistry") /\ CodeAt(x[2]) = c
  BY DEF PassedIsWhole
<1>1. Whole(manifest.contracts, nonce, code, refs)
  BY DEF IInv, ManifestOK, Complete
<1>2. \A c \in Names : Recorded(c) \in Addresses /\ code[Recorded(c)] = c
  BY <1>1 DEF Whole, Recorded
<1>3. ASSUME NEW k \in DOMAIN Wirings, NEW c \in WireArgs(Wirings[k])
      PROVE  <<c, Recorded(c)>> \in refs[Recorded(Wirings[k])]
  <2> DEFINE w == Wirings[k]
             b == Recorded(w)
  <2>1. w \in Names /\ c \in Names
    BY <1>3, WiringsListed
  <2>2. b \in wired /\ b \in Addresses /\ code[b] = w
    BY <1>2, <1>3, <2>1 DEF ChecksPass, WiringChecks, RecordedAt, Recorded
  <2>3. PICK r \in refs[b] : r[1] = c
    <3> HIDE DEF b, w
    <3>1. c \in WireArgs(code[b])
      BY <1>3, <2>2 DEF w
    <3> QED BY <2>2, <3>1 DEF IInv, WiredOK
  <2>4. r \in Names \X Nat
    BY <2>2, <2>3 DEF IInv, ChainOK
  <2>5. r[2] = Recorded(r[1])
    BY <1>1, <2>1, <2>3 DEF Whole, Recorded
  <2> QED BY <2>3, <2>4, <2>5
<1>4. ASSUME NEW c \in AdapterNames
      PROVE  \E x \in applied : x[1] = Recorded("AdapterRegistry") /\ CodeAt(x[2]) = c
  <2> DEFINE R == Recorded("AdapterRegistry")
             S == AppliedAt(R)
  <2>1. R \in Addresses /\ code[R] = "AdapterRegistry"
    BY <1>2, NamesListed
  <2>2. Cardinality(S) = 3
    BY AdaptersListed DEF ChecksPass, AdaptersServe, RecordedAt, Recorded
  <2>3. \A a \in S : \E x \in applied : x[1] = R /\ x[2] = a
    BY DEF AppliedAt
  <2> HIDE DEF S, R
  <2>4. \A a \in S : a \in Addresses /\ code[a] \in AdapterNames
    BY <2>1, <2>3 DEF IInv, RegistriesOK, Entries
  <2>5. \A a, b \in S : code[a] = code[b] => a = b
    BY <2>1, <2>3 DEF IInv, RegistriesOK, Entries
  <2>6. PICK a \in S : code[a] = c
    BY <2>2, <2>4, <2>5, OneOfEachKind
  <2> QED BY <2>3, <2>4, <2>6 DEF CodeAt, R
<1> QED BY <1>3, <1>4

-----------------------------------------------------------------------------
(* What a step that disturbs little leaves standing. *)

\* The chain keeps the contracts it has, and what they were given.
Grows ==
  /\ nonce' \in Nat /\ nonce <= nonce'
  /\ \A a \in Addresses : a < nonce => code'[a] = code[a] /\ refs'[a] = refs[a]

\* Every registration is one that was there.
NoNewEntry == \A y \in Entries' : \E z \in Entries : z[1] = y[1] /\ z[2] = y[2]

\* The file says what it said.
SameRecord ==
  /\ manifest' # NoManifest => manifest # NoManifest
  /\ manifest # NoManifest /\ script' # NoScript => manifest' # NoManifest
  /\ manifest'.contracts = manifest.contracts /\ manifest'.adapters = manifest.adapters

\* A whole deployment stays one.
LEMMA CompleteStays ==
  ASSUME ChainOK, Grows, NEW at, Complete(at)
  PROVE  Whole(at, nonce', code', refs')
<1>1. nonce \in Nat /\ nonce' \in Nat /\ nonce <= nonce'
  BY DEF ChainOK, Grows
<1>2. Whole(at, nonce, code, refs)
  BY DEF Complete
<1>3. \A c \in Names : \A r \in refs'[at[c]] : r[2] = at[r[1]]
  BY <1>2 DEF Grows, Whole
<1> QED BY <1>1, <1>2, <1>3, WholeStays DEF Grows

\* The recorded deployment stays coherent.
LEMMA ManifestStays ==
  ASSUME IInv, Grows, SameRecord
  PROVE  ManifestOK'
<1>1. manifest # NoManifest => DOMAIN manifest.contracts = Names /\ Complete(manifest.contracts)
  BY DEF IInv, ManifestOK
<1>2. manifest # NoManifest => Whole(manifest.contracts, nonce', code', refs')
  BY <1>1, CompleteStays DEF IInv
<1> QED BY <1>1, <1>2 DEF ManifestOK, Complete, SameRecord

\* Wired contracts stay wired, whoever's they are.
LEMMA WiredStays ==
  ASSUME IInv, Grows, wired' = wired,
         NEW n, n = nonce,
         Running("deploy")' =>
           \/ script'.start = n
           \/ /\ Running("deploy") /\ script'.start = script.start
              /\ script.pc > Len(Order) => script'.pc > Len(Order) /\ script'.at = script.at
  PROVE  WiredOK'
<1> SUFFICES ASSUME NEW b \in wired
             PROVE  /\ b < nonce' /\ code'[b] \in {"IntentBook", "ClearingVault", "PositionLedger"}
                    /\ \A c \in WireArgs(code'[b]) : \E r \in refs'[b] : r[1] = c
                    /\ code'[b] = "IntentBook" =>
                         \E at \in [Names -> Addresses] :
                           /\ Complete(at)' /\ at["IntentBook"] = b
                           /\ Running("deploy")' => Earlier(at)' \/ Mine(at)'
  BY DEF WiredOK
<1>1. /\ b \in Addresses /\ b \in Nat /\ b < nonce /\ nonce \in Nat
      /\ code[b] \in {"IntentBook", "ClearingVault", "PositionLedger"}
      /\ \A c \in WireArgs(code[b]) : \E r \in refs[b] : r[1] = c
  BY DeploymentAssumption DEF IInv, WiredOK, ChainOK, Addresses
<1>2. code'[b] = code[b] /\ refs'[b] = refs[b] /\ b < nonce'
  BY <1>1 DEF Grows
<1>3. ASSUME code[b] = "IntentBook"
      PROVE  \E at \in [Names -> Addresses] :
               /\ Complete(at)' /\ at["IntentBook"] = b
               /\ Running("deploy")' => Earlier(at)' \/ Mine(at)'
  <2>1. PICK at \in [Names -> Addresses] :
          /\ Complete(at) /\ at["IntentBook"] = b
          /\ Running("deploy") => Earlier(at) \/ Mine(at)
    BY <1>3 DEF IInv, WiredOK
  <2>2. Whole(at, nonce', code', refs')
    BY <2>1, CompleteStays DEF IInv
  <2>3. \A c \in Names : at[c] < nonce
    BY <2>1 DEF Complete, Whole
  <2>4. Running("deploy")' => Earlier(at)' \/ Mine(at)'
    BY <2>1, <2>3 DEF Earlier, Mine
  <2> QED BY <2>1, <2>2, <2>4 DEF Complete
<1> QED BY <1>1, <1>2, <1>3

\* With no new entry and no position lost, the registries hold what they held.
LEMMA RegistriesStay ==
  ASSUME IInv, \A a \in Addresses : a < nonce => code'[a] = code[a],
         NoNewEntry, position \subseteq position'
  PROVE  RegistriesOK'
<1> SUFFICES ASSUME NEW y \in Entries', code'[y[1]] = "AdapterRegistry"
             PROVE  /\ PositionIsOpen(y[1] + 3)' /\ y[2] \in Addresses /\ code'[y[2]] \in AdapterNames
                    /\ \A z \in Entries' : z[1] = y[1] /\ code'[z[2]] = code'[y[2]] => z[2] = y[2]
  BY DEF RegistriesOK
<1>1. \A u \in Entries : /\ u[1] \in Addresses /\ code'[u[1]] = code[u[1]]
                         /\ code[u[1]] = "AdapterRegistry" =>
                              /\ u[2] \in Addresses /\ code'[u[2]] = code[u[2]]
                              /\ code[u[2]] \in AdapterNames
  <2>1. ASSUME NEW u \in Entries
        PROVE  u[1] \in Addresses /\ code'[u[1]] = code[u[1]]
    BY DEF IInv, ChainOK
  <2>2. ASSUME NEW u \in Entries, code[u[1]] = "AdapterRegistry"
        PROVE  u[2] \in Addresses /\ code'[u[2]] = code[u[2]] /\ code[u[2]] \in AdapterNames
    <3>1. u[2] \in Addresses /\ code[u[2]] \in AdapterNames
      BY <2>2 DEF IInv, RegistriesOK
    <3>2. code[u[2]] # NoCode
      BY <3>1, NoCodeAssumption
    <3>3. u[2] < nonce
      <4>1. u[2] \in Nat /\ nonce \in Nat
        BY <3>1, DeploymentAssumption DEF Addresses, IInv, ChainOK
      <4> QED BY <3>1, <3>2, <4>1 DEF IInv, ChainOK
    <3> QED BY <3>1, <3>3
  <2> QED BY <2>1, <2>2
<1>2. PICK u \in Entries : u[1] = y[1] /\ u[2] = y[2]
  BY DEF NoNewEntry
<1>3. code[u[1]] = "AdapterRegistry"
  BY <1>1, <1>2
<1>4. PositionIsOpen(u[1] + 3)
  BY <1>3 DEF IInv, RegistriesOK
<1>5. PositionIsOpen(y[1] + 3)'
  BY <1>2, <1>4 DEF PositionIsOpen
<1>6. ASSUME NEW z \in Entries', z[1] = y[1], code'[z[2]] = code'[y[2]]
      PROVE  z[2] = y[2]
  <2>1. PICK v \in Entries : v[1] = z[1] /\ v[2] = z[2]
    BY DEF NoNewEntry
  <2>2. code[v[2]] = code[u[2]]
    BY <1>1, <1>2, <1>3, <1>6, <2>1
  <2> QED BY <1>2, <1>3, <1>6, <2>1, <2>2 DEF IInv, RegistriesOK
<1> QED BY <1>1, <1>2, <1>3, <1>5, <1>6

\* The adapters that serve a recorded deployment still do.
LEMMA ServesStays ==
  ASSUME NEW at, Serves(at), NoNewEntry, position' = position,
         Recorded("PositionLedger")' = Recorded("PositionLedger"),
         Recorded("AdapterRegistry")' = Recorded("AdapterRegistry")
  PROVE  /\ PositionIsOpen(Recorded("PositionLedger"))'
         /\ \A p \in position' : p[1] = Recorded("PositionLedger")' => p[2] = at["AaveSupply"]
         /\ \A y \in Entries' : y[1] = Recorded("AdapterRegistry")' => \E c \in AdapterNames : y[2] = at[c]
<1>1. PositionIsOpen(Recorded("PositionLedger"))'
  BY DEF Serves, PositionIsOpen
<1> QED BY <1>1 DEF Serves, NoNewEntry

\* The same, for the adapters of the manifest.
LEMMA RecordedServeStays ==
  ASSUME IInv, NoNewEntry, position' = position, SameRecord
  PROVE  RecordedServe'
<1> SUFFICES ASSUME manifest # NoManifest, manifest.adapters # <<>>
             PROVE  Serves(manifest.adapters)'
  BY DEF RecordedServe, SameRecord
<1>1. Serves(manifest.adapters)
  BY DEF IInv, RecordedServe
<1>2. /\ Recorded("PositionLedger")' = Recorded("PositionLedger")
      /\ Recorded("AdapterRegistry")' = Recorded("AdapterRegistry")
  BY DEF Recorded, SameRecord
<1> QED BY <1>1, <1>2, ServesStays DEF Serves, SameRecord

-----------------------------------------------------------------------------
(* Steps that create nothing, register nothing and record nothing: reading,  *)
(* applying, giving up, dying, time, and transactions of someone else.       *)

Quiet ==
  /\ code' = code /\ refs' = refs /\ wired' = wired /\ position' = position /\ SameRecord
  /\ nonce' \in 0 .. MaxNonce /\ nonce <= nonce' /\ now' \in 0 .. MaxTime /\ mishaps' \in 0 .. MaxMishaps
  /\ NoNewEntry
  /\ \/ script' = script
     \/ script' = NoScript
     \/ /\ Applying /\ DOMAIN script' = DOMAIN script
        /\ script'.name = script.name /\ script'.pc \in Nat
        /\ script'.start = script.start /\ script'.at = script.at

\* A quiet step keeps the invariant.
LEMMA QuietKeeps ==
  ASSUME IInv, Quiet
  PROVE  IInv'
<1>1. Grows
  BY DEF Quiet, Grows
<1>2. ChainOK'
  <2>1. \A a \in Addresses : a >= nonce' => code[a] = NoCode /\ refs[a] = {}
    BY DeploymentAssumption DEF IInv, ChainOK, Quiet, Addresses
  <2>2. \A y \in Entries' : y[1] \in Addresses /\ y[1] < nonce'
    <3>1. \A y \in Entries : y[1] \in Addresses /\ y[1] < nonce'
      BY DeploymentAssumption DEF IInv, ChainOK, Quiet, Addresses
    <3> QED BY <3>1 DEF Quiet, NoNewEntry
  <2> QED BY <2>1, <2>2 DEF IInv, ChainOK, Quiet
<1>3. ProcessOK'
  BY DEF IInv, ProcessOK, Quiet, ChainOK, Applying
<1>4. Running("deploy")' => Running("deploy") /\ script' = script
  BY DEF Quiet, Running, Applying
<1>5. DeployOK'
  <2> SUFFICES ASSUME Running("deploy")'
               PROVE  DeployOK'
    BY DEF DeployOK
  <2>1. Running("deploy") /\ script' = script /\ Made' = Made
    BY <1>4 DEF Made
  <2>2. nonce \in Nat /\ nonce' \in Nat /\ nonce <= nonce' /\ script.start + Made \in Nat /\ nonce >= script.start + Made
    <3>1. script.pc \in 1 .. 21 /\ script.start \in Nat /\ nonce >= script.start + Made
      BY <2>1 DEF IInv, DeployOK, ProcessOK, Running
    <3>2. Made \in Nat
      BY <3>1, NamesListed DEF Made
    <3> QED BY <3>1, <3>2 DEF IInv, ChainOK, Quiet
  <2>3. nonce' = script.start + Made => nonce = script.start + Made
    BY <2>2
  <2>4. \A x \in Addresses : x < nonce => x < nonce'
    BY <2>2, DeploymentAssumption DEF Addresses
  <2>5. manifest # NoManifest => \A c \in Names : Recorded(c)' < script.start
    BY <2>1 DEF IInv, DeployOK, Recorded, Quiet, SameRecord
  <2>6. manifest' # NoManifest => \A c \in Names : Recorded(c)' < script.start
    BY <2>5 DEF Quiet, SameRecord
  <2> QED BY <2>1, <2>2, <2>3, <2>4, <2>6 DEF IInv, DeployOK, Quiet
<1>6. WiredOK'
  <2>1. wired' = wired
    BY DEF Quiet
  <2>2. Running("deploy")' =>
          /\ Running("deploy") /\ script'.start = script.start
          /\ script.pc > Len(Order) => script'.pc > Len(Order) /\ script'.at = script.at
    BY <1>4
  <2> QED BY <1>1, <2>1, <2>2, WiredStays
<1>7. ManifestOK'
  BY <1>1, ManifestStays DEF Quiet
<1>8. ReaderOK'
  BY DEF IInv, ReaderOK, Quiet, SameRecord, Recorded, Applying
<1>9. RegistriesOK'
  BY <1>1, RegistriesStay DEF Quiet, Grows
<1>10. AdaptersOK'
  <2> SUFFICES ASSUME Running("adapters")'
               PROVE  AdaptersOK'
    BY DEF AdaptersOK
  <2>1. Running("adapters") /\ script' = script
    BY DEF Quiet, Running, Applying
  <2>2. script.pc >= 5 => manifest'.adapters = <<>> /\ Serves(script.at)'
    <3> SUFFICES ASSUME script.pc >= 5 PROVE manifest'.adapters = <<>> /\ Serves(script.at)'
      OBVIOUS
    <3>1. manifest.adapters = <<>> /\ Serves(script.at)
      BY <2>1 DEF IInv, AdaptersOK
    <3>2. /\ Recorded("PositionLedger")' = Recorded("PositionLedger")
          /\ Recorded("AdapterRegistry")' = Recorded("AdapterRegistry")
      BY DEF Recorded, Quiet, SameRecord
    <3> QED BY <2>1, <3>1, <3>2, ServesStays DEF Serves, Quiet, SameRecord
  <2>3. \A k \in DOMAIN Adapters : k < script.pc =>
          /\ Adapters[k] \in DOMAIN script.at /\ script.at[Adapters[k]] \in Addresses
          /\ script.at[Adapters[k]] < nonce' /\ code[script.at[Adapters[k]]] = Adapters[k]
    BY <2>1, DeploymentAssumption DEF IInv, AdaptersOK, Quiet, ChainOK, Addresses
  <2> QED BY <2>1, <2>2, <2>3 DEF IInv, AdaptersOK, Quiet
<1>11. RecordedServe'
  BY RecordedServeStays DEF Quiet
<1> QED BY <1>2, <1>3, <1>5, <1>6, <1>7, <1>8, <1>9, <1>10, <1>11 DEF IInv

\* A successful apply registers nothing that was not waiting.
LEMMA ApplyRegistersWhatWaited ==
  ASSUME NEW r, NEW item, ApplyOnChain(r, item)
  PROVE  NoNewEntry
<1>1. PICK due \in DueOf(r, item) : now >= due
  BY DEF ApplyOnChain
<1>2. \E q \in queue : q[1] = r /\ q[2] = item
  BY <1>1 DEF DueOf
<1>3. queue' \subseteq queue /\ applied' = applied \cup {<<r, item>>}
  BY DEF ApplyOnChain
<1> QED BY <1>2, <1>3 DEF NoNewEntry, Entries

\* Nothing on the chain or in the file changes.
LEMMA NothingChanged ==
  ASSUME IInv, UNCHANGED <<chainVars, manifest>>
  PROVE  /\ code' = code /\ refs' = refs /\ wired' = wired /\ position' = position /\ SameRecord
         /\ nonce' \in 0 .. MaxNonce /\ nonce <= nonce' /\ now' \in 0 .. MaxTime /\ mishaps' \in 0 .. MaxMishaps
         /\ NoNewEntry
BY DEF chainVars, IInv, ChainOK, NoNewEntry, Entries, SameRecord

\* Reading what waits is quiet.
LEMMA ReadIsQuiet ==
  ASSUME IInv, Applying, NEW r, NEW item, ReadQueued(r, item)
  PROVE  Quiet
<1>1. script # NoScript
  BY DEF Applying
<1>2. script' = Advance \/ script' = Look \/ script' = NoScript
  BY DEF ReadQueued
<1>3. script.pc \in Nat
  BY <1>1 DEF IInv, ProcessOK
<1> QED BY <1>1, <1>2, <1>3, NothingChanged, Advanced DEF Quiet, ReadQueued, IInv

\* Sending an apply is quiet, whether it succeeds or reverts.
LEMMA SendIsQuiet ==
  ASSUME IInv, Applying, NEW r, NEW item, NEW S, S \subseteq {NoScript, Advance}, SendApply(r, item, S)
  PROVE  Quiet
<1>1. script # NoScript /\ script.pc \in Nat
  BY DEF Applying, IInv, ProcessOK
<1>2. script' = Advance \/ script' = NoScript
  BY DEF SendApply
<1>3. /\ code' = code /\ refs' = refs /\ wired' = wired /\ position' = position /\ SameRecord
      /\ nonce' \in 0 .. MaxNonce /\ nonce <= nonce' /\ now' \in 0 .. MaxTime /\ mishaps' \in 0 .. MaxMishaps
      /\ NoNewEntry
  <2>1. CASE ApplyOnChain(r, item) /\ UNCHANGED <<nonce, code, refs, wired, position, now, mishaps, manifest>>
    BY <2>1, ApplyRegistersWhatWaited DEF IInv, ChainOK, SameRecord
  <2>2. CASE UNCHANGED <<chainVars, manifest>>
    BY <2>2, NothingChanged
  <2> QED BY <2>1, <2>2 DEF SendApply
<1> QED BY <1>1, <1>2, <1>3, Advanced DEF Quiet, IInv

\* The steps that are quiet.
LEMMA QuietSteps ==
  ASSUME IInv,
         \/ ReadAsset \/ ReadRoute \/ ReadAdapter \/ SendRegistration \/ SendAdapter
         \/ FinishApply \/ FinishApplyAdapters \/ Outsider \/ Crash \/ ForeignTransaction \/ Tick
         \/ UNCHANGED vars
  PROVE  IInv'
<1>1. CASE ReadAsset
  <2>1. Applying /\ ReadQueued(script.at["AssetRegistry"], Assets[script.pc])
    BY <1>1 DEF ReadAsset, Running, Applying
  <2> QED BY <2>1, ReadIsQuiet, QuietKeeps
<1>2. CASE ReadAdapter
  <2>1. Applying /\ ReadQueued(script.at["AdapterRegistry"], manifest.adapters[Adapters[script.pc]])
    BY <1>2 DEF ReadAdapter, Running, Applying
  <2> QED BY <2>1, ReadIsQuiet, QuietKeeps
<1>3. CASE ReadRoute
  <2>1. Applying /\ script # NoScript /\ script.pc \in Nat
    BY <1>3 DEF ReadRoute, Running, Applying, IInv, ProcessOK
  <2>2. script' = Advance \/ script' = Look
    BY <1>3 DEF ReadRoute
  <2>3. Quiet
    BY <1>3, <2>1, <2>2, NothingChanged, Advanced DEF Quiet, ReadRoute, IInv
  <2> QED BY <2>3, QuietKeeps
<1>4. CASE SendRegistration
  <2>1. Applying /\ \E r, item : SendApply(r, item, {NoScript, Advance})
    BY <1>4 DEF SendRegistration, Running, Applying
  <2> QED BY <2>1, SendIsQuiet, QuietKeeps
<1>5. CASE SendAdapter
  <2>1. Applying /\ \E r, item : SendApply(r, item, {NoScript})
    BY <1>5 DEF SendAdapter, Running, Applying
  <2> QED BY <2>1, SendIsQuiet, QuietKeeps
<1>6. CASE FinishApply
  <2>1. Quiet
    BY <1>6, NothingChanged DEF FinishApply, Quiet
  <2> QED BY <2>1, QuietKeeps
<1>7. CASE FinishApplyAdapters
  <2>1. manifest # NoManifest /\ script' = NoScript
    BY <1>7 DEF FinishApplyAdapters, Running, IInv, ReaderOK
  <2>2. SameRecord
    BY <1>7, <2>1 DEF FinishApplyAdapters, WriteManifest, SameRecord
  <2>3. Quiet
    BY <1>7, <2>1, <2>2 DEF FinishApplyAdapters, Quiet, chainVars, IInv, ChainOK, NoNewEntry, Entries
  <2> QED BY <2>3, QuietKeeps
<1>8. CASE Outsider
  <2>1. PICK q \in queue : ApplyOnChain(q[1], q[2])
    BY <1>8 DEF Outsider
  <2>2. NoNewEntry
    BY <2>1, ApplyRegistersWhatWaited
  <2>3. Quiet
    BY <1>8, <2>2 DEF Outsider, Quiet, SameRecord, IInv, ChainOK
  <2> QED BY <2>3, QuietKeeps
<1>9. CASE Crash
  <2>1. mishaps' \in 0 .. MaxMishaps
    BY <1>9, DeploymentAssumption DEF Crash, IInv, ChainOK
  <2>2. Quiet
    BY <1>9, <2>1 DEF Crash, Quiet, SameRecord, IInv, ChainOK, NoNewEntry, Entries
  <2> QED BY <2>2, QuietKeeps
<1>10. CASE ForeignTransaction
  <2>1. mishaps' \in 0 .. MaxMishaps /\ nonce' \in 0 .. MaxNonce /\ nonce <= nonce'
    BY <1>10, DeploymentAssumption DEF ForeignTransaction, IInv, ChainOK
  <2>2. Quiet
    BY <1>10, <2>1 DEF ForeignTransaction, Quiet, SameRecord, IInv, ChainOK, NoNewEntry, Entries
  <2> QED BY <2>2, QuietKeeps
<1>11. CASE Tick
  <2>1. now' \in 0 .. MaxTime
    BY <1>11, DeploymentAssumption DEF Tick, IInv, ChainOK
  <2>2. Quiet
    BY <1>11, <2>1 DEF Tick, Quiet, SameRecord, IInv, ChainOK, NoNewEntry, Entries
  <2> QED BY <2>2, QuietKeeps
<1>12. CASE UNCHANGED vars
  <2>1. Quiet
    BY <1>12, NothingChanged DEF vars, chainVars, Quiet
  <2> QED BY <2>1, QuietKeeps
<1> QED BY <1>1, <1>2, <1>3, <1>4, <1>5, <1>6, <1>7, <1>8, <1>9, <1>10, <1>11, <1>12

-----------------------------------------------------------------------------
(* Initial states, and scripts that begin. *)

\* On an empty chain nothing is recorded and nobody runs.
LEMMA InitHolds == Init => IInv
<1> SUFFICES ASSUME Init PROVE IInv
  OBVIOUS
<1>1. ChainOK
  BY DeploymentAssumption DEF Init, ChainOK, Entries
<1>2. ProcessOK /\ DeployOK /\ ReaderOK /\ AdaptersOK
  BY DEF Init, ProcessOK, DeployOK, ReaderOK, AdaptersOK, Running
<1>3. WiredOK /\ ManifestOK /\ RegistriesOK /\ RecordedServe
  BY DEF Init, WiredOK, ManifestOK, RegistriesOK, RecordedServe, Entries
<1> QED BY <1>1, <1>2, <1>3 DEF IInv

\* deploy.ts begins with nothing created; the others with what the manifest says.
LEMMA BeginningKeeps ==
  ASSUME IInv, UNCHANGED <<chainVars, manifest>>,
         NEW name \in {"deploy", "apply", "applyAdapters", "adapters"}, NEW a, NEW wait \in BOOLEAN,
         script' = Process(name, a, wait),
         IF name = "deploy" THEN a = <<>> ELSE manifest # NoManifest /\ a = manifest.contracts
  PROVE  IInv'
<1>1. /\ DOMAIN script' = {"name", "pc", "start", "at", "wait", "read"}
      /\ script'.name = name /\ script'.pc = 1 /\ script'.start = nonce /\ script'.at = a
  BY DEF Process
<1>2. Grows /\ NoNewEntry /\ SameRecord
  BY NothingChanged DEF chainVars, Grows, IInv, ChainOK
<1>3. ChainOK'
  BY DEF IInv, ChainOK, chainVars, Entries
<1>4. ProcessOK'
  BY <1>1 DEF ProcessOK, IInv, ChainOK, chainVars
<1>5. DeployOK'
  <2> SUFFICES ASSUME Running("deploy")'
               PROVE  DeployOK'
    BY DEF DeployOK
  <2>1. a = <<>> /\ DOMAIN a = {}
    BY <1>1 DEF Running
  <2>2. Made' = 0
    BY <1>1, NamesListed DEF Made
  <2>3. {c \in Names : Offset(c) < 0} = {}
    BY PlaceOfOffset
  <2>4. nonce \in Nat /\ nonce' = nonce
    BY DEF chainVars, IInv, ChainOK
  <2>5. \A x \in Addresses : x >= nonce => code[x] = NoCode
    BY DEF IInv, ChainOK
  <2>6. manifest # NoManifest => \A c \in Names : Recorded(c) < nonce
    BY DEF IInv, ManifestOK, Complete, Whole, Recorded
  <2>7. manifest' # NoManifest => \A c \in Names : Recorded(c)' < script'.start
    BY <1>1, <2>6 DEF Recorded
  <2> QED BY <1>1, <2>1, <2>2, <2>3, <2>4, <2>5, <2>7 DEF DeployOK, chainVars
<1>6. WiredOK'
  <2>1. wired' = wired
    BY DEF chainVars
  <2>2. Running("deploy")' => script'.start = nonce
    BY <1>1
  <2> QED BY <1>2, <2>1, <2>2, WiredStays
<1>7. ManifestOK'
  BY <1>2, ManifestStays
<1>8. ReaderOK'
  BY <1>1 DEF ReaderOK, Recorded, IInv, ManifestOK
<1>9. RegistriesOK'
  BY <1>2, RegistriesStay DEF chainVars, Grows
<1>10. AdaptersOK'
  BY <1>1, AdaptersListed DEF AdaptersOK, Running
<1>11. RecordedServe'
  BY <1>2, RecordedServeStays DEF chainVars
<1> QED BY <1>3, <1>4, <1>5, <1>6, <1>7, <1>8, <1>9, <1>10, <1>11 DEF IInv

\* The four scripts that keep a process begin so.
LEMMA StartSteps ==
  ASSUME IInv, StartDeploy \/ StartAdapters \/ StartApply \/ StartApplyAdapters
  PROVE  IInv'
<1>1. CASE StartDeploy
  BY <1>1, BeginningKeeps DEF StartDeploy
<1>2. CASE StartAdapters
  BY <1>2, BeginningKeeps DEF StartAdapters, ReadManifest
<1>3. CASE StartApply
  <2>1. PICK wait \in BOOLEAN : script' = Process("apply", manifest.contracts, wait)
    BY <1>3 DEF StartApply
  <2> QED BY <1>3, <2>1, BeginningKeeps DEF StartApply, ReadManifest
<1>4. CASE StartApplyAdapters
  <2>1. PICK wait \in BOOLEAN : script' = Process("applyAdapters", manifest.contracts, wait)
    BY <1>4 DEF StartApplyAdapters
  <2> QED BY <1>4, <2>1, BeginningKeeps DEF StartApplyAdapters, ReadManifest
<1> QED BY <1>1, <1>2, <1>3, <1>4

-----------------------------------------------------------------------------
(* deploy.ts creates a contract. *)

\* A creation leaves every other address alone.
LEMMA CreateGrows ==
  ASSUME ChainOK, NEW c \in Names \cup AdapterNames, NEW args, Create(c, args),
         Resolve(args) \subseteq Names \X Nat,
         UNCHANGED <<wired, queue, applied, now, mishaps>>
  PROVE  /\ ChainOK' /\ Grows /\ NoNewEntry
         /\ nonce \in Addresses /\ nonce' = nonce + 1 /\ nonce \in Nat
         /\ code'[nonce] = c /\ refs'[nonce] = Resolve(args)
         /\ \A a \in Addresses : a # nonce => code'[a] = code[a] /\ refs'[a] = refs[a]
<1>1. nonce \in Nat /\ nonce \in Addresses /\ nonce' = nonce + 1 /\ nonce' \in 0 .. MaxNonce
  BY DeploymentAssumption DEF ChainOK, Create, Addresses
<1>2. /\ code' = [code EXCEPT ![nonce] = c] /\ refs' = [refs EXCEPT ![nonce] = Resolve(args)]
      /\ code \in [Addresses -> Names \cup AdapterNames \cup {NoCode}]
      /\ refs \in [Addresses -> SUBSET (Names \X Nat)]
  BY DEF ChainOK, Create
<1>3. /\ code'[nonce] = c /\ refs'[nonce] = Resolve(args)
      /\ \A a \in Addresses : a # nonce => code'[a] = code[a] /\ refs'[a] = refs[a]
      /\ code' \in [Addresses -> Names \cup AdapterNames \cup {NoCode}]
      /\ refs' \in [Addresses -> SUBSET (Names \X Nat)]
  BY <1>1, <1>2
<1>4. \A a \in Addresses : a >= nonce' => code'[a] = NoCode /\ refs'[a] = {}
  <2>1. ASSUME NEW a \in Addresses, a >= nonce'
        PROVE  code'[a] = NoCode /\ refs'[a] = {}
    <3>1. a # nonce /\ a >= nonce
      BY <1>1, <2>1, DeploymentAssumption DEF Addresses
    <3> QED BY <1>3, <3>1 DEF ChainOK
  <2> QED BY <2>1
<1>5. \A y \in Entries' : y[1] \in Addresses /\ y[1] < nonce'
  BY <1>1, DeploymentAssumption DEF ChainOK, Entries, Addresses
<1>6. ChainOK'
  BY <1>1, <1>3, <1>4, <1>5 DEF ChainOK
<1>7. Grows
  <2>1. nonce' \in Nat /\ nonce <= nonce'
    BY <1>1
  <2>2. ASSUME NEW a \in Addresses, a < nonce
        PROVE  code'[a] = code[a] /\ refs'[a] = refs[a]
    <3>1. a # nonce
      BY <1>1, <2>2
    <3> QED BY <1>3, <3>1
  <2> QED BY <2>1, <2>2 DEF Grows
<1>8. NoNewEntry
  BY DEF NoNewEntry, Entries
<1> QED BY <1>1, <1>3, <1>6, <1>7, <1>8

\* The four predictions are the offsets from the seventh to the tenth.
LEMMA PredictedOffsets ==
  ASSUME NEW c \in Names
  PROVE  Offset(c) \in 7 .. 10 => c \in Predicted
BY NamesListed, OffsetsListed DEF Predicted

\* Two contracts do not share an offset.
LEMMA OffsetIsOneToOne ==
  ASSUME NEW c \in Names, NEW d \in Names, Offset(c) = Offset(d)
  PROVE  c = d
BY PlaceOfOffset

\* A creation keeps the predictions: the contract lands where it was predicted, or the
\* process ends.
LEMMA DeployNextKeeps ==
  ASSUME IInv, DeployNext
  PROVE  IInv'
<1> DEFINE s == script.start
           p == script.pc
           at == script.at
           D == DOMAIN at
           c == Order[p]
           n == nonce
           args == ConstructorArgs(c)
<1>1. /\ Running("deploy") /\ script # NoScript /\ p \in 1 .. 14 /\ s \in Nat /\ n \in Nat
      /\ DOMAIN script = {"name", "pc", "start", "at", "wait", "read"} /\ script.name = "deploy"
  BY NamesListed DEF DeployNext, IInv, ProcessOK, DeployOK, ChainOK, Running
<1>2. /\ Made = p - 1 /\ c \in Names /\ Offset(c) = p - 1
  BY <1>1, NamesListed, OffsetOfPlace DEF Made
<1>3. /\ D = {d \in Names : Offset(d) < p - 1}
      /\ n >= s + p - 1
      /\ \A d \in D : at[d] \in Addresses /\ at[d] < n /\ code[at[d]] = d /\ at[d] >= s + Offset(d)
      /\ \A d, e \in D : Offset(d) < Offset(e) => at[d] < at[e]
      /\ \A d \in D : \A r \in refs[at[d]] :
           IF r[1] \in D THEN r[2] = at[r[1]] ELSE r[1] \in Predicted /\ r[2] = s + Offset(r[1])
      /\ (n = s + p - 1 \/ p - 1 >= 8) => \A d \in D : Offset(d) <= 10 => at[d] = s + Offset(d)
      /\ \A a \in Addresses : a >= s /\ code[a] # NoCode => \E d \in D : a = at[d]
      /\ manifest # NoManifest => \A d \in Names : Recorded(d) < s
  BY <1>1, <1>2 DEF IInv, DeployOK
<1>4. Create(c, args) /\ UNCHANGED <<wired, queue, applied, position, now, mishaps, manifest>>
  BY DEF DeployNext
<1>5. \A e \in args : e \in Names /\ Offset(e) \in Nat /\ (e \in D \/ e \in Predicted)
  BY <1>2, <1>3, ArgsAreEarlierOrPredicted, PlaceOfOffset
<1>6. Resolve(args) \subseteq Names \X Nat
  <2>1. ASSUME NEW e \in args
        PROVE  (IF e \in D THEN at[e] ELSE s + Offset(e)) \in Nat
    BY <1>1, <1>3, <1>5, DeploymentAssumption DEF Addresses
  <2> QED BY <1>5, <2>1 DEF Resolve
<1>7. /\ ChainOK' /\ Grows /\ NoNewEntry
      /\ n \in Addresses /\ nonce' = n + 1
      /\ code'[n] = c /\ refs'[n] = Resolve(args)
      /\ \A a \in Addresses : a # n => code'[a] = code[a] /\ refs'[a] = refs[a]
  BY <1>2, <1>4, <1>6, CreateGrows DEF IInv
<1>8. SameRecord
  BY <1>4 DEF SameRecord
<1>9. ManifestOK' /\ RegistriesOK' /\ RecordedServe'
  <2>1. \A a \in Addresses : a < nonce => code'[a] = code[a]
    BY <1>7 DEF Grows
  <2> QED BY <1>4, <1>7, <1>8, <2>1, ManifestStays, RegistriesStay, RecordedServeStays
<1>10. CASE script' = NoScript
  <2>1. ProcessOK' /\ DeployOK' /\ ReaderOK' /\ AdaptersOK'
    BY <1>10 DEF ProcessOK, DeployOK, ReaderOK, AdaptersOK, Running
  <2>2. ~Running("deploy")'
    BY <1>10 DEF Running
  <2>3. WiredOK'
    BY <1>4, <1>7, <2>2, WiredStays
  <2> QED BY <1>7, <1>9, <2>1, <2>3 DEF IInv
<1>11. CASE ~Misplaced(c) /\ script' = [Advance EXCEPT !.at = With(@, c, n)]
  <2>1. /\ DOMAIN script' = DOMAIN script /\ script'.name = "deploy" /\ script'.pc = p + 1
        /\ script'.start = s /\ script'.at = With(at, c, n)
    BY <1>1, <1>11, AdvancedWith DEF IInv
  <2>2. ProcessOK'
    BY <1>1, <1>7, <2>1 DEF ProcessOK, IInv
  <2>3. WiredOK'
    BY <1>1, <1>4, <1>7, <2>1, NamesListed, WiredStays
  <2>4. ReaderOK' /\ AdaptersOK'
    BY <2>1 DEF ReaderOK, AdaptersOK, Running
  <2>5. DeployOK'
    <3> DEFINE bt == With(at, c, n)
    <3>1. Made' = p /\ script'.pc \in 1 .. 21
      BY <1>1, <2>1, NamesListed DEF Made
    <3>2. /\ c \notin D /\ DOMAIN bt = D \cup {c} /\ bt[c] = n /\ \A d \in D : bt[d] = at[d]
      <4>1. c \notin D
        BY <1>1, <1>2, <1>3
      <4>2. /\ DOMAIN bt = DOMAIN at \cup {c} /\ bt[c] = n
            /\ \A d \in DOMAIN at : d # c => bt[d] = at[d]
        <5> HIDE DEF at, c, n
        <5> QED BY DEF With
      <4> HIDE DEF at, c, n, bt
      <4> QED BY <4>1, <4>2
    <3>3. \A d \in Names : Offset(d) \in 0 .. 13
      BY PlaceOfOffset
    <3>4. D \cup {c} = {d \in Names : Offset(d) < p}
      <4>1. \A d \in Names : Offset(d) = p - 1 => d = c
        BY <1>2, OffsetIsOneToOne
      <4>2. \A d \in Names : Offset(d) < p <=> Offset(d) < p - 1 \/ Offset(d) = p - 1
        BY <1>1, <3>3
      <4> QED BY <1>2, <1>3, <4>1, <4>2
    <3>5. nonce' >= s + p
      BY <1>1, <1>3, <1>7
    <3>6. \A d \in D \cup {c} :
            bt[d] \in Addresses /\ bt[d] < nonce' /\ code'[bt[d]] = d /\ bt[d] >= s + Offset(d)
      BY <1>1, <1>2, <1>3, <1>7, <3>2, DeploymentAssumption DEF Addresses
    <3>7. \A d, e \in D \cup {c} : Offset(d) < Offset(e) => bt[d] < bt[e]
      BY <1>1, <1>2, <1>3, <3>2, <3>3
    <3>8. c \in Predicted => n = s + Offset(c)
      BY <1>11 DEF Misplaced
    <3>9. ASSUME NEW d \in D \cup {c}, NEW r \in refs'[bt[d]]
          PROVE  IF r[1] \in D \cup {c} THEN r[2] = bt[r[1]]
                                        ELSE r[1] \in Predicted /\ r[2] = s + Offset(r[1])
      <4>1. IF r[1] \in D THEN r[2] = at[r[1]] ELSE r[1] \in Predicted /\ r[2] = s + Offset(r[1])
        <5>1. CASE d = c
          <6>1. r \in Resolve(args)
            BY <1>7, <3>2, <3>9, <5>1
          <6>2. PICK e \in args : r = <<e, IF e \in D THEN at[e] ELSE s + Offset(e)>>
            BY <6>1 DEF Resolve
          <6> QED BY <1>5, <6>2
        <5>2. CASE d \in D
          <6>1. refs'[bt[d]] = refs[at[d]]
            <7>1. bt[d] = at[d] /\ at[d] \in Addresses /\ at[d] # n
              BY <1>1, <1>3, <3>2, <5>2
            <7> HIDE DEF bt, at, n
            <7> QED BY <1>7, <7>1
          <6> QED BY <1>3, <3>9, <5>2, <6>1
        <5> QED BY <5>1, <5>2
      <4> HIDE DEF D, at, bt, c, s
      <4> QED BY <3>2, <3>8, <4>1
    <3>10. ASSUME nonce' = s + p \/ p >= 8, NEW d \in D \cup {c}, Offset(d) <= 10
           PROVE  bt[d] = s + Offset(d)
      <4>1. CASE p >= 8 /\ p <= 11
        <5>1. n = s + p - 1 \/ p - 1 >= 8
          <6>1. CASE p = 8
            <7>1. c \in Predicted
              BY <1>2, <6>1, PredictedOffsets
            <7> QED BY <1>1, <1>2, <3>8, <6>1, <7>1
          <6>2. CASE p > 8
            BY <1>1, <6>2
          <6> QED BY <1>1, <4>1, <6>1, <6>2
        <5>2. c \in Predicted
          BY <1>1, <1>2, <4>1, PredictedOffsets
        <5> QED BY <1>2, <1>3, <3>2, <3>8, <3>10, <5>1, <5>2
      <4>2. CASE p > 11
        <5>1. d \in D
          BY <1>1, <1>2, <3>10, <4>2
        <5> QED BY <1>1, <1>3, <3>2, <3>10, <4>2, <5>1
      <4>3. CASE nonce' = s + p
        <5>1. n = s + p - 1
          BY <1>1, <1>7, <4>3
        <5> QED BY <1>1, <1>2, <1>3, <3>2, <3>10, <5>1
      <4> QED BY <1>1, <3>10, <4>1, <4>2, <4>3
    <3>11. \A a \in Addresses : a >= s /\ code'[a] # NoCode => \E d \in D \cup {c} : a = bt[d]
      BY <1>3, <1>7, <3>2
    <3>12. manifest' # NoManifest => \A d \in Names : Recorded(d)' < s
      BY <1>3, <1>4 DEF Recorded
    <3> HIDE DEF D, at, bt, c, s
    <3> QED BY <2>1, <3>1, <3>2, <3>4, <3>5, <3>6, <3>7, <3>9, <3>10, <3>11, <3>12 DEF DeployOK, bt
  <2> QED BY <1>7, <1>9, <2>2, <2>3, <2>4, <2>5 DEF IInv
<1> QED BY <1>10, <1>11 DEF DeployNext

-----------------------------------------------------------------------------
(* deploy.ts wires, queues and records. *)

\* With every contract created, what the script holds is one whole deployment.
LEMMA MadeIsWhole ==
  ASSUME IInv, Running("deploy"), script.pc > Len(Order)
  PROVE  /\ DOMAIN script.at = Names /\ Made = 14
         /\ Complete(script.at)
         /\ \A c \in Names : script.at[c] \in Addresses /\ script.at[c] >= script.start
<1> DEFINE at == script.at
           s == script.start
<1>1. script.pc \in 1 .. 21 /\ Made = 14 /\ s \in Nat
  BY NamesListed DEF Made, IInv, DeployOK, ProcessOK, Running
<1>2. DOMAIN at = Names
  <2>1. DOMAIN at = {c \in Names : Offset(c) < 14}
    BY <1>1 DEF IInv, DeployOK
  <2>2. \A c \in Names : Offset(c) < 14 /\ Offset(c) \in Nat
    BY PlaceOfOffset
  <2> QED BY <2>1, <2>2
<1>3. /\ \A c \in Names : /\ at[c] \in Addresses /\ at[c] < nonce /\ code[at[c]] = c
                          /\ at[c] >= s + Offset(c)
      /\ \A c, d \in Names : Offset(c) < Offset(d) => at[c] < at[d]
      /\ \A c \in Names : \A r \in refs[at[c]] :
           IF r[1] \in Names THEN r[2] = at[r[1]] ELSE r[1] \in Predicted /\ r[2] = s + Offset(r[1])
      /\ \A c \in Names : Offset(c) <= 10 => at[c] = s + Offset(c)
      /\ \A a \in Addresses : a >= s /\ code[a] # NoCode => \E c \in Names : a = at[c]
  BY <1>1, <1>2 DEF IInv, DeployOK
<1>4. \A c \in Names : \A r \in refs[at[c]] : r[1] \in Names
  BY <1>3 DEF IInv, ChainOK
<1>5. /\ "PauseController" \in Names /\ Offset("PauseController") = 0
      /\ \A c \in Names : Offset(c) \in 0 .. 13
  BY NamesListed, OffsetsListed, PlaceOfOffset
<1>6. at["PauseController"] = s /\ \A c \in Names : at[c] >= s
  BY <1>1, <1>3, <1>5, DeploymentAssumption DEF Addresses
<1> HIDE DEF at, s
<1>7. Complete(at)
  BY <1>3, <1>4, <1>6 DEF Complete, Whole
<1> QED BY <1>1, <1>2, <1>3, <1>6, <1>7 DEF at, s

\* The references wire() writes keep a whole deployment whole, whether it is an
\* earlier one or the script's own.
LEMMA WiringKeepsWhole ==
  ASSUME IInv, WireNext, NEW wt, Complete(wt), Earlier(wt) \/ \A c \in Names : wt[c] = script.at[c]
  PROVE  Whole(wt, nonce', code', refs')
<1> DEFINE c == Wirings[script.pc - Len(Order)]
           at == script.at
           a == at[c]
           s == script.start
           new == Resolve(WireArgs(c))
<1>1. /\ Running("deploy") /\ script.pc > Len(Order) /\ c \in Names /\ WireArgs(c) \subseteq Names
  <2>1. Running("deploy") /\ script.pc \in Nat /\ script.pc - Len(Order) \in {1, 2, 3} /\ Len(Order) = 14
    BY WiringsListed, NamesListed DEF WireNext, IInv, ProcessOK, Running
  <2> QED BY <2>1, WiringsListed
<1>2. /\ DOMAIN at = Names /\ Complete(at) /\ \A d \in Names : at[d] \in Addresses /\ at[d] >= s
  BY <1>1, MadeIsWhole
<1>3. nonce \in Nat /\ nonce' = nonce + 1 /\ code' = code /\ refs' = [refs EXCEPT ![a] = @ \cup new]
  BY DEF WireNext, Call, IInv, ChainOK
<1>4. \A d \in Names : wt[d] \in Addresses /\ \A r \in refs[wt[d]] : r[2] = wt[r[1]]
  BY DEF Complete, Whole
<1>5. \A r \in new : r[1] \in Names /\ r[2] = at[r[1]]
  BY <1>1, <1>2 DEF Resolve
<1>6. refs \in [Addresses -> SUBSET (Names \X Nat)] /\ a \in Addresses /\ a >= s
  BY <1>1, <1>2 DEF IInv, ChainOK
<1>7. ASSUME NEW d \in Names, NEW r \in refs'[wt[d]]
      PROVE  r[2] = wt[r[1]]
  <2> HIDE DEF new, a, c
  <2>1. CASE Earlier(wt)
    <3>1. wt[d] # a
      <4>1. wt[d] < s /\ wt[d] \in Int /\ a \in Int /\ s \in Int
        BY <2>1, <1>1, <1>4, <1>6, DeploymentAssumption DEF Earlier, Addresses, IInv, ProcessOK, Running
      <4> QED BY <1>6, <4>1
    <3>2. refs'[wt[d]] = refs[wt[d]]
      BY <1>3, <1>4, <1>6, <3>1
    <3> QED BY <1>4, <1>7, <3>2
  <2>2. CASE \A e \in Names : wt[e] = at[e]
    <3>1. r \in refs[wt[d]] \/ r \in new
      BY <1>3, <1>4, <1>6, <1>7
    <3> QED BY <1>4, <1>5, <2>2, <3>1
  <2> QED BY <2>1, <2>2
<1>8. \A x \in Addresses : x < nonce => code'[x] = code[x]
  BY <1>3
<1>9. nonce \in Nat /\ nonce' \in Nat /\ nonce <= nonce' /\ Whole(wt, nonce, code, refs)
  BY <1>3 DEF Complete
<1>10. \A d \in Names : \A r \in refs'[wt[d]] : r[2] = wt[r[1]]
  BY <1>7
<1> HIDE DEF c, at, a, s, new
<1> QED BY <1>8, <1>9, <1>10, WholeStays

\* A wiring keeps every whole deployment, and gives the wired book one.
LEMMA WireNextKeeps ==
  ASSUME IInv, WireNext
  PROVE  IInv'
<1> DEFINE c == Wirings[script.pc - Len(Order)]
           at == script.at
           a == at[c]
           s == script.start
           new == Resolve(WireArgs(c))
<1>1. /\ Running("deploy") /\ script # NoScript /\ script.name = "deploy"
      /\ script.pc \in 15 .. 17 /\ Len(Order) = 14 /\ script.pc > Len(Order)
      /\ c \in Names /\ WireArgs(c) \subseteq Names /\ c \in {"IntentBook", "ClearingVault", "PositionLedger"}
  <2>1. Running("deploy") /\ script.pc \in Nat /\ script.pc - Len(Order) \in {1, 2, 3} /\ Len(Order) = 14
    BY WiringsListed, NamesListed DEF WireNext, IInv, ProcessOK, Running
  <2> QED BY <2>1, WiringsListed DEF Running
<1>2. /\ DOMAIN at = Names /\ Made = 14 /\ Complete(at)
      /\ \A d \in Names : at[d] \in Addresses /\ at[d] >= s /\ at[d] < nonce /\ code[at[d]] = d
  BY <1>1, MadeIsWhole DEF Complete, Whole
<1>3. /\ nonce \in Nat /\ nonce' = nonce + 1 /\ nonce' \in 0 .. MaxNonce
      /\ code' = code /\ refs' = [refs EXCEPT ![a] = @ \cup new] /\ wired' = wired \cup {a}
      /\ UNCHANGED <<queue, applied, position, now, mishaps, manifest>> /\ script' = Advance
  BY DeploymentAssumption DEF WireNext, Call, IInv, ChainOK
<1>4. /\ DOMAIN script' = DOMAIN script /\ script'.name = "deploy" /\ script'.pc = script.pc + 1
      /\ script'.start = s /\ script'.at = at /\ script'.pc > 14
  BY <1>1, <1>3, Advanced DEF IInv
<1>5. a \in Addresses /\ a < nonce /\ code[a] = c /\ refs \in [Addresses -> SUBSET (Names \X Nat)]
  BY <1>1, <1>2 DEF IInv, ChainOK
<1>6. new \subseteq Names \X Nat /\ \A d \in WireArgs(c) : \E r \in new : r[1] = d
  <2>1. ASSUME NEW d \in WireArgs(c)
        PROVE  d \in Names /\ <<d, at[d]>> \in new /\ at[d] \in Nat
    BY <1>1, <1>2, DeploymentAssumption DEF Resolve, Addresses
  <2>2. \A r \in new : \E d \in WireArgs(c) : r = <<d, at[d]>>
    BY <1>1, <1>2 DEF Resolve
  <2>3. ASSUME NEW r \in new PROVE r \in Names \X Nat
    <3>1. PICK d \in WireArgs(c) : r = <<d, at[d]>>
      BY <2>2
    <3> HIDE DEF new, at
    <3> QED BY <2>1, <3>1
  <2>4. ASSUME NEW d \in WireArgs(c) PROVE \E r \in new : r[1] = d
    <3> HIDE DEF new, at
    <3> QED BY <2>1, <2>4
  <2> HIDE DEF new, at
  <2> QED BY <2>3, <2>4
<1>7. \A b \in Addresses : refs[b] \subseteq refs'[b] /\ refs'[b] \subseteq refs[b] \cup new /\ refs'[b] \subseteq Names \X Nat
  <2> HIDE DEF new, a, c
  <2> QED BY <1>3, <1>5, <1>6
<1>8. ChainOK'
  <2>1. refs' \in [Addresses -> SUBSET (Names \X Nat)]
    <3>1. DOMAIN refs' = Addresses /\ refs' = [b \in DOMAIN refs' |-> refs'[b]]
      <4> HIDE DEF new, a, c
      <4> QED BY <1>3, <1>5
    <3> QED BY <1>7, <3>1
  <2>2. \A b \in Addresses : b >= nonce' => code[b] = NoCode /\ refs'[b] = {}
    <3>1. ASSUME NEW b \in Addresses, b >= nonce'
          PROVE  code[b] = NoCode /\ refs'[b] = {}
      <4>1. b >= nonce /\ b # a
        BY <1>3, <1>5, <3>1, DeploymentAssumption DEF Addresses
      <4>2. refs'[b] = refs[b]
        <5> HIDE DEF new, a, c
        <5> QED BY <1>3, <1>5, <4>1
      <4> QED BY <4>1, <4>2 DEF IInv, ChainOK
    <3> QED BY <3>1
  <2>3. \A y \in Entries' : y[1] \in Addresses /\ y[1] < nonce'
    BY <1>3, DeploymentAssumption DEF IInv, ChainOK, Entries, Addresses
  <2>4. wired' \subseteq Addresses
    <3> HIDE DEF a
    <3> QED BY <1>3, <1>5 DEF IInv, ChainOK
  <2> QED BY <1>3, <2>1, <2>2, <2>3, <2>4 DEF IInv, ChainOK
<1>9. ProcessOK'
  BY <1>1, <1>3, <1>4 DEF IInv, ProcessOK
<1>10. ASSUME NEW wt, Complete(wt), Earlier(wt) \/ \A d \in Names : wt[d] = at[d]
       PROVE  Whole(wt, nonce', code', refs')
  BY <1>10, WiringKeepsWhole
<1>11. DeployOK'
  <2>1. /\ DOMAIN at = {d \in Names : Offset(d) < Made}
        /\ nonce >= s + Made
        /\ \A d \in DOMAIN at : at[d] >= s + Offset(d)
        /\ \A d, e \in DOMAIN at : Offset(d) < Offset(e) => at[d] < at[e]
        /\ \A d \in DOMAIN at : Offset(d) <= 10 => at[d] = s + Offset(d)
        /\ \A x \in Addresses : x >= s /\ code[x] # NoCode => \E d \in DOMAIN at : x = at[d]
        /\ manifest # NoManifest => \A d \in Names : Recorded(d) < s
    BY <1>1, <1>2 DEF IInv, DeployOK
  <2>2. Made' = Made
    BY <1>1, <1>2, <1>4 DEF Made
  <2>3. nonce' >= s + Made /\ \A d \in Names : at[d] < nonce'
    <3>1. s \in Nat /\ \A d \in Names : at[d] \in Nat
      BY <1>1, <1>2, DeploymentAssumption DEF Addresses, IInv, ProcessOK, Running
    <3> QED BY <1>2, <1>3, <2>1, <3>1
  <2>4. Whole(at, nonce', code', refs')
    BY <1>2, <1>10
  <2>5. \A d \in Names : \A r \in refs'[at[d]] : r[1] \in Names /\ r[2] = at[r[1]]
    BY <1>2, <1>7, <2>4 DEF Whole
  <2>6. manifest' # NoManifest => \A d \in Names : Recorded(d)' < s
    BY <1>3, <2>1 DEF Recorded
  <2>7. script'.pc \in 1 .. 21
    BY <1>1, <1>4
  <2> HIDE DEF at, s
  <2> QED BY <1>2, <1>3, <1>4, <2>1, <2>2, <2>3, <2>5, <2>6, <2>7 DEF DeployOK
<1>12. WiredOK'
  <2> SUFFICES ASSUME NEW b \in wired'
               PROVE  /\ b < nonce' /\ code'[b] \in {"IntentBook", "ClearingVault", "PositionLedger"}
                      /\ \A d \in WireArgs(code'[b]) : \E r \in refs'[b] : r[1] = d
                      /\ code'[b] = "IntentBook" =>
                           \E wt \in [Names -> Addresses] :
                             /\ Complete(wt)' /\ wt["IntentBook"] = b
                             /\ Running("deploy")' => Earlier(wt)' \/ Mine(wt)'
    BY DEF WiredOK
  <2>1. b \in Addresses /\ b < nonce
    BY <1>3, <1>5 DEF IInv, ChainOK, WiredOK
  <2>2. code'[b] \in {"IntentBook", "ClearingVault", "PositionLedger"} /\ b < nonce'
    BY <1>1, <1>3, <1>5, <2>1, DeploymentAssumption DEF IInv, WiredOK, Addresses
  <2>3. \A d \in WireArgs(code'[b]) : \E r \in refs'[b] : r[1] = d
    <3>1. CASE b \in wired
      <4>1. \A d \in WireArgs(code[b]) : \E r \in refs[b] : r[1] = d
        BY <3>1 DEF IInv, WiredOK
      <4> QED BY <1>3, <1>7, <2>1, <4>1
    <3>2. CASE b = a
      <4>1. refs'[a] = refs[a] \cup new
        <5> HIDE DEF new, a, c
        <5> QED BY <1>3, <1>5
      <4> QED BY <1>3, <1>5, <1>6, <3>2, <4>1
    <3> QED BY <1>3, <3>1, <3>2
  <2>4. ASSUME code[b] = "IntentBook"
        PROVE  \E wt \in [Names -> Addresses] :
                 /\ Complete(wt)' /\ wt["IntentBook"] = b
                 /\ Running("deploy")' => Earlier(wt)' \/ Mine(wt)'
    <3>1. CASE b \in wired
      <4>1. PICK wt \in [Names -> Addresses] :
              Complete(wt) /\ wt["IntentBook"] = b /\ (Earlier(wt) \/ Mine(wt))
        BY <1>1, <2>4, <3>1 DEF IInv, WiredOK
      <4>2. Whole(wt, nonce', code', refs')
        BY <1>10, <4>1 DEF Mine
      <4>3. Earlier(wt)' \/ Mine(wt)'
        BY <1>1, <1>4, <4>1 DEF Earlier, Mine
      <4> QED BY <4>1, <4>2, <4>3 DEF Complete
    <3>2. CASE b = a
      <4>1. PICK wt \in [Names -> Addresses] : \A d \in Names : wt[d] = at[d]
        <5>1. [d \in Names |-> at[d]] \in [Names -> Addresses]
          BY <1>2
        <5> QED BY <5>1
      <4>2. Complete(wt)
        BY <1>2, <1>5, <4>1, WholeSame DEF Complete
      <4>3. Whole(wt, nonce', code', refs')
        BY <1>10, <4>1, <4>2
      <4>4. Mine(wt)'
        BY <1>1, <1>4, <4>1 DEF Mine
      <4>5. wt["IntentBook"] = b
        BY <1>1, <1>5, <2>4, <3>2, <4>1
      <4> QED BY <4>1, <4>3, <4>4, <4>5 DEF Complete
    <3> QED BY <1>3, <3>1, <3>2
  <2> QED BY <1>3, <2>2, <2>3, <2>4
<1>13. ManifestOK'
  <2>1. manifest # NoManifest =>
          /\ DOMAIN manifest.contracts = Names /\ Complete(manifest.contracts)
          /\ Earlier(manifest.contracts)
    BY <1>1 DEF IInv, ManifestOK, DeployOK, Earlier, Recorded
  <2>2. manifest # NoManifest => Whole(manifest.contracts, nonce', code', refs')
    BY <1>10, <2>1
  <2> QED BY <1>3, <2>1, <2>2 DEF ManifestOK, Complete
<1>14. NoNewEntry /\ SameRecord
  BY <1>3 DEF NoNewEntry, Entries, SameRecord
<1>15. RegistriesOK' /\ RecordedServe'
  BY <1>3, <1>14, RegistriesStay, RecordedServeStays
<1>16. ReaderOK' /\ AdaptersOK'
  BY <1>4 DEF ReaderOK, AdaptersOK, Running
<1> QED BY <1>8, <1>9, <1>11, <1>12, <1>13, <1>15, <1>16 DEF IInv

\* A registration elsewhere than at an adapter registry disturbs no adapter.
LEMMA ElsewhereKeeps ==
  ASSUME IInv, code' = code, position' = position, manifest' = manifest,
         \A y \in Entries' : y \in Entries \/ (y[1] \in Addresses /\ code[y[1]] # "AdapterRegistry")
  PROVE  RegistriesOK' /\ RecordedServe'
<1>1. RegistriesOK'
  <2> SUFFICES ASSUME NEW y \in Entries', code[y[1]] = "AdapterRegistry"
               PROVE  /\ PositionIsOpen(y[1] + 3)' /\ y[2] \in Addresses /\ code[y[2]] \in AdapterNames
                      /\ \A z \in Entries' : z[1] = y[1] /\ code[z[2]] = code[y[2]] => z[2] = y[2]
    BY DEF RegistriesOK
  <2>1. y \in Entries /\ \A z \in Entries' : z[1] = y[1] => z \in Entries
    OBVIOUS
  <2>2. PositionIsOpen(y[1] + 3)'
    BY <2>1 DEF IInv, RegistriesOK, PositionIsOpen
  <2> QED BY <2>1, <2>2 DEF IInv, RegistriesOK
<1>2. RecordedServe'
  <2> SUFFICES ASSUME manifest # NoManifest, manifest.adapters # <<>>
               PROVE  Serves(manifest.adapters)'
    BY DEF RecordedServe
  <2>1. Serves(manifest.adapters)
    BY DEF IInv, RecordedServe
  <2>2. PositionIsOpen(Recorded("PositionLedger"))'
    BY <2>1 DEF Serves, PositionIsOpen, Recorded
  <2>3. code[Recorded("AdapterRegistry")] = "AdapterRegistry"
    BY NamesListed DEF IInv, ManifestOK, Complete, Whole, Recorded
  <2>4. \A y \in Entries' : y[1] = Recorded("AdapterRegistry") => y \in Entries
    BY <2>3
  <2> QED BY <2>1, <2>2, <2>4 DEF Serves, Recorded
<1> QED BY <1>1, <1>2

\* A queued asset or route is at no adapter registry.
LEMMA QueueNextKeeps ==
  ASSUME IInv, QueueNext
  PROVE  IInv'
<1> DEFINE item == Registrations[script.pc - Len(Order) - Len(Wirings)]
           reg == RegistryOf(item)
           at == script.at
           s == script.start
           entry == <<at[reg], item, Due>>
<1>1. /\ Running("deploy") /\ script # NoScript /\ script.name = "deploy" /\ script.pc \in 18 .. 20
      /\ script.pc > Len(Order) /\ Len(Order) = 14 /\ reg \in {"AssetRegistry", "PriceRegistry"} /\ reg \in Names
  <2>1. /\ Running("deploy") /\ script.pc \in Nat /\ script.pc - Len(Order) - Len(Wirings) \in {1, 2, 3}
        /\ Len(Order) = 14 /\ Len(Wirings) = 3
    BY WiringsListed, RegistrationsListed, NamesListed DEF QueueNext, IInv, ProcessOK, Running
  <2>2. reg \in {"AssetRegistry", "PriceRegistry"} /\ reg \in Names
    BY <2>1, RegistrationsListed, NamesListed
  <2> QED BY <2>1, <2>2 DEF Running
<1>2. at[reg] \in Addresses /\ at[reg] < nonce /\ code[at[reg]] = reg
  BY <1>1, MadeIsWhole DEF Complete, Whole
<1>3. /\ nonce \in Nat /\ nonce' = nonce + 1 /\ nonce' \in 0 .. MaxNonce
      /\ UNCHANGED <<code, refs, wired, applied, position, now, mishaps, manifest>>
      /\ queue' = queue \cup {entry} /\ script' = Advance
  BY DeploymentAssumption DEF QueueNext, Call, IInv, ChainOK
<1>4. /\ DOMAIN script' = DOMAIN script /\ script'.name = "deploy" /\ script'.pc = script.pc + 1
      /\ script'.start = s /\ script'.at = at /\ script'.pc > 14
  BY <1>1, <1>3, Advanced DEF IInv
<1>5. entry[1] = at[reg] /\ \A y \in Entries' : y \in Entries \/ y = entry
  BY <1>3 DEF Entries
<1> HIDE DEF entry, reg, item
<1>6. ChainOK'
  <2>1. \A y \in Entries' : y[1] \in Addresses /\ y[1] < nonce'
    BY <1>2, <1>3, <1>5, DeploymentAssumption DEF IInv, ChainOK, Addresses
  <2>2. \A x \in Addresses : x >= nonce' => x >= nonce
    BY <1>3, DeploymentAssumption DEF Addresses
  <2> QED BY <1>3, <2>1, <2>2 DEF IInv, ChainOK
<1>7. Grows /\ SameRecord
  BY <1>3 DEF Grows, SameRecord
<1>8. ProcessOK'
  BY <1>1, <1>3, <1>4 DEF IInv, ProcessOK
<1>9. DeployOK'
  <2>1. Made' = 14 /\ Made = 14
    BY <1>1, <1>4 DEF Made
  <2>2. s \in Nat /\ nonce >= s + 14 /\ \A d \in DOMAIN at : at[d] \in Nat
    BY <1>1, <2>1, DeploymentAssumption DEF IInv, DeployOK, ProcessOK, Running, Addresses
  <2>3. nonce' >= s + 14 /\ \A d \in DOMAIN at : at[d] < nonce => at[d] < nonce'
    BY <1>3, <2>2
  <2>4. manifest' # NoManifest => \A d \in Names : Recorded(d)' < s
    BY <1>1, <1>3 DEF IInv, DeployOK, Recorded
  <2> QED BY <1>1, <1>3, <1>4, <2>1, <2>2, <2>3, <2>4 DEF IInv, DeployOK
<1>10. WiredOK'
  BY <1>1, <1>3, <1>4, <1>7, WiredStays
<1>11. ManifestOK'
  BY <1>7, ManifestStays
<1>12. RegistriesOK' /\ RecordedServe'
  BY <1>1, <1>2, <1>3, <1>5, ElsewhereKeeps
<1>13. ReaderOK' /\ AdaptersOK'
  BY <1>4 DEF ReaderOK, AdaptersOK, Running
<1> QED BY <1>6, <1>8, <1>9, <1>10, <1>11, <1>12, <1>13 DEF IInv

\* A manifest of a whole deployment, without adapters.
LEMMA WritingKeeps ==
  ASSUME IInv, UNCHANGED chainVars, script' = NoScript, NEW at, DOMAIN at = Names, Complete(at),
         WriteManifest(at, <<>>)
  PROVE  IInv'
<1>1. manifest'.contracts = at /\ manifest'.adapters = <<>>
  BY DEF WriteManifest
<1>2. ChainOK'
  BY DEF IInv, ChainOK, chainVars, Entries
<1>3. ProcessOK' /\ DeployOK' /\ ReaderOK' /\ AdaptersOK'
  BY DEF ProcessOK, DeployOK, ReaderOK, AdaptersOK, Running
<1>4. WiredOK'
  <2>1. Grows /\ wired' = wired /\ ~Running("deploy")'
    BY DEF Grows, chainVars, IInv, ChainOK, Running
  <2> QED BY <2>1, WiredStays
<1>5. ManifestOK'
  BY <1>1 DEF ManifestOK, Complete, chainVars
<1>6. RegistriesOK'
  <2>1. NoNewEntry /\ position' = position /\ code' = code
    BY DEF NoNewEntry, Entries, chainVars
  <2> QED BY <2>1, RegistriesStay
<1>7. RecordedServe'
  BY <1>1 DEF RecordedServe
<1> QED BY <1>2, <1>3, <1>4, <1>5, <1>6, <1>7 DEF IInv

\* The manifest deploy.ts writes is of a whole deployment.
LEMMA RecordDeploymentKeeps ==
  ASSUME IInv, RecordDeployment
  PROVE  IInv'
<1>1. Running("deploy") /\ script.pc > Len(Order)
  BY NamesListed, WiringsListed, RegistrationsListed DEF RecordDeployment
<1>2. DOMAIN script.at = Names /\ Complete(script.at)
  BY <1>1, MadeIsWhole
<1> QED BY <1>2, WritingKeeps DEF RecordDeployment

\* The reads of rebuild-manifest.ts leave one start nonce: that of the wired book's
\* own deployment, made without a gap.
LEMMA RebuildKeeps ==
  ASSUME IInv, NEW start \in Addresses, Rebuild(start)
  PROVE  IInv'
<1> DEFINE bt == [c \in Names |-> start + Offset(c)]
<1>1. /\ script' = NoScript /\ UNCHANGED chainVars /\ WriteManifest(bt, <<>>)
      /\ \A c \in Names : CodeAt(bt[c]) # NoCode
      /\ ReadsBack(bt)
  BY DEF Rebuild, RecordRebuilt
<1>2. start \in Nat /\ nonce \in Nat
  BY DeploymentAssumption DEF Addresses, IInv, ChainOK
<1>3. \A c \in Names : bt[c] = start + Offset(c) /\ bt[c] \in Addresses /\ code[bt[c]] # NoCode
  BY <1>1 DEF CodeAt
<1>4. PICK at \in [Names -> Addresses] : Complete(at) /\ at["IntentBook"] = bt["IntentBook"]
  <2>1. "IntentBook" \in Names /\ bt["IntentBook"] \in Addresses
    BY <1>3, NamesListed
  <2> HIDE DEF bt
  <2>2. bt["IntentBook"] \in wired /\ code[bt["IntentBook"]] = "IntentBook"
    BY <1>1, <2>1 DEF ReadsBack, CodeAt
  <2> QED BY <2>2 DEF IInv, WiredOK
<1> HIDE DEF bt
<1>5. /\ \A c \in Names : at[c] \in Addresses /\ at[c] \in Nat
      /\ \A c \in Names : Offset(c) <= 10 => at[c] = at["PauseController"] + Offset(c)
      /\ \A c, d \in Names : Offset(c) < Offset(d) => at[c] < at[d]
      /\ \A a \in Addresses :
           a >= at["PauseController"] /\ a <= at["WrappedWETH"] /\ code[a] # NoCode => \E c \in Names : a = at[c]
  BY <1>4, DeploymentAssumption DEF Complete, Whole, Addresses
<1>6. at["PauseController"] = start
  BY <1>2, <1>3, <1>4, <1>5, NamesListed, OffsetsListed
<1>7. \A c \in Names : Offset(c) \in 0 .. 13
  BY PlaceOfOffset
<1>8. at["EmergencyExit"] = start + 11
  <2> DEFINE e == start + 11
  <2>1. e \in Addresses /\ code[e] # NoCode /\ e \in Nat
    BY <1>2, <1>3, NamesListed, OffsetsListed
  <2>2. /\ at["ModuleFactory"] = start + 10
        /\ at["ModuleFactory"] < at["EmergencyExit"] /\ at["EmergencyExit"] < at["WrappedUSDC"]
        /\ at["WrappedUSDC"] < at["WrappedWETH"]
    BY <1>2, <1>5, <1>6, NamesListed, OffsetsListed
  <2>3. e >= at["PauseController"] /\ e <= at["WrappedWETH"]
    BY <1>2, <1>5, <1>6, <2>2, NamesListed
  <2>4. PICK c \in Names : e = at[c]
    BY <1>5, <2>1, <2>3
  <2>5. Offset(c) > 10
    BY <1>2, <1>5, <1>6, <1>7, <2>4
  <2>6. c = "EmergencyExit" \/ Offset(c) > 11
    BY <1>7, <2>5, OffsetsListed, OffsetIsOneToOne, NamesListed
  <2>7. CASE Offset(c) > 11
    <3>1. at["EmergencyExit"] < at[c] /\ at["EmergencyExit"] \in Nat
      BY <1>5, <2>7, NamesListed, OffsetsListed
    <3> QED BY <1>2, <2>2, <2>4, <3>1
  <2> QED BY <2>4, <2>6, <2>7
<1>9. at["WrappedUSDC"] = start + 12
  <2> DEFINE e == start + 12
  <2>1. e \in Addresses /\ code[e] # NoCode /\ e \in Nat
    BY <1>2, <1>3, NamesListed, OffsetsListed
  <2>2. at["EmergencyExit"] < at["WrappedUSDC"] /\ at["WrappedUSDC"] < at["WrappedWETH"]
    BY <1>5, NamesListed, OffsetsListed
  <2>3. e >= at["PauseController"] /\ e <= at["WrappedWETH"]
    BY <1>2, <1>5, <1>6, <1>8, <2>2, NamesListed
  <2>4. PICK c \in Names : e = at[c]
    BY <1>5, <2>1, <2>3
  <2>5. Offset(c) > 10 /\ c # "EmergencyExit"
    BY <1>2, <1>5, <1>6, <1>7, <1>8, <2>4
  <2>6. c = "WrappedUSDC" \/ Offset(c) > 12
    BY <1>7, <2>5, OffsetsListed, OffsetIsOneToOne, NamesListed
  <2>7. CASE Offset(c) > 12
    <3>1. at["WrappedUSDC"] < at[c] /\ at["WrappedUSDC"] \in Nat /\ at["EmergencyExit"] < at["WrappedUSDC"]
      BY <1>5, <2>7, NamesListed, OffsetsListed
    <3> QED BY <1>2, <1>8, <2>4, <3>1
  <2> QED BY <2>4, <2>6, <2>7
<1>10. at["WrappedWETH"] = start + 13
  <2> DEFINE e == start + 13
  <2>1. e \in Addresses /\ code[e] # NoCode /\ e \in Nat
    BY <1>2, <1>3, NamesListed, OffsetsListed
  <2>2. at["WrappedUSDC"] < at["WrappedWETH"] /\ at["WrappedWETH"] \in Nat
    BY <1>5, NamesListed, OffsetsListed
  <2>3. e >= at["PauseController"] /\ e <= at["WrappedWETH"]
    BY <1>2, <1>6, <1>9, <2>2
  <2>4. PICK c \in Names : e = at[c]
    BY <1>5, <2>1, <2>3
  <2>5. Offset(c) > 10 /\ c # "EmergencyExit" /\ c # "WrappedUSDC"
    BY <1>2, <1>5, <1>6, <1>7, <1>8, <1>9, <2>4
  <2>6. c = "WrappedWETH"
    BY <1>7, <2>5, OffsetsListed, OffsetIsOneToOne, NamesListed
  <2> QED BY <2>4, <2>6
<1>11. \A c \in Names : bt[c] = at[c]
  <2>1. ASSUME NEW c \in Names PROVE bt[c] = at[c]
    <3>1. CASE Offset(c) <= 10
      BY <1>3, <1>5, <1>6, <3>1
    <3>2. CASE Offset(c) > 10
      <4>1. c \in {"EmergencyExit", "WrappedUSDC", "WrappedWETH"}
        BY <1>7, <3>2, OffsetsListed, OffsetIsOneToOne, NamesListed
      <4> QED BY <1>3, <1>8, <1>9, <1>10, <4>1, OffsetsListed
    <3> QED BY <1>7, <3>1, <3>2
  <2> QED BY <2>1
<1>12. Complete(bt) /\ DOMAIN bt = Names
  <2>1. DOMAIN bt = Names
    BY DEF bt
  <2> QED BY <1>4, <1>11, <2>1, WholeSame DEF Complete, IInv, ChainOK
<1> QED BY <1>1, <1>12, WritingKeeps

-----------------------------------------------------------------------------
(* adapters.ts. *)

\* What the running adapters.ts holds of the manifest.
LEMMA AdaptersRead ==
  ASSUME IInv, Running("adapters")
  PROVE  /\ script # NoScript /\ script.name = "adapters" /\ manifest # NoManifest
         /\ script.pc \in 1 .. 8 /\ DOMAIN script = {"name", "pc", "start", "at", "wait", "read"}
         /\ \A c \in Names : /\ c \in DOMAIN script.at /\ script.at[c] = Recorded(c)
                             /\ Recorded(c) \in Addresses /\ code[Recorded(c)] = c
         /\ Recorded("PositionLedger") = Recorded("AdapterRegistry") + 3
<1>1. /\ script # NoScript /\ script.name = "adapters" /\ manifest # NoManifest
      /\ script.pc \in 1 .. 8 /\ DOMAIN script = {"name", "pc", "start", "at", "wait", "read"}
      /\ \A c \in Names : c \in DOMAIN script.at /\ script.at[c] = Recorded(c)
  BY DEF Running, IInv, ReaderOK, AdaptersOK, ProcessOK
<1>2. Whole(manifest.contracts, nonce, code, refs)
  BY <1>1 DEF IInv, ManifestOK, Complete
<1>3. \A c \in Names : Recorded(c) \in Addresses /\ code[Recorded(c)] = c
  BY <1>2 DEF Whole, Recorded
<1>4. \A c \in Names : Offset(c) <= 10 => Recorded(c) = Recorded("PauseController") + Offset(c)
  BY <1>2 DEF Whole, Recorded
<1>5. Recorded("PositionLedger") = Recorded("AdapterRegistry") + 3
  <2>1. Recorded("PositionLedger") = Recorded("PauseController") + 5
    BY <1>4, NamesListed, OffsetsListed
  <2>2. Recorded("AdapterRegistry") = Recorded("PauseController") + 2
    BY <1>4, NamesListed, OffsetsListed
  <2>3. Recorded("PauseController") \in Nat
    BY <1>3, NamesListed, DeploymentAssumption DEF Addresses
  <2> QED BY <2>1, <2>2, <2>3
<1> QED BY <1>1, <1>3, <1>5

\* An adapter created is remembered beside the recorded contracts.
LEMMA DeployAdapterKeeps ==
  ASSUME IInv, DeployAdapter
  PROVE  IInv'
<1> DEFINE p == script.pc
           at == script.at
           c == Adapters[p]
           n == nonce
           args == AdapterArgs(c)
           bt == With(at, c, n)
<1>1. Running("adapters") /\ p \in {1, 2, 3} /\ c \in AdapterNames /\ args \subseteq Names
  BY AdaptersListed, NamesListed DEF DeployAdapter, AdapterArgs
<1>2. /\ script # NoScript /\ script.name = "adapters" /\ manifest # NoManifest
      /\ \A d \in Names : /\ d \in DOMAIN at /\ at[d] = Recorded(d) /\ at[d] \in Nat
      /\ DOMAIN script = {"name", "pc", "start", "at", "wait", "read"}
  BY <1>1, AdaptersRead, DeploymentAssumption DEF Addresses
<1>3. Create(c, args) /\ UNCHANGED <<wired, queue, applied, position, now, mishaps, manifest>>
  BY DEF DeployAdapter
<1>4. Resolve(args) \subseteq Names \X Nat
  <2>1. \A d \in args : d \in Names /\ (IF d \in DOMAIN at THEN at[d] ELSE script.start + Offset(d)) \in Nat
    BY <1>1, <1>2
  <2> QED BY <2>1 DEF Resolve
<1>5. /\ ChainOK' /\ Grows /\ NoNewEntry
      /\ n \in Addresses /\ nonce' = n + 1 /\ n \in Nat
      /\ code'[n] = c /\ refs'[n] = Resolve(args)
      /\ \A a \in Addresses : a # n => code'[a] = code[a] /\ refs'[a] = refs[a]
  BY <1>1, <1>3, <1>4, CreateGrows DEF IInv
<1>6. SameRecord
  BY <1>3 DEF SameRecord
<1>7. ManifestOK' /\ RegistriesOK' /\ RecordedServe'
  <2>1. \A a \in Addresses : a < nonce => code'[a] = code[a]
    BY <1>5 DEF Grows
  <2> QED BY <1>3, <1>5, <1>6, <2>1, ManifestStays, RegistriesStay, RecordedServeStays
<1>8. script' = [Advance EXCEPT !.at = With(@, c, n)]
  BY DEF DeployAdapter
<1>9. /\ DOMAIN script' = DOMAIN script /\ script'.name = "adapters" /\ script'.pc = p + 1
      /\ script'.start = script.start /\ script'.at = bt
  BY <1>2, <1>8, AdvancedWith DEF IInv
<1>10. ProcessOK'
  BY <1>1, <1>2, <1>5, <1>9 DEF ProcessOK, IInv
<1>11. DeployOK'
  BY <1>9 DEF DeployOK, Running
<1>12. WiredOK'
  <2>1. ~Running("deploy")'
    BY <1>9 DEF Running
  <2> QED BY <1>3, <1>5, <2>1, WiredStays
<1>13. /\ DOMAIN bt = DOMAIN at \cup {c} /\ bt[c] = n
       /\ \A d \in DOMAIN at : d # c => bt[d] = at[d]
  <2> HIDE DEF at, c, n
  <2> QED BY DEF With
<1>14. ReaderOK'
  <2>1. \A d \in Names : d \in DOMAIN bt /\ bt[d] = Recorded(d)
    <3>1. c \notin Names
      BY <1>1, AdaptersListed
    <3> HIDE DEF bt, c, at
    <3> QED BY <1>2, <1>13, <3>1
  <2> QED BY <1>2, <1>3, <1>9, <2>1 DEF ReaderOK, Recorded
<1>15. AdaptersOK'
  <2>1. script'.pc \in 1 .. 8 /\ ~(script'.pc >= 5)
    BY <1>1, <1>9
  <2>2. ASSUME NEW k \in DOMAIN Adapters, k < script'.pc
        PROVE  /\ Adapters[k] \in DOMAIN bt /\ bt[Adapters[k]] \in Addresses
               /\ bt[Adapters[k]] < nonce' /\ code'[bt[Adapters[k]]] = Adapters[k]
    <3>1. k \in {1, 2, 3} /\ (k = p \/ k < p)
      BY <1>1, <1>9, <2>2, AdaptersListed
    <3>2. CASE k = p
      <4> HIDE DEF bt, at, n
      <4> QED BY <1>5, <1>13, <3>2
    <3>3. CASE k < p
      <4>1. /\ Adapters[k] \in DOMAIN at /\ at[Adapters[k]] \in Addresses
            /\ at[Adapters[k]] < n /\ code[at[Adapters[k]]] = Adapters[k]
        BY <1>1, <2>2, <3>3 DEF IInv, AdaptersOK
      <4>2. Adapters[k] # c
        BY <1>1, <3>1, <3>3, AdaptersListed
      <4>3. at[Adapters[k]] # n /\ at[Adapters[k]] < nonce'
        BY <1>5, <4>1, DeploymentAssumption DEF Addresses
      <4> HIDE DEF bt, at, n, c
      <4> QED BY <1>5, <1>13, <4>1, <4>2, <4>3
    <3> QED BY <3>1, <3>2, <3>3
  <2> HIDE DEF bt
  <2> QED BY <1>9, <2>1, <2>2 DEF AdaptersOK
<1> QED BY <1>5, <1>7, <1>10, <1>11, <1>12, <1>14, <1>15 DEF IInv

\* A call of the running adapters.ts that adds to the position or to the queue.
LEMMA CallKeeps ==
  ASSUME IInv, Running("adapters"), Call, script' = Advance, script.pc <= 7,
         UNCHANGED <<code, refs, wired, applied, now, mishaps, manifest>>
  PROVE  /\ nonce \in Nat /\ nonce' = nonce + 1 /\ nonce' \in 0 .. MaxNonce /\ Grows /\ SameRecord
         /\ script'.name = "adapters" /\ script'.pc = script.pc + 1 /\ script'.at = script.at
         /\ script'.pc \in 1 .. 8
         /\ ProcessOK' /\ DeployOK' /\ WiredOK' /\ ManifestOK' /\ ReaderOK'
         /\ (\A y \in Entries' : y[1] \in Addresses /\ y[1] < nonce') => ChainOK'
<1>1. nonce \in Nat /\ nonce' = nonce + 1 /\ nonce' \in 0 .. MaxNonce
  BY DeploymentAssumption DEF Call, IInv, ChainOK
<1>2. Grows /\ SameRecord
  BY <1>1 DEF Grows, SameRecord
<1>3. /\ script # NoScript /\ script.name = "adapters" /\ script.pc \in 1 .. 8 /\ manifest # NoManifest
      /\ \A c \in Names : c \in DOMAIN script.at /\ script.at[c] = Recorded(c)
  BY AdaptersRead
<1>4. /\ DOMAIN script' = DOMAIN script /\ script'.name = "adapters" /\ script'.pc = script.pc + 1
      /\ script'.start = script.start /\ script'.at = script.at
  BY <1>3, Advanced DEF IInv
<1>5. ProcessOK'
  BY <1>1, <1>3, <1>4 DEF ProcessOK, IInv
<1>6. DeployOK' /\ ~Running("deploy")'
  BY <1>4 DEF DeployOK, Running
<1>7. WiredOK'
  BY <1>2, <1>6, WiredStays
<1>8. ManifestOK'
  BY <1>2, ManifestStays
<1>9. ReaderOK'
  BY <1>3, <1>4 DEF ReaderOK, Recorded
<1>10. ASSUME \A y \in Entries' : y[1] \in Addresses /\ y[1] < nonce'
       PROVE  ChainOK'
  <2>1. \A x \in Addresses : x >= nonce' => x >= nonce
    BY <1>1, DeploymentAssumption DEF Addresses
  <2> QED BY <1>1, <1>10, <2>1 DEF IInv, ChainOK
<1> QED BY <1>1, <1>2, <1>3, <1>4, <1>5, <1>6, <1>7, <1>8, <1>9, <1>10

\* The three adapters a process past them holds.
LEMMA AdaptersMade ==
  ASSUME IInv, Running("adapters"), script.pc >= 4
  PROVE  \A c \in AdapterNames : /\ c \in DOMAIN script.at /\ script.at[c] \in Addresses
                                 /\ script.at[c] < nonce /\ code[script.at[c]] = c
<1>1. script.pc \in 4 .. 8
  BY AdaptersRead
<1>2. \A k \in {1, 2, 3} : k < script.pc
  BY <1>1
<1>3. \A k \in {1, 2, 3} : /\ Adapters[k] \in DOMAIN script.at /\ script.at[Adapters[k]] \in Addresses
                           /\ script.at[Adapters[k]] < nonce /\ code[script.at[Adapters[k]]] = Adapters[k]
  BY <1>2, AdaptersListed DEF IInv, AdaptersOK
<1> QED BY <1>3, AdaptersListed

\* They are still what the process holds after a call that creates nothing.
LEMMA AdaptersStayMade ==
  ASSUME IInv, Running("adapters"), script.pc >= 4, code' = code, nonce \in Nat, nonce' = nonce + 1,
         script'.at = script.at
  PROVE  \A k \in DOMAIN Adapters :
           /\ Adapters[k] \in DOMAIN script'.at /\ script'.at[Adapters[k]] \in Addresses
           /\ script'.at[Adapters[k]] < nonce' /\ code'[script'.at[Adapters[k]]] = Adapters[k]
<1>1. \A k \in DOMAIN Adapters : Adapters[k] \in AdapterNames
  BY AdaptersListed
<1>2. \A x \in Addresses : x < nonce => x < nonce'
  BY DeploymentAssumption DEF Addresses
<1> QED BY <1>1, <1>2, AdaptersMade

\* The position is opened once, before any registration, for the script's own adapter.
LEMMA OpenPositionKeeps ==
  ASSUME IInv, OpenPosition
  PROVE  IInv'
<1> DEFINE at == script.at
           L == Recorded("PositionLedger")
           R == Recorded("AdapterRegistry")
<1>1. Running("adapters") /\ script.pc = 4
  BY AdaptersListed DEF OpenPosition
<1>2. /\ at["PositionLedger"] = L /\ at["AdapterRegistry"] = R /\ L = R + 3
      /\ code[R] = "AdapterRegistry" /\ manifest # NoManifest
  BY <1>1, AdaptersRead, NamesListed
<1>3. CASE PositionIsOpen(L)
  <2>1. script' = NoScript /\ UNCHANGED <<chainVars, manifest>>
    BY <1>2, <1>3 DEF OpenPosition
  <2>2. Quiet
    BY <2>1, NothingChanged DEF Quiet
  <2> QED BY <2>2, QuietKeeps
<1>4. CASE ~PositionIsOpen(L)
  <2>1. /\ Call /\ script' = Advance /\ position' = position \cup {<<L, at["AaveSupply"]>>}
        /\ UNCHANGED <<code, refs, wired, queue, applied, now, mishaps, manifest>>
    BY <1>2, <1>4 DEF OpenPosition
  <2>2. NoNewEntry /\ Entries' = Entries
    BY <2>1 DEF NoNewEntry, Entries
  <2>3. /\ nonce \in Nat /\ nonce' = nonce + 1 /\ Grows /\ SameRecord
        /\ script'.name = "adapters" /\ script'.pc = 5 /\ script'.at = at
        /\ ProcessOK' /\ DeployOK' /\ WiredOK' /\ ManifestOK' /\ ReaderOK'
        /\ (\A y \in Entries' : y[1] \in Addresses /\ y[1] < nonce') => ChainOK'
    BY <1>1, <2>1, CallKeeps
  <2>4. ChainOK'
    BY <2>2, <2>3, DeploymentAssumption DEF IInv, ChainOK, Addresses
  <2>5. RegistriesOK'
    BY <2>1, <2>2, RegistriesStay
  <2>6. manifest.adapters = <<>>
    BY <1>2, <1>4 DEF IInv, RecordedServe, Serves
  <2>7. RecordedServe'
    BY <2>1, <2>6 DEF RecordedServe
  <2>8. Serves(at)'
    <3>1. L' = L /\ R' = R
      BY <2>1 DEF Recorded
    <3>2. PositionIsOpen(L)'
      <4>1. <<L, at["AaveSupply"]>> \in position' /\ <<L, at["AaveSupply"]>>[1] = L
        BY <2>1
      <4>2. \E q \in position' : q[1] = L'
        <5> HIDE DEF at
        <5> QED BY <3>1, <4>1
      <4> QED BY <4>2 DEF PositionIsOpen
    <3>3. \A q \in position' : q[1] = L => q[2] = at["AaveSupply"]
      BY <1>4, <2>1 DEF PositionIsOpen
    <3>4. \A y \in Entries : y[1] # R
      BY <1>2, <1>4 DEF IInv, RegistriesOK
    <3> HIDE DEF L, R
    <3> QED BY <2>2, <2>3, <3>1, <3>2, <3>3, <3>4 DEF Serves, L, R
  <2>9. AdaptersOK'
    <3>1. \A k \in DOMAIN Adapters :
            /\ Adapters[k] \in DOMAIN script'.at /\ script'.at[Adapters[k]] \in Addresses
            /\ script'.at[Adapters[k]] < nonce' /\ code'[script'.at[Adapters[k]]] = Adapters[k]
      BY <1>1, <2>1, <2>3, AdaptersStayMade
    <3> QED BY <2>1, <2>3, <2>6, <2>8, <3>1 DEF AdaptersOK
  <2> QED BY <2>3, <2>4, <2>5, <2>7, <2>9 DEF IInv
<1> QED BY <1>3, <1>4

\* A queued adapter is the script's own, and the only one of its kind.
LEMMA QueueAdapterKeeps ==
  ASSUME IInv, QueueAdapter
  PROVE  IInv'
<1> DEFINE at == script.at
           c == Adapters[script.pc - Len(Adapters) - 1]
           L == Recorded("PositionLedger")
           R == Recorded("AdapterRegistry")
           entry == <<R, at[c], Due>>
<1>1. Running("adapters") /\ script.pc \in 5 .. 7 /\ c \in AdapterNames
  <2>1. Running("adapters") /\ script.pc \in Nat /\ script.pc - 3 - 1 \in {1, 2, 3}
    BY AdaptersListed DEF QueueAdapter, IInv, ProcessOK, Running
  <2> QED BY <2>1, AdaptersListed
<1>2. /\ at["AdapterRegistry"] = R /\ L = R + 3 /\ R \in Addresses
      /\ code[R] = "AdapterRegistry" /\ manifest # NoManifest /\ script.pc >= 4 /\ script.pc >= 5
  BY <1>1, AdaptersRead, NamesListed
<1>3. /\ Call /\ script' = Advance /\ queue' = queue \cup {entry}
      /\ UNCHANGED <<code, refs, wired, applied, position, now, mishaps, manifest>>
  BY <1>2 DEF QueueAdapter
<1>4. entry[1] = R /\ entry[2] = at[c] /\ \A y \in Entries' : y \in Entries \/ y = entry
  BY <1>3 DEF Entries
<1>5. /\ nonce \in Nat /\ nonce' = nonce + 1 /\ Grows /\ SameRecord
      /\ script'.name = "adapters" /\ script'.pc = script.pc + 1 /\ script'.at = at
      /\ ProcessOK' /\ DeployOK' /\ WiredOK' /\ ManifestOK' /\ ReaderOK'
      /\ (\A y \in Entries' : y[1] \in Addresses /\ y[1] < nonce') => ChainOK'
  BY <1>1, <1>3, CallKeeps
<1>6. manifest.adapters = <<>> /\ Serves(at)
  BY <1>1, <1>2 DEF IInv, AdaptersOK
<1>7. \A d \in AdapterNames : at[d] \in Addresses /\ code[at[d]] = d
  BY <1>1, <1>2, AdaptersMade
<1>8. R < nonce
  BY <1>2, NamesListed DEF IInv, ManifestOK, Complete, Whole, Recorded
<1> HIDE DEF entry
<1>9. ChainOK'
  <2>1. \A y \in Entries' : y[1] \in Addresses /\ y[1] < nonce'
    <3>1. \A y \in Entries' : y[1] \in Addresses /\ y[1] < nonce
      BY <1>2, <1>4, <1>8 DEF IInv, ChainOK
    <3> QED BY <1>5, <3>1, DeploymentAssumption DEF Addresses
  <2> QED BY <1>5, <2>1
<1>10. \A y \in Entries' : y[1] = R => \E d \in AdapterNames : y[2] = at[d]
  BY <1>1, <1>4, <1>6 DEF Serves
<1>11. RegistriesOK'
  <2> SUFFICES ASSUME NEW y \in Entries', code[y[1]] = "AdapterRegistry"
               PROVE  /\ PositionIsOpen(y[1] + 3) /\ y[2] \in Addresses /\ code[y[2]] \in AdapterNames
                      /\ \A z \in Entries' : z[1] = y[1] /\ code[z[2]] = code[y[2]] => z[2] = y[2]
    BY <1>3 DEF RegistriesOK, PositionIsOpen
  <2>1. CASE y[1] = R
    <3>1. PositionIsOpen(R + 3)
      BY <1>2, <1>6 DEF Serves
    <3>2. \A z \in Entries' : z[1] = R /\ code[z[2]] = code[y[2]] => z[2] = y[2]
      BY <1>7, <1>10, <2>1
    <3> QED BY <1>7, <1>10, <2>1, <3>1, <3>2
  <2>2. CASE y[1] # R
    <3>1. y \in Entries /\ \A z \in Entries' : z[1] = y[1] => z \in Entries
      BY <1>4, <2>2
    <3> QED BY <3>1 DEF IInv, RegistriesOK
  <2> QED BY <2>1, <2>2
<1>12. RecordedServe'
  BY <1>3, <1>6 DEF RecordedServe
<1>13. AdaptersOK'
  <2>1. \A k \in DOMAIN Adapters :
          /\ Adapters[k] \in DOMAIN script'.at /\ script'.at[Adapters[k]] \in Addresses
          /\ script'.at[Adapters[k]] < nonce' /\ code'[script'.at[Adapters[k]]] = Adapters[k]
    BY <1>1, <1>2, <1>3, <1>5, AdaptersStayMade
  <2>2. Serves(at)'
    <3>1. L' = L /\ R' = R /\ at' = at
      BY <1>3, <1>5 DEF Recorded
    <3>2. PositionIsOpen(L)'
      BY <1>3, <1>6, <3>1 DEF PositionIsOpen, Serves
    <3>3. \A q \in position' : q[1] = L => q[2] = at["AaveSupply"]
      BY <1>3, <1>6 DEF Serves
    <3> HIDE DEF L, R, at
    <3> QED BY <1>10, <3>1, <3>2, <3>3 DEF Serves, L, R
  <2>3. script'.pc \in 1 .. 8
    BY <1>1, <1>5
  <2> QED BY <1>3, <1>5, <1>6, <2>1, <2>2, <2>3 DEF AdaptersOK
<1> QED BY <1>5, <1>9, <1>11, <1>12, <1>13 DEF IInv

\* The adapters adapters.ts records are those that serve.
LEMMA RecordAdaptersKeeps ==
  ASSUME IInv, RecordAdapters
  PROVE  IInv'
<1> DEFINE at == script.at
           ad == [c \in AdapterNames |-> at[c]]
<1>1. Running("adapters") /\ script.pc = 8 /\ script' = NoScript
  BY AdaptersListed DEF RecordAdapters
<1>2. manifest # NoManifest /\ Serves(at)
  BY <1>1, AdaptersRead DEF IInv, AdaptersOK
<1>3. manifest'.contracts = manifest.contracts /\ manifest'.adapters = ad /\ UNCHANGED chainVars
  BY DEF RecordAdapters, WriteManifest
<1>4. ChainOK'
  BY <1>3 DEF IInv, ChainOK, chainVars, Entries
<1>5. ProcessOK' /\ DeployOK' /\ ReaderOK' /\ AdaptersOK'
  BY <1>1 DEF ProcessOK, DeployOK, ReaderOK, AdaptersOK, Running
<1>6. WiredOK'
  <2>1. Grows /\ wired' = wired /\ ~Running("deploy")'
    BY <1>1, <1>3 DEF Grows, chainVars, IInv, ChainOK, Running
  <2> QED BY <2>1, WiredStays
<1>7. ManifestOK'
  BY <1>2, <1>3 DEF ManifestOK, Complete, chainVars, IInv
<1>8. RegistriesOK'
  <2>1. NoNewEntry /\ position' = position /\ code' = code
    BY <1>3 DEF NoNewEntry, Entries, chainVars
  <2> QED BY <2>1, RegistriesStay
<1>9. RecordedServe'
  <2>1. \A c \in AdapterNames : ad[c] = at[c]
    OBVIOUS
  <2>2. "AaveSupply" \in AdapterNames
    BY AdaptersListed
  <2>3. /\ PositionIsOpen(Recorded("PositionLedger"))
        /\ \A q \in position : q[1] = Recorded("PositionLedger") => q[2] = ad["AaveSupply"]
        /\ \A y \in Entries : y[1] = Recorded("AdapterRegistry") => \E c \in AdapterNames : y[2] = ad[c]
    <3> HIDE DEF ad, at
    <3> QED BY <1>2, <2>1, <2>2 DEF Serves, at
  <2>4. /\ Recorded("PositionLedger")' = Recorded("PositionLedger")
        /\ Recorded("AdapterRegistry")' = Recorded("AdapterRegistry")
        /\ position' = position /\ Entries' = Entries
    BY <1>3 DEF Recorded, chainVars, Entries
  <2>5. PositionIsOpen(Recorded("PositionLedger"))'
    BY <2>3, <2>4 DEF PositionIsOpen
  <2> HIDE DEF ad
  <2> QED BY <1>3, <2>3, <2>4, <2>5 DEF RecordedServe, Serves
<1> QED BY <1>4, <1>5, <1>6, <1>7, <1>8, <1>9 DEF IInv

-----------------------------------------------------------------------------
(* The theorems. *)

\* Every step keeps the invariant.
LEMMA NextKeeps == IInv /\ [Next]_vars => IInv'
<1> SUFFICES ASSUME IInv, [Next]_vars PROVE IInv'
  OBVIOUS
<1>1. CASE ScriptStep
  BY <1>1, DeployNextKeeps, WireNextKeeps, QueueNextKeeps, RecordDeploymentKeeps, QuietSteps,
     DeployAdapterKeeps, OpenPositionKeeps, QueueAdapterKeeps, RecordAdaptersKeeps DEF ScriptStep
<1>2. CASE Operator
  BY <1>2, StartSteps, RebuildKeeps DEF Operator
<1>3. CASE Outsider \/ Crash \/ ForeignTransaction \/ Tick \/ UNCHANGED vars
  BY <1>3, QuietSteps
<1> QED BY <1>1, <1>2, <1>3 DEF Next

\* The invariant holds in every reachable state.
LEMMA InvariantHolds == Spec => []IInv
BY InitHolds, NextKeeps, PTL DEF Spec

\* Whatever is interrupted, sent besides or rebuilt from a wrong nonce, the manifest
\* names one deployment: each contract where it is listed, pointing at what is listed.
THEOREM ManifestNamesOne == Spec => []ManifestIsCoherent
<1>1. IInv => ManifestIsCoherent
  BY CoherentByInv
<1> QED BY <1>1, InvariantHolds, PTL

\* A manifest with adapters names the ones that serve: the position of its ledger is
\* its Aave adapter's, and its registry has applied no others.
THEOREM ManifestNamesItsAdapters == Spec => []AdaptersMatchManifest
<1>1. IInv => AdaptersMatchManifest
  BY MatchByInv
<1> QED BY <1>1, InvariantHolds, PTL

\* A deployment verify-live passes is whole, the wirings it never reads included.
THEOREM WhatPassesIsWhole == Spec => []PassedIsWhole
<1>1. IInv => PassedIsWhole
  BY WholeByInv
<1> QED BY <1>1, InvariantHolds, PTL
=============================================================================
