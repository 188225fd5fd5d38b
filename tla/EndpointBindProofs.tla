------------------------- MODULE EndpointBindProofs -------------------------
(***************************************************************************)
(* Theorems about EndpointBind, for any threads, calls, keys, options and  *)
(* number of restarts.                                                     *)
(***************************************************************************)
EXTENDS EndpointBind, TLAPS

-----------------------------------------------------------------------------
(* The options.                                                            *)

LEMMA NoOptionsType == NoOptions \in EndpointOptions
BY DEF NoOptions, BindOptions, EndpointOptions

\* The builder keeps to the relays and lookups there are, and takes its key from
\* the options.
LEMMA BuilderType ==
  ASSUME NEW o \in EndpointOptions, Accepted(o)
  PROVE  /\ BuilderFromOptions(o).relays \subseteq Relays
         /\ BuilderFromOptions(o).lookups = LookupsOf(o)
         /\ LookupsOf(o) \subseteq PresetLookups
         /\ BuilderFromOptions(o).secret_key = {b.of : b \in o.secret_key}
<1>1. RelayMode(o) \in RelayModeOptions
  <2>1. CASE o.relay_mode = {}
    BY <2>1 DEF RelayMode, RelayModeOptions
  <2>2. CASE o.relay_mode # {}
    <3>1. (CHOOSE m \in o.relay_mode : TRUE) \in o.relay_mode
      BY <2>2
    <3> QED BY <2>2, <3>1 DEF RelayMode, EndpointOptions
  <2> QED BY <2>1, <2>2
<1>2. RelaysOf(o) \subseteq Relays
  <2>1. \A t \in RelayMode(o).urls : t \in Text(Relays) /\ Parses(t)
    BY <1>1 DEF Accepted, RelayModeOptions
  <2>2. \A t \in RelayMode(o).urls : t.of \in Relays
    BY <2>1 DEF Text, Parses
  <2>3. RelayMode(o).mode \in {"default", "disabled", "custom"}
    BY <1>1 DEF RelayModeOptions
  <2> QED BY <2>2, <2>3, PresetAssumption DEF RelaysOf
<1> QED BY <1>2 DEF BuilderFromOptions, LookupsOf

-----------------------------------------------------------------------------
(* Types.                                                                  *)

LEMMA FreshKeyType == FreshKey \subseteq Secrets \ used
BY DEF FreshKey

LEMMA IdsOfKey == \A k \in Secrets : IdsOf({k}) = {PublicKey[k]} /\ PublicKey[k] \in Ids
BY PublicKeyAssumption DEF IdsOf

LEMMA TypeInit == Init => TypeOK
BY NoOptionsType, BoundsAssumption DEF Init, TypeOK, Identities

-----------------------------------------------------------------------------
(* The context.                                                            *)

\* One thread at most runs the closure, and whoever has got past the Once has got
\* past a closure that is finished.
ContextInv ==
  /\ \A t \in Threads : install[t] = "running" => once = "running"
  /\ \A t, u \in Threads : install[t] = "running" /\ install[u] = "running" => t = u
  /\ \A t \in Threads : install[t] = "returned" => once = "done"
  /\ \A b \in Binds : call[b] \in {"binding", "bound", "disposed"} => once = "done"

LEMMA ContextStep == TypeOK /\ ContextInv /\ [Next]_vars => ContextInv'
<1> SUFFICES ASSUME TypeOK, ContextInv, [Next]_vars PROVE ContextInv'
  OBVIOUS
<1>a. /\ install \in [Threads -> {"idle", "calling", "running", "returned"}]
      /\ call \in [Binds -> {"new", "binding", "failed", "bound", "disposed", "released"}]
  BY DEF TypeOK
<1>1. ASSUME NEW t \in Threads,
             InstallCall(t) \/ InstallRuns(t) \/ InstallEnds(t) \/ InstallReturns(t)
      PROVE  ContextInv'
  BY <1>1, <1>a DEF ContextInv, InstallCall, InstallRuns, InstallEnds, InstallReturns,
       InstallTo, OncePassed, callVars
<1>2. ASSUME NEW b \in Binds, NEW o \in OptionSets, BindWith(b, o) PROVE ContextInv'
  BY <1>2, <1>a DEF ContextInv, BindWith, processVars
<1>3. ASSUME NEW b \in Binds,
             BindFails(b) \/ Bound(b) \/ Dispose(b) \/ Release(b)
      PROVE  ContextInv'
  BY <1>3, <1>a DEF ContextInv, BindFails, Bound, Dispose, Release, processVars
<1>4. ASSUME NEW b \in Binds, RelayUp(b) \/ WarmUpEnds(b) \/ SaveSecretKey(b)
      PROVE  ContextInv'
  BY <1>4 DEF ContextInv, RelayUp, WarmUpEnds, SaveSecretKey, processVars, callVars
<1>5. CASE GenerateEd25519Keypair \/ ReadPublicKey
  BY <1>5 DEF ContextInv, GenerateEd25519Keypair, ReadPublicKey, processVars, callVars
<1>6. ASSUME NEW d \in Data, SignWithSaved(d) \/ \E b \in Binds : Sign(b, d)
      PROVE  ContextInv'
  BY <1>6 DEF ContextInv, SignWithSaved, Sign, Signs, processVars, callVars
<1>7. CASE Restart
  BY <1>7, <1>a DEF ContextInv, Restart
<1>8. CASE UNCHANGED vars
  BY <1>8 DEF ContextInv, vars, processVars, callVars
<1> QED BY <1>1, <1>2, <1>3, <1>4, <1>5, <1>6, <1>7, <1>8 DEF Next

\* Only the closure changes the context, and only while nothing is bound; but for
\* a restart, after which nothing is.
LEMMA SettledStep ==
  ASSUME TypeOK, ContextInv, [Next]_vars, restarts' = restarts,
         NEW b \in Binds, call[b] \in {"binding", "bound", "disposed"}
  PROVE  context' = context
<1>1. ASSUME NEW t \in Threads, InstallEnds(t) PROVE FALSE
  BY <1>1 DEF InstallEnds, InstallTo, ContextInv
<1>2. CASE Restart
  BY <1>2 DEF Restart, TypeOK
<1>3. ASSUME ~Restart, \A t \in Threads : ~InstallEnds(t) PROVE context' = context
  BY <1>3 DEF Next, vars, processVars, InstallCall, InstallRuns, InstallReturns, BindWith,
       BindFails, Bound, RelayUp, WarmUpEnds, Dispose, Release, SaveSecretKey, Sign,
       SignWithSaved, Signs, GenerateEd25519Keypair, ReadPublicKey
<1> QED BY <1>1, <1>2, <1>3

-----------------------------------------------------------------------------
(* Keys and identities.                                                    *)

\* The keys in use are keys of the identity they are used for ...
KeysInv ==
  /\ \A b \in Binds : \A e \in endpoint[b] :
       e.secret_key \in used /\ PublicKey[e.secret_key] \in ids[who[b]]
  /\ \A x \in saved : PublicKey[x.bytes.of] \in ids[x.who]
  /\ \A b \in Binds : call[b] = "binding" => \A x \in options[b].secret_key :
       x.len = 32 => x.of \in used /\ PublicKey[x.of] \in ids[who[b]]

\* ... a call that has no key yet is to have an identity of its own ...
FreshInv ==
  \A b \in Binds :
    \/ call[b] = "new"
    \/ call[b] = "binding" /\ \A x \in options[b].secret_key : x.len # 32
    => who[b] = b /\ ids[b] = {}

\* ... and every id is that of a key that was generated.
IdsInv == \A i \in Identities : \A p \in ids[i] : \E k \in used : p = PublicKey[k]

\* What there is of an endpoint, and when.
EndpointInv ==
  \A b \in Binds :
    /\ call[b] \in {"new", "binding", "failed", "released"} => endpoint[b] = {}
    /\ \A e \in endpoint[b] : e.lookups = LookupsOf(options[b])

\* The key of a new endpoint: of the identity it was given, or unheard of.
LEMMA BoundKey ==
  ASSUME TypeOK, KeysInv, FreshInv, IdsInv, NEW b \in Binds, call[b] = "binding",
         Accepted(options[b]),
         NEW k \in SecretKeyOf(BuilderFromOptions(options[b]))
  PROVE  /\ k \in Secrets /\ PublicKey[k] \in Ids /\ IdsOf({k}) = {PublicKey[k]}
         /\ \/ k \in used /\ PublicKey[k] \in ids[who[b]]
            \/ /\ k \notin used /\ who[b] = b /\ ids[b] = {}
               /\ \A i \in Identities : PublicKey[k] \notin ids[i]
<1>1. options[b] \in EndpointOptions /\ used \subseteq Secrets
  BY DEF TypeOK
<1>2. BuilderFromOptions(options[b]).secret_key = {x.of : x \in options[b].secret_key}
  BY DEF BuilderFromOptions
<1>3. CASE options[b].secret_key # {}
  <2>1. PICK x \in options[b].secret_key : k = x.of
    BY <1>2, <1>3 DEF SecretKeyOf
  <2>2. x.len = 32
    BY <2>1 DEF Accepted
  <2>3. k \in used /\ PublicKey[k] \in ids[who[b]]
    BY <2>1, <2>2 DEF KeysInv
  <2> QED BY <2>3, <1>1, IdsOfKey
<1>4. CASE options[b].secret_key = {}
  <2>1. k \in FreshKey
    BY <1>2, <1>4 DEF SecretKeyOf
  <2>2. k \in Secrets /\ k \notin used
    BY <2>1, FreshKeyType
  <2>3. who[b] = b /\ ids[b] = {}
    BY <1>4 DEF FreshInv
  <2>4. \A i \in Identities : PublicKey[k] \notin ids[i]
    BY <2>2, <1>1, PublicKeyAssumption DEF IdsInv
  <2> QED BY <2>2, <2>3, <2>4, IdsOfKey
<1> QED BY <1>3, <1>4

\* What a call is given: its options, and its identity.
LEMMA GivenOptions ==
  ASSUME TypeOK, NEW b \in Binds, NEW o \in OptionSets, BindWith(b, o)
  PROVE  /\ options' = [options EXCEPT ![b] = options'[b]]
         /\ who' = [who EXCEPT ![b] = who'[b]]
         /\ options'[b] \in EndpointOptions
         /\ \/ who' = who /\ \A x \in options'[b].secret_key : x.len # 32
            \/ \E x \in saved : who'[b] = x.who /\ options'[b].secret_key = {x.bytes}
<1>1. o \in EndpointOptions /\ \A x \in o.secret_key : x.len # 32
  BY OptionsAssumption
<1>2. options \in [Binds -> EndpointOptions] /\ who \in [Binds -> Identities]
  BY DEF TypeOK
<1>3. CASE options' = [options EXCEPT ![b] = o] /\ who' = who
  <2>1. options'[b] = o
    BY <1>2, <1>3
  <2> QED BY <1>1, <1>2, <1>3, <2>1
<1>4. CASE \E x \in saved :
             /\ options' = [options EXCEPT ![b] = [o EXCEPT !.secret_key = {x.bytes}]]
             /\ who' = [who EXCEPT ![b] = x.who]
  <2>1. PICK x \in saved :
          /\ options' = [options EXCEPT ![b] = [o EXCEPT !.secret_key = {x.bytes}]]
          /\ who' = [who EXCEPT ![b] = x.who]
    BY <1>4
  <2>2. x.who \in Identities /\ x.bytes \in [len : Nat, of : Secrets \cup {Malformed}]
    BY DEF TypeOK
  <2> DEFINE p == [o EXCEPT !.secret_key = {x.bytes}]
  <2>3. p \in EndpointOptions /\ p.secret_key = {x.bytes}
    BY <1>1, <2>2 DEF EndpointOptions
  <2>4. options'[b] = p /\ who'[b] = x.who
    BY <2>1, <1>2
  <2> HIDE DEF p
  <2>5. options' = [options EXCEPT ![b] = options'[b]] /\ who' = [who EXCEPT ![b] = who'[b]]
    BY <2>1, <2>4 DEF p
  <2> QED BY <2>3, <2>4, <2>5
<1> QED BY <1>3, <1>4 DEF BindWith

\* A state is typed as long as the keys it holds are keys.
LEMMA TypeStep ==
  TypeOK /\ KeysInv /\ FreshInv /\ IdsInv /\ [Next]_vars => TypeOK'
<1> SUFFICES ASSUME TypeOK, KeysInv, FreshInv, IdsInv, [Next]_vars PROVE TypeOK'
  OBVIOUS
<1>1. ASSUME NEW t \in Threads,
             InstallCall(t) \/ InstallRuns(t) \/ InstallEnds(t) \/ InstallReturns(t)
      PROVE  TypeOK'
  BY <1>1 DEF TypeOK, InstallCall, InstallRuns, InstallEnds, InstallReturns,
       InstallTo, callVars, endpointVars, worldVars
<1>2. ASSUME NEW b \in Binds, NEW o \in OptionSets, BindWith(b, o) PROVE TypeOK'
  <2>1. options' \in [Binds -> EndpointOptions]
    BY <1>2, GivenOptions DEF TypeOK
  <2>2. who' \in [Binds -> Identities]
    BY <1>2 DEF BindWith, TypeOK
  <2>3. call' \in [Binds -> {"new", "binding", "failed", "bound", "disposed", "released"}]
    BY <1>2 DEF BindWith, TypeOK
  <2>4. UNCHANGED <<processVars, endpointVars, worldVars, restarts>>
    BY <1>2 DEF BindWith
  <2> QED BY <2>1, <2>2, <2>3, <2>4 DEF TypeOK, processVars, endpointVars, worldVars
<1>3. ASSUME NEW b \in Binds, Bound(b) PROVE TypeOK'
  <2>1. options[b] \in EndpointOptions /\ who[b] \in Identities
    BY DEF TypeOK
  <2> DEFINE config == BuilderFromOptions(options[b])
  <2>2. config.relays \subseteq Relays /\ config.lookups \subseteq PresetLookups
    BY <1>3, <2>1, BuilderType DEF Bound
  <2>3. PICK k \in SecretKeyOf(config) :
          /\ endpoint' = [endpoint EXCEPT ![b] =
               {[relays |-> config.relays, lookups |-> config.lookups, secret_key |-> k]}]
          /\ used' = used \cup {k}
          /\ ids' = [ids EXCEPT ![who[b]] = @ \cup IdsOf({k})]
    BY <1>3 DEF Bound
  <2>4. k \in Secrets /\ PublicKey[k] \in Ids /\ IdsOf({k}) = {PublicKey[k]}
    BY <1>3, <2>3, BoundKey DEF Bound
  <2> HIDE DEF config
  <2>5. endpoint' \in [Binds -> SUBSET [relays : SUBSET Relays,
                          lookups : SUBSET PresetLookups, secret_key : Secrets]]
    BY <2>2, <2>3, <2>4 DEF TypeOK
  <2>6. used' \subseteq Secrets /\ used \subseteq used' /\ ids' \in [Identities -> SUBSET Ids]
    BY <2>1, <2>3, <2>4 DEF TypeOK
  <2>7. warm' \in [Binds -> BOOLEAN]
    <3>1. Spawns(options[b]) \in BOOLEAN
      BY <2>1 DEF Spawns, EndpointOptions
    <3> QED BY <1>3, <3>1 DEF Bound, TypeOK
  <2>8. call' \in [Binds -> {"new", "binding", "failed", "bound", "disposed", "released"}]
    BY <1>3 DEF Bound, TypeOK
  <2>9. UNCHANGED <<processVars, options, who, online, saved, restarts>>
    BY <1>3 DEF Bound
  <2>10. saved' \subseteq [bytes : [len : {32}, of : used'], who : Identities]
    BY <2>6, <2>9 DEF TypeOK
  <2> QED BY <2>5, <2>6, <2>7, <2>8, <2>9, <2>10 DEF TypeOK, processVars
<1>4. ASSUME NEW b \in Binds,
             BindFails(b) \/ Dispose(b) \/ Release(b) \/ RelayUp(b) \/ WarmUpEnds(b)
      PROVE  TypeOK'
  BY <1>4, NoOptionsType DEF TypeOK, BindFails, Dispose, Release, RelayUp, WarmUpEnds,
       processVars, callVars, endpointVars, worldVars
<1>5. ASSUME NEW b \in Binds, SaveSecretKey(b) PROVE TypeOK'
  <2>1. \A e \in endpoint[b] : Raw(32, e.secret_key) \in [len : {32}, of : used]
    BY DEF KeysInv, Raw
  <2>2. saved' \subseteq [bytes : [len : {32}, of : used], who : Identities]
    BY <1>5, <2>1 DEF SaveSecretKey, TypeOK
  <2> QED BY <1>5, <2>2 DEF SaveSecretKey, TypeOK, processVars, callVars, endpointVars
<1>6. CASE GenerateEd25519Keypair
  <2>1. PICK k \in FreshKey :
          /\ used' = used \cup {k}
          /\ ids' = [ids EXCEPT !["keypair"] = {PublicKey[k]}]
          /\ saved' = {[bytes |-> Raw(32, k), who |-> "keypair"]}
    BY <1>6 DEF GenerateEd25519Keypair
  <2>2. k \in Secrets /\ PublicKey[k] \in Ids
    BY FreshKeyType, IdsOfKey
  <2>3. saved' \subseteq [bytes : [len : {32}, of : used'], who : Identities]
    BY <2>1 DEF Raw, Identities
  <2>4. used' \subseteq Secrets /\ ids' \in [Identities -> SUBSET Ids]
    BY <2>1, <2>2 DEF TypeOK
  <2> QED BY <1>6, <2>3, <2>4 DEF GenerateEd25519Keypair, TypeOK, processVars, callVars,
            endpointVars
<1>7. CASE ReadPublicKey
  <2>1. PICK x \in saved : ids' = [ids EXCEPT ![x.who] =
                             @ \cup {p.of : p \in Ed25519PublicFromSecret(x.bytes)}]
    BY <1>7 DEF ReadPublicKey
  <2>2. x.bytes.of \in Secrets /\ x.bytes.len = 32
    BY DEF TypeOK
  <2>3. \A p \in Ed25519PublicFromSecret(x.bytes) : p.of \in Ids
    BY <2>2, PublicKeyAssumption DEF Ed25519PublicFromSecret, SecretKeyFrom, Raw
  <2>4. ids' \in [Identities -> SUBSET Ids]
    BY <2>1, <2>3 DEF TypeOK
  <2> QED BY <1>7, <2>4 DEF ReadPublicKey, TypeOK, processVars, callVars, endpointVars
<1>8. ASSUME NEW d \in Data, SignWithSaved(d) \/ \E b \in Binds : Sign(b, d)
      PROVE  TypeOK'
  BY <1>8 DEF TypeOK, SignWithSaved, Sign, Signs, processVars, callVars, endpointVars
<1>9. CASE Restart
  <2>1. call' \in [Binds -> {"new", "binding", "failed", "bound", "disposed", "released"}]
    BY <1>9 DEF Restart, TypeOK
  <2>2. restarts' \in 0..MaxRestarts
    BY <1>9, BoundsAssumption DEF Restart, TypeOK
  <2> QED BY <1>9, <2>1, <2>2, NoOptionsType DEF Restart, TypeOK, worldVars
<1>10. CASE UNCHANGED vars
  BY <1>10 DEF TypeOK, vars, processVars, callVars, endpointVars, worldVars
<1> QED BY <1>1, <1>2, <1>3, <1>4, <1>5, <1>6, <1>7, <1>8, <1>9, <1>10 DEF Next

\* A key that has just been generated gives i its id.
Generates(i, k) ==
  /\ k \in Secrets \ used /\ ids[i] = {}
  /\ ids' = [ids EXCEPT ![i] = {PublicKey[k]}]
  /\ used' = used \cup {k}

\* An id is only ever new with its key: to keep a key, to read its public half or
\* to bind with it adds none.
LEMMA NewIds ==
  ASSUME TypeOK, KeysInv, FreshInv, IdsInv, StableIdentity, [Next]_vars
  PROVE  \/ ids' = ids /\ used' = used
         \/ \E k \in Secrets : Generates("keypair", k) /\ UNCHANGED <<callVars, endpointVars>>
         \/ \E b \in Binds, k \in Secrets : Generates(b, k) /\ Bound(b)
<1>1. CASE \E b \in Binds : Bound(b)
  <2>1. PICK b \in Binds : Bound(b)
    BY <1>1
  <2>2. PICK k \in SecretKeyOf(BuilderFromOptions(options[b])) :
          used' = used \cup {k} /\ ids' = [ids EXCEPT ![who[b]] = @ \cup IdsOf({k})]
    BY <2>1 DEF Bound
  <2>3. /\ k \in Secrets /\ IdsOf({k}) = {PublicKey[k]}
        /\ \/ k \in used /\ PublicKey[k] \in ids[who[b]]
           \/ k \notin used /\ who[b] = b /\ ids[b] = {}
    BY <2>1, <2>2, BoundKey DEF Bound
  <2>4. ids \in [Identities -> SUBSET Ids] /\ who[b] \in Identities
    BY DEF TypeOK
  <2>5. CASE k \in used /\ PublicKey[k] \in ids[who[b]]
    <3>1. ids[who[b]] \cup IdsOf({k}) = ids[who[b]]
      BY <2>3, <2>5
    <3> QED BY <2>2, <2>4, <2>5, <3>1
  <2>6. CASE k \notin used /\ who[b] = b /\ ids[b] = {}
    <3>1. ids[who[b]] \cup IdsOf({k}) = {PublicKey[k]}
      BY <2>3, <2>6
    <3>2. Generates(b, k)
      BY <2>2, <2>3, <2>4, <2>6, <3>1 DEF Generates
    <3> QED BY <2>1, <2>3, <3>2
  <2> QED BY <2>3, <2>5, <2>6
<1>2. CASE GenerateEd25519Keypair
  <2>1. PICK k \in FreshKey : used' = used \cup {k} /\ ids' = [ids EXCEPT !["keypair"] = {PublicKey[k]}]
    BY <1>2 DEF GenerateEd25519Keypair
  <2>2. k \in Secrets \ used
    BY FreshKeyType
  <2> QED BY <1>2, <2>1, <2>2 DEF GenerateEd25519Keypair, Generates
<1>3. CASE ReadPublicKey
  <2>1. PICK x \in saved : ids' = [ids EXCEPT ![x.who] =
                             @ \cup {p.of : p \in Ed25519PublicFromSecret(x.bytes)}]
    BY <1>3 DEF ReadPublicKey
  <2>2. x.bytes.len = 32 /\ PublicKey[x.bytes.of] \in ids[x.who]
    BY DEF TypeOK, KeysInv
  <2>3. {p.of : p \in Ed25519PublicFromSecret(x.bytes)} = {PublicKey[x.bytes.of]}
    <3>1. SecretKeyFrom(x.bytes) = {x.bytes.of}
      BY <2>2 DEF SecretKeyFrom
    <3>2. Ed25519PublicFromSecret(x.bytes) = {Raw(32, PublicKey[x.bytes.of])}
      BY <3>1 DEF Ed25519PublicFromSecret
    <3>3. Raw(32, PublicKey[x.bytes.of]).of = PublicKey[x.bytes.of]
      BY DEF Raw
    <3> QED BY <3>2, <3>3
  <2>4. ids[x.who] \cup {p.of : p \in Ed25519PublicFromSecret(x.bytes)} = ids[x.who]
    BY <2>2, <2>3
  <2>5. ids' = ids
    BY <2>1, <2>4 DEF TypeOK
  <2> QED BY <1>3, <2>5 DEF ReadPublicKey
<1>4. ASSUME NEW t \in Threads,
             InstallCall(t) \/ InstallRuns(t) \/ InstallEnds(t) \/ InstallReturns(t)
      PROVE  ids' = ids /\ used' = used
  BY <1>4 DEF InstallCall, InstallRuns, InstallEnds, InstallReturns, InstallTo, worldVars
<1>5. ASSUME NEW b \in Binds,
             \/ BindFails(b) \/ Dispose(b) \/ Release(b) \/ RelayUp(b) \/ WarmUpEnds(b)
             \/ SaveSecretKey(b) \/ \E o \in OptionSets : BindWith(b, o)
      PROVE  ids' = ids /\ used' = used
  BY <1>5 DEF BindFails, Dispose, Release, RelayUp, WarmUpEnds, SaveSecretKey, BindWith, worldVars
<1>6. ASSUME NEW d \in Data, SignWithSaved(d) \/ \E b \in Binds : Sign(b, d)
      PROVE  ids' = ids /\ used' = used
  BY <1>6 DEF SignWithSaved, Sign, Signs
<1>7. CASE Restart \/ UNCHANGED vars
  BY <1>7 DEF Restart, vars, worldVars
<1> QED BY <1>1, <1>2, <1>3, <1>4, <1>5, <1>6, <1>7 DEF Next

\* So what is known of an identity stays true, ids stay apart, and each is the id
\* of a key in use.
LEMMA IdsStep ==
  ASSUME TypeOK, KeysInv, FreshInv, IdsInv, StableIdentity, [Next]_vars
  PROVE  /\ used \subseteq used' /\ \A i \in Identities : ids[i] \subseteq ids'[i]
         /\ IdsInv' /\ StableIdentity'
<1>1. ids \in [Identities -> SUBSET Ids] /\ used \subseteq Secrets
  BY DEF TypeOK
<1>2. ASSUME NEW i \in Identities, NEW k \in Secrets, Generates(i, k)
      PROVE  /\ used \subseteq used' /\ \A j \in Identities : ids[j] \subseteq ids'[j]
             /\ IdsInv' /\ StableIdentity'
  <2>1. ids'[i] = {PublicKey[k]} /\ \A j \in Identities \ {i} : ids'[j] = ids[j]
    BY <1>1, <1>2 DEF Generates
  <2>2. \A j \in Identities : PublicKey[k] \notin ids[j]
    BY <1>1, <1>2, PublicKeyAssumption DEF Generates, IdsInv
  <2>3. IdsInv'
    BY <1>2, <2>1 DEF Generates, IdsInv
  <2>4. StableIdentity'
    BY <2>1, <2>2 DEF StableIdentity
  <2> QED BY <1>2, <2>1, <2>3, <2>4 DEF Generates
<1>3. CASE ids' = ids /\ used' = used
  BY <1>3 DEF IdsInv, StableIdentity
<1> QED BY <1>2, <1>3, NewIds DEF Identities

LEMMA EndpointStep == TypeOK /\ EndpointInv /\ [Next]_vars => EndpointInv'
<1> SUFFICES ASSUME TypeOK, EndpointInv, [Next]_vars PROVE EndpointInv'
  OBVIOUS
<1>a. /\ call \in [Binds -> {"new", "binding", "failed", "bound", "disposed", "released"}]
      /\ options \in [Binds -> EndpointOptions]
      /\ endpoint \in [Binds -> SUBSET [relays : SUBSET Relays,
                          lookups : SUBSET PresetLookups, secret_key : Secrets]]
  BY DEF TypeOK
<1>1. ASSUME NEW b \in Binds, NEW o \in OptionSets, BindWith(b, o) PROVE EndpointInv'
  <2>1. options' = [options EXCEPT ![b] = options'[b]]
    BY <1>1, GivenOptions
  <2>2. call[b] = "new" /\ call' = [call EXCEPT ![b] = "binding"] /\ endpoint' = endpoint
    BY <1>1 DEF BindWith, endpointVars
  <2> QED BY <1>a, <2>1, <2>2 DEF EndpointInv
<1>2. ASSUME NEW b \in Binds, Bound(b) PROVE EndpointInv'
  <2> DEFINE config == BuilderFromOptions(options[b])
  <2>1. PICK k : endpoint' = [endpoint EXCEPT ![b] =
               {[relays |-> config.relays, lookups |-> config.lookups, secret_key |-> k]}]
    BY <1>2 DEF Bound
  <2>2. config.lookups = LookupsOf(options[b])
    BY DEF BuilderFromOptions
  <2>3. call' = [call EXCEPT ![b] = "bound"] /\ options' = options
    BY <1>2 DEF Bound
  <2> HIDE DEF config
  <2>4. \A e \in endpoint'[b] : e.lookups = LookupsOf(options[b])
    BY <1>a, <2>1, <2>2
  <2>5. \A c \in Binds \ {b} : endpoint'[c] = endpoint[c] /\ call'[c] = call[c]
    BY <1>a, <2>1, <2>3
  <2>6. call'[b] = "bound"
    BY <1>a, <2>3
  <2> QED BY <2>3, <2>4, <2>5, <2>6 DEF EndpointInv
<1>3. ASSUME NEW b \in Binds, BindFails(b) \/ Dispose(b) \/ Release(b) PROVE EndpointInv'
  BY <1>3, <1>a DEF EndpointInv, BindFails, Dispose, Release, endpointVars
<1>4. ASSUME NEW b \in Binds, RelayUp(b) \/ WarmUpEnds(b) \/ SaveSecretKey(b)
      PROVE  EndpointInv'
  BY <1>4 DEF EndpointInv, RelayUp, WarmUpEnds, SaveSecretKey, callVars, endpointVars
<1>5. CASE GenerateEd25519Keypair \/ ReadPublicKey
  BY <1>5 DEF EndpointInv, GenerateEd25519Keypair, ReadPublicKey, callVars, endpointVars
<1>6. ASSUME NEW d \in Data, SignWithSaved(d) \/ \E b \in Binds : Sign(b, d)
      PROVE  EndpointInv'
  BY <1>6 DEF EndpointInv, SignWithSaved, Sign, Signs, callVars, endpointVars
<1>7. ASSUME NEW t \in Threads,
             InstallCall(t) \/ InstallRuns(t) \/ InstallEnds(t) \/ InstallReturns(t)
      PROVE  EndpointInv'
  BY <1>7 DEF EndpointInv, InstallCall, InstallRuns, InstallEnds, InstallReturns,
       InstallTo, callVars, endpointVars
<1>8. CASE Restart
  BY <1>8 DEF EndpointInv, Restart
<1>9. CASE UNCHANGED vars
  BY <1>9 DEF EndpointInv, vars, callVars, endpointVars
<1> QED BY <1>1, <1>2, <1>3, <1>4, <1>5, <1>6, <1>7, <1>8, <1>9 DEF Next

\* No step gives a call, or an endpoint, a key that is not its identity's.
LEMMA KeysStep ==
  ASSUME TypeOK, KeysInv, FreshInv, IdsInv, EndpointInv, StableIdentity, [Next]_vars
  PROVE  KeysInv'
<1>a. /\ call \in [Binds -> {"new", "binding", "failed", "bound", "disposed", "released"}]
      /\ options \in [Binds -> EndpointOptions]
      /\ endpoint \in [Binds -> SUBSET [relays : SUBSET Relays,
                          lookups : SUBSET PresetLookups, secret_key : Secrets]]
      /\ who \in [Binds -> Identities]
      /\ saved \subseteq [bytes : [len : {32}, of : used], who : Identities]
  BY DEF TypeOK
<1>b. used \subseteq used' /\ \A i \in Identities : ids[i] \subseteq ids'[i]
  BY IdsStep
<1>1. ASSUME NEW b \in Binds, NEW o \in OptionSets, BindWith(b, o) PROVE KeysInv'
  <2>1. /\ options' = [options EXCEPT ![b] = options'[b]]
        /\ who' = [who EXCEPT ![b] = who'[b]]
    BY <1>1, GivenOptions
  <2>2. /\ call[b] = "new" /\ call' = [call EXCEPT ![b] = "binding"]
        /\ endpoint' = endpoint /\ saved' = saved /\ used' = used /\ ids' = ids
    BY <1>1 DEF BindWith, endpointVars, worldVars
  <2>3. \A x \in options'[b].secret_key :
          x.len = 32 => x.of \in used /\ PublicKey[x.of] \in ids[who'[b]]
    <3>1. CASE \A x \in options'[b].secret_key : x.len # 32
      BY <3>1
    <3>2. CASE \E x \in saved : who'[b] = x.who /\ options'[b].secret_key = {x.bytes}
      BY <3>2, <1>a DEF KeysInv
    <3> QED BY <1>1, <3>1, <3>2, GivenOptions
  <2>4. endpoint[b] = {}
    BY <2>2 DEF EndpointInv
  <2>5. \A c \in Binds \ {b} :
          options'[c] = options[c] /\ who'[c] = who[c] /\ call'[c] = call[c]
    BY <1>a, <2>1, <2>2
  <2> QED BY <2>2, <2>3, <2>4, <2>5 DEF KeysInv
<1>2. ASSUME NEW b \in Binds, Bound(b) PROVE KeysInv'
  <2> DEFINE config == BuilderFromOptions(options[b])
  <2>1. PICK k \in SecretKeyOf(config) :
          /\ endpoint' = [endpoint EXCEPT ![b] =
               {[relays |-> config.relays, lookups |-> config.lookups, secret_key |-> k]}]
          /\ used' = used \cup {k}
          /\ ids' = [ids EXCEPT ![who[b]] = @ \cup IdsOf({k})]
    BY <1>2 DEF Bound
  <2>2. IdsOf({k}) = {PublicKey[k]}
    BY <1>2, <2>1, BoundKey DEF Bound
  <2>3. PublicKey[k] \in ids'[who[b]] /\ k \in used'
    BY <1>a, <2>1, <2>2 DEF TypeOK
  <2> HIDE DEF config
  <2>4. \A e \in endpoint'[b] : e.secret_key = k
    BY <1>a, <2>1
  <2>5. /\ call' = [call EXCEPT ![b] = "bound"]
        /\ options' = options /\ who' = who /\ saved' = saved
    BY <1>2 DEF Bound
  <2>6. call'[b] = "bound"
    BY <1>a, <2>5
  <2>7. \A c \in Binds \ {b} : endpoint'[c] = endpoint[c] /\ call'[c] = call[c]
    BY <1>a, <2>1, <2>5
  <2> QED BY <1>a, <1>b, <2>3, <2>4, <2>5, <2>6, <2>7 DEF KeysInv
<1>3. ASSUME NEW b \in Binds, BindFails(b) \/ Dispose(b) \/ Release(b) PROVE KeysInv'
  BY <1>3, <1>a DEF KeysInv, BindFails, Dispose, Release, endpointVars, worldVars
<1>4. ASSUME NEW b \in Binds, RelayUp(b) \/ WarmUpEnds(b) PROVE KeysInv'
  BY <1>4 DEF KeysInv, RelayUp, WarmUpEnds, callVars, worldVars
<1>5. ASSUME NEW b \in Binds, SaveSecretKey(b) PROVE KeysInv'
  <2>1. saved' = {[bytes |-> Raw(32, e.secret_key), who |-> who[b]] : e \in endpoint[b]}
    BY <1>5 DEF SaveSecretKey
  <2>2. \A x \in saved' : PublicKey[x.bytes.of] \in ids[x.who]
    BY <2>1 DEF KeysInv, Raw
  <2> QED BY <1>5, <2>2 DEF KeysInv, SaveSecretKey, callVars, endpointVars
<1>6. CASE GenerateEd25519Keypair
  <2>1. PICK k \in FreshKey :
          /\ ids' = [ids EXCEPT !["keypair"] = {PublicKey[k]}]
          /\ saved' = {[bytes |-> Raw(32, k), who |-> "keypair"]}
    BY <1>6 DEF GenerateEd25519Keypair
  <2>2. \A x \in saved' : PublicKey[x.bytes.of] \in ids'[x.who]
    BY <2>1 DEF Raw, TypeOK, Identities
  <2>3. UNCHANGED <<call, options, who, endpoint>>
    BY <1>6 DEF GenerateEd25519Keypair, callVars, endpointVars
  <2> QED BY <1>a, <1>b, <2>2, <2>3 DEF KeysInv
<1>7. CASE ReadPublicKey
  <2>1. UNCHANGED <<call, options, who, endpoint, saved>>
    BY <1>7 DEF ReadPublicKey, callVars, endpointVars
  <2> QED BY <1>a, <1>b, <2>1 DEF KeysInv
<1>8. ASSUME NEW d \in Data, SignWithSaved(d) \/ \E b \in Binds : Sign(b, d)
      PROVE  KeysInv'
  BY <1>8 DEF KeysInv, SignWithSaved, Sign, Signs, callVars, endpointVars
<1>9. ASSUME NEW t \in Threads,
             InstallCall(t) \/ InstallRuns(t) \/ InstallEnds(t) \/ InstallReturns(t)
      PROVE  KeysInv'
  BY <1>9 DEF KeysInv, InstallCall, InstallRuns, InstallEnds, InstallReturns,
       InstallTo, callVars, endpointVars, worldVars
<1>10. CASE Restart
  <2>1. \A b \in Binds : endpoint'[b] = {} /\ call'[b] # "binding"
    BY <1>10, <1>a DEF Restart
  <2> QED BY <1>10, <2>1 DEF KeysInv, Restart, worldVars
<1>11. CASE UNCHANGED vars
  BY <1>11 DEF KeysInv, vars, callVars, endpointVars, worldVars
<1> QED BY <1>1, <1>2, <1>3, <1>4, <1>5, <1>6, <1>7, <1>8, <1>9, <1>10, <1>11 DEF Next

\* Nobody else takes the identity that a call has still to make.
LEMMA FreshStep ==
  ASSUME TypeOK, KeysInv, FreshInv, IdsInv, EndpointInv, StableIdentity, [Next]_vars
  PROVE  FreshInv'
<1>a. /\ call \in [Binds -> {"new", "binding", "failed", "bound", "disposed", "released"}]
      /\ options \in [Binds -> EndpointOptions]
      /\ ids \in [Identities -> SUBSET Ids]
  BY DEF TypeOK
<1> DEFINE Keyless(b) == \A x \in options[b].secret_key : x.len # 32
           Waits(b)   == call[b] = "new" \/ (call[b] = "binding" /\ Keyless(b))
\* Who waits after a step waited before it, for the same identity.
<1>1. \A b \in Binds : Waits(b)' => Waits(b) /\ who'[b] = who[b]
  <2>1. ASSUME NEW b \in Binds, NEW o \in OptionSets, BindWith(b, o)
        PROVE  \A c \in Binds : Waits(c)' => Waits(c) /\ who'[c] = who[c]
    <3>1. /\ options' = [options EXCEPT ![b] = options'[b]]
          /\ who' = [who EXCEPT ![b] = who'[b]]
          /\ \/ who' = who
             \/ \E x \in saved : options'[b].secret_key = {x.bytes}
      BY <2>1, GivenOptions
    <3>2. call[b] = "new" /\ call' = [call EXCEPT ![b] = "binding"]
      BY <2>1 DEF BindWith
    <3>3. \A x \in saved : x.bytes.len = 32
      BY DEF TypeOK
    <3>4. who \in [Binds -> Identities]
      BY DEF TypeOK
    <3>5. Waits(b)' => Waits(b) /\ who'[b] = who[b]
      BY <1>a, <3>1, <3>2, <3>3
    <3>6. \A c \in Binds \ {b} :
            options'[c] = options[c] /\ who'[c] = who[c] /\ call'[c] = call[c]
      BY <1>a, <3>1, <3>2, <3>4
    <3> QED BY <3>5, <3>6
  <2>2. ASSUME NEW b \in Binds, BindFails(b) \/ Bound(b) \/ Dispose(b) \/ Release(b)
        PROVE  \A c \in Binds : Waits(c)' => Waits(c) /\ who'[c] = who[c]
    BY <2>2, <1>a DEF BindFails, Bound, Dispose, Release
  <2>3. ASSUME NEW b \in Binds, RelayUp(b) \/ WarmUpEnds(b) \/ SaveSecretKey(b)
        PROVE  UNCHANGED callVars
    BY <2>3 DEF RelayUp, WarmUpEnds, SaveSecretKey
  <2>4. ASSUME NEW d \in Data, SignWithSaved(d) \/ \E b \in Binds : Sign(b, d)
        PROVE  UNCHANGED callVars
    BY <2>4 DEF SignWithSaved, Sign, Signs
  <2>5. ASSUME NEW t \in Threads,
               InstallCall(t) \/ InstallRuns(t) \/ InstallEnds(t) \/ InstallReturns(t)
        PROVE  UNCHANGED callVars
    BY <2>5 DEF InstallCall, InstallRuns, InstallEnds, InstallReturns, InstallTo
  <2>6. CASE GenerateEd25519Keypair \/ ReadPublicKey \/ UNCHANGED vars
    <3>1. UNCHANGED callVars
      BY <2>6 DEF GenerateEd25519Keypair, ReadPublicKey, vars
    <3> QED BY <3>1 DEF callVars
  <2>7. CASE Restart
    BY <2>7, <1>a DEF Restart
  <2>8. CASE UNCHANGED callVars
    BY <2>8 DEF callVars
  <2> QED BY <2>1, <2>2, <2>3, <2>4, <2>5, <2>6, <2>7, <2>8 DEF Next
\* Nor does it get an id while it waits.
<1>2. \A b \in Binds : Waits(b)' /\ ids[b] = {} => ids'[b] = {}
  <2>1. CASE ids' = ids
    BY <2>1
  <2>2. ASSUME NEW k \in Secrets, Generates("keypair", k)
        PROVE  \A b \in Binds : ids[b] = {} => ids'[b] = {}
    <3>1. \A b \in Binds : b \in Identities /\ b # "keypair"
      BY NamesAssumption DEF Identities
    <3> QED BY <1>a, <2>2, <3>1 DEF Generates
  <2>3. ASSUME NEW c \in Binds, NEW k \in Secrets, Generates(c, k), Bound(c)
        PROVE  \A b \in Binds : Waits(b)' /\ ids[b] = {} => ids'[b] = {}
    <3>1. call'[c] = "bound"
      BY <1>a, <2>3 DEF Bound
    <3>2. \A b \in Binds \ {c} : ids'[b] = ids[b]
      BY <1>a, <2>3 DEF Generates, Identities
    <3> QED BY <3>1, <3>2
  <2> QED BY <2>1, <2>2, <2>3, NewIds
<1>3. \A b \in Binds : Waits(b) => who[b] = b /\ ids[b] = {}
  BY DEF FreshInv
<1>4. \A b \in Binds : Waits(b)' => who'[b] = b /\ ids'[b] = {}
  BY <1>1, <1>2, <1>3
<1> QED BY <1>4 DEF FreshInv

-----------------------------------------------------------------------------
(* Signatures.                                                             *)

SigsInv ==
  \A s \in sigs :
    /\ s.data \in Data /\ s.who \in Identities
    /\ \E k \in used : s.sig = Signature(k, s.data) /\ PublicKey[k] \in ids[s.who]

LEMMA SigsStep ==
  ASSUME TypeOK, KeysInv, FreshInv, IdsInv, StableIdentity, SigsInv, [Next]_vars
  PROVE  SigsInv'
<1>a. used \subseteq used' /\ \A i \in Identities : ids[i] \subseteq ids'[i]
  BY IdsStep
<1>1. ASSUME NEW s \in sigs
      PROVE  /\ s.data \in Data /\ s.who \in Identities
             /\ \E k \in used' : s.sig = Signature(k, s.data) /\ PublicKey[k] \in ids'[s.who]
  BY <1>a DEF SigsInv
<1>2. CASE sigs' = sigs
  BY <1>1, <1>2 DEF SigsInv
<1>3. ASSUME NEW b \in Binds, NEW d \in Data, Sign(b, d) PROVE SigsInv'
  <2>1. sigs' = sigs \cup {[sig |-> Signature(e.secret_key, d), data |-> d, who |-> who[b]] :
                             e \in endpoint[b]}
    BY <1>3 DEF Sign, Signs
  <2>2. who[b] \in Identities
    BY DEF TypeOK
  <2>3. \A e \in endpoint[b] : e.secret_key \in used' /\ PublicKey[e.secret_key] \in ids'[who[b]]
    BY <1>a, <2>2 DEF KeysInv
  <2> QED BY <1>1, <2>1, <2>2, <2>3 DEF SigsInv
<1>4. ASSUME NEW d \in Data, SignWithSaved(d) PROVE SigsInv'
  <2>1. \A s \in sigs' : s \in sigs \/ \E x \in saved : \E g \in Ed25519Sign(x.bytes, d) :
          s = [sig |-> g, data |-> d, who |-> x.who]
    BY <1>4 DEF SignWithSaved, Signs
  <2>2. ASSUME NEW x \in saved, NEW g \in Ed25519Sign(x.bytes, d)
        PROVE  /\ x.who \in Identities /\ x.bytes.of \in used'
               /\ g = Signature(x.bytes.of, d) /\ PublicKey[x.bytes.of] \in ids'[x.who]
    <3>1. x.who \in Identities /\ x.bytes.of \in used /\ x.bytes.len = 32
      BY DEF TypeOK
    <3>2. g = Signature(x.bytes.of, d)
      BY <3>1 DEF Ed25519Sign, SecretKeyFrom
    <3> QED BY <1>a, <3>1, <3>2 DEF KeysInv
  <2> QED BY <1>1, <2>1, <2>2 DEF SigsInv
<1>5. ASSUME NEW t \in Threads,
             InstallCall(t) \/ InstallRuns(t) \/ InstallEnds(t) \/ InstallReturns(t)
      PROVE  sigs' = sigs
  BY <1>5 DEF InstallCall, InstallRuns, InstallEnds, InstallReturns, InstallTo, worldVars
<1>6. ASSUME NEW b \in Binds,
             \/ BindFails(b) \/ Bound(b) \/ Dispose(b) \/ Release(b) \/ RelayUp(b)
             \/ WarmUpEnds(b) \/ SaveSecretKey(b) \/ \E o \in OptionSets : BindWith(b, o)
      PROVE  sigs' = sigs
  BY <1>6 DEF BindFails, Bound, Dispose, Release, RelayUp, WarmUpEnds, SaveSecretKey,
       BindWith, worldVars
<1>7. CASE GenerateEd25519Keypair \/ ReadPublicKey \/ Restart \/ UNCHANGED vars
  <2>1. sigs' = sigs
    BY <1>7 DEF GenerateEd25519Keypair, ReadPublicKey, Restart, vars, worldVars
  <2> QED BY <1>2, <2>1
<1> QED BY <1>2, <1>3, <1>4, <1>5, <1>6, <1>7 DEF Next

\* One id per identity, and a signature that holds its signer: it verifies for
\* that id alone.
LEMMA SignaturesFollow ==
  ASSUME TypeOK, StableIdentity, SigsInv
  PROVE  SignaturesVerify
<1> SUFFICES ASSUME NEW s \in sigs, NEW i \in Identities, NEW d \in Shown, NEW p \in ids[i]
             PROVE  /\ Ed25519Verify(Raw(32, p), d, s.sig) <=> i = s.who /\ d = s.data
                    /\ VerifySignature(Show(p), d, s.sig) <=> i = s.who /\ d = s.data
  BY DEF SignaturesVerify
<1>1. s.data \in Data /\ s.who \in Identities
  BY DEF SigsInv
<1>2. PICK k \in used : s.sig = Signature(k, s.data) /\ PublicKey[k] \in ids[s.who]
  BY DEF SigsInv
<1>3. p \in Ids /\ PublicKey[k] \in Ids /\ p # Malformed
  BY <1>1, <1>2, MalformedAssumption DEF TypeOK
<1>4. p = PublicKey[k] <=> i = s.who
  BY <1>1, <1>2 DEF StableIdentity
<1> DEFINE signed == [signer |-> PublicKey[k], data |-> s.data]
<1>5. s.sig.len = 64 /\ s.sig.of = signed
  BY <1>2 DEF Signature, Raw
<1>6. signed # Malformed
  BY <1>1, <1>3, NamesAssumption
<1>7. signed = [signer |-> p, data |-> d] <=> PublicKey[k] = p /\ s.data = d
  OBVIOUS
<1>8. Verify(p, d, s.sig) <=> i = s.who /\ d = s.data
  BY <1>4, <1>5, <1>6, <1>7 DEF Verify
<1>9. Ed25519Verify(Raw(32, p), d, s.sig) <=> Verify(p, d, s.sig)
  BY <1>3, <1>5 DEF Ed25519Verify, Raw
<1>10. VerifySignature(Show(p), d, s.sig) <=> Verify(p, d, s.sig)
  BY <1>3, <1>5 DEF VerifySignature, Show, Parses
<1> QED BY <1>8, <1>9, <1>10

-----------------------------------------------------------------------------

BindInv ==
  /\ TypeOK /\ ContextInv /\ EndpointInv
  /\ KeysInv /\ FreshInv /\ IdsInv /\ StableIdentity /\ SigsInv

LEMMA BindInit == Init => BindInv
<1> SUFFICES ASSUME Init PROVE BindInv
  OBVIOUS
<1>1. TypeOK
  BY TypeInit
<1>2. \A i \in Identities : ids[i] = {}
  BY DEF Init
<1>3. ContextInv /\ EndpointInv
  BY DEF Init, ContextInv, EndpointInv
<1>4. KeysInv /\ IdsInv /\ StableIdentity
  BY <1>2 DEF Init, KeysInv, IdsInv, StableIdentity
<1>5. FreshInv
  BY <1>2 DEF Init, FreshInv, Identities
<1> QED BY <1>1, <1>3, <1>4, <1>5 DEF BindInv, SigsInv, Init

LEMMA BindStep == BindInv /\ [Next]_vars => BindInv'
BY TypeStep, ContextStep, EndpointStep, KeysStep, FreshStep, IdsStep, SigsStep DEF BindInv

LEMMA BindInvariant == Spec => []BindInv
BY BindInit, BindStep, PTL DEF Spec

\* The calls, endpoints, keys and ids stay well formed: what an endpoint is bound
\* with is a key, its relays and lookups are ones that were given.
THEOREM BindTypes == Spec => []TypeOK
BY BindInvariant, PTL DEF BindInv

\* What an endpoint is bound with does not change under it: the threads that lose
\* the race for the Once wait for the one that won it, and nobody binds before.
THEOREM ContextFirst == Spec => ContextSettled
<1>1. BindInv /\ [Next]_vars =>
        [(\E b \in Binds : call[b] \in {"binding", "bound", "disposed"}) /\ restarts' = restarts
           => context' = context]_vars
  BY SettledStep DEF BindInv
<1> QED BY <1>1, BindInvariant, PTL DEF ContextSettled, Spec

\* An identity has one id over all endpoints and restarts, and shares it with none.
THEOREM IdentityIsStable == Spec => []StableIdentity
BY BindInvariant, PTL DEF BindInv

\* Every signature verifies for the id of its identity and its data, and for no
\* other, with either function.
THEOREM SignaturesAreGood == Spec => []SignaturesVerify
<1>1. BindInv => SignaturesVerify
  BY SignaturesFollow DEF BindInv
<1> QED BY <1>1, BindInvariant, PTL

\* Endpoints that have lookups find each other, for any preset that resolves what
\* it publishes.
THEOREM LookupsAlwaysMeet == Spec => []LookupsMeet
<1>1. BindInv => LookupsMeet
  BY PresetAssumption DEF BindInv, EndpointInv, LookupsMeet, LookupsOf
<1> QED BY <1>1, BindInvariant, PTL
=============================================================================
