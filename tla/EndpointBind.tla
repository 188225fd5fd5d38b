---------------------------- MODULE EndpointBind ----------------------------
(***************************************************************************)
(* How endpoints come to be (`endpoint.rs`, `android_init.rs`): the        *)
(* Android context that has to be installed first, by threads that race    *)
(* for a Once; bind and bind_with; the warm-up task; and the identity that *)
(* an application keeps over restarts of its process by saving the secret  *)
(* key, and signs with.                                                    *)
(*                                                                         *)
(* An identity has the name of the bind call whose endpoint generated its  *)
(* key, or "keypair" if generate_ed25519_keypair did.                      *)
(***************************************************************************)
EXTENDS EndpointConfig, FiniteSets

CONSTANTS
  Threads,        \* threads that install the context, once in a process
  Binds,          \* bind and bind_with calls
  OptionSets,     \* the options in use, a stored secret key aside
  Data,           \* what is signed
  Shown,          \* what a verifier is shown along with a signature
  MaxSignatures,  \* how often something is signed
  MaxRestarts     \* how often the process is restarted

ASSUME BoundsAssumption == MaxRestarts \in Nat /\ MaxSignatures \in Nat

\* A key that is not from storage is one that does not fit.
ASSUME OptionsAssumption ==
  OptionSets \subseteq {o \in EndpointOptions : \A b \in o.secret_key : b.len # 32}

ASSUME NamesAssumption ==
  "keypair" \notin Binds /\ Malformed \notin [signer : Ids, data : Data]

Identities == Binds \cup {"keypair"}

VARIABLES
  once,      \* INIT: "new", "running" or "done"
  context,   \* "none", "installed", or "failed" if the first call did not get it
  install,   \* install[t]: "idle", "calling", "running" or "returned"
  call,      \* call[b]: where b, or the endpoint that it made, has got to
  options,   \* options[b]: the EndpointOptions of b, while it or its endpoint lasts
  endpoint,  \* endpoint[b]: {}, or {e} with its relays, lookups and secret key
  warm,      \* warm[b]: the warm-up task of b's endpoint holds a clone of it
  online,    \* online[b]: b's endpoint is connected to a relay
  who,       \* who[b]: the identity b was given, or makes
  saved,     \* the secret key in persistent storage: {}, or {[bytes, who]}
  used,      \* the secret keys that have been generated
  ids,       \* ids[i]: the endpoint ids that i has been seen with
  sigs,      \* the signatures made so far
  restarts

processVars  == <<once, context, install>>
callVars     == <<call, options, who>>
endpointVars == <<endpoint, warm, online>>
worldVars    == <<saved, used, ids, sigs>>
vars         == <<processVars, callVars, endpointVars, worldVars, restarts>>

NoOptions == BindOptions({})

TypeOK ==
  /\ once \in {"new", "running", "done"}
  /\ context \in {"none", "installed", "failed"}
  /\ install \in [Threads -> {"idle", "calling", "running", "returned"}]
  /\ call \in [Binds -> {"new", "binding", "failed", "bound", "disposed", "released"}]
  /\ options \in [Binds -> EndpointOptions]
  /\ endpoint \in [Binds -> SUBSET [relays : SUBSET Relays,
                       lookups : SUBSET PresetLookups, secret_key : Secrets]]
  /\ warm \in [Binds -> BOOLEAN] /\ online \in [Binds -> BOOLEAN]
  /\ who \in [Binds -> Identities]
  /\ saved \subseteq [bytes : [len : {32}, of : used], who : Identities]
  /\ used \subseteq Secrets
  /\ ids \in [Identities -> SUBSET Ids]
  /\ restarts \in 0..MaxRestarts

Init ==
  /\ once = "new"
  /\ context = "none"
  /\ install = [t \in Threads |-> "idle"]
  /\ call = [b \in Binds |-> "new"]
  /\ options = [b \in Binds |-> NoOptions]
  /\ endpoint = [b \in Binds |-> {}]
  /\ warm = [b \in Binds |-> FALSE]
  /\ online = [b \in Binds |-> FALSE]
  /\ who = [b \in Binds |-> b]
  /\ saved = {}
  /\ used = {}
  /\ ids = [i \in Identities |-> {}]
  /\ sigs = {}
  /\ restarts = 0

-----------------------------------------------------------------------------
(* The Android context.                                                    *)

InstallTo(t, from, to) ==
  /\ install[t] = from
  /\ install' = [install EXCEPT ![t] = to]
  /\ UNCHANGED <<callVars, endpointVars, worldVars, restarts>>

\* installAndroidContext is called.
InstallCall(t) ==
  /\ InstallTo(t, "idle", "calling")
  /\ UNCHANGED <<once, context>>

\* INIT.call_once: the first caller runs the closure.
InstallRuns(t) ==
  /\ once = "new"
  /\ once' = "running"
  /\ InstallTo(t, "calling", "running")
  /\ UNCHANGED context

\* Mutant of InstallEnds: a failure leaves without opening the gate.
InstallEndsOnSuccess(t) ==
  /\ InstallTo(t, "running", "returned")
  /\ \/ context' = "installed" /\ once' = "done"
     \/ context' = "failed" /\ UNCHANGED once

\* The closure has stored the context, or returned early without the JavaVM or
\* the global reference; the Once is spent either way.
InstallEnds(t) ==
  /\ InstallTo(t, "running", "returned")
  /\ context' \in {"installed", "failed"}
  /\ once' = "done"

\* Mutant of OncePassed: a flag that is set first, where a Once waits.
OncePassedFlag == once # "new"

\* Other callers wait for the first one.
OncePassed == once = "done"

InstallReturns(t) ==
  /\ OncePassed
  /\ InstallTo(t, "calling", "returned")
  /\ UNCHANGED <<once, context>>

-----------------------------------------------------------------------------
(* Binding.                                                                *)

\* SecretKey::generate, while there are keys left.  No key is special, so that
\* any choice stands for all.
FreshKey == {k \in Secrets \ used : k = CHOOSE j \in Secrets \ used : TRUE}

\* bind or bind_with is called, with the secret key from storage or without; on
\* Android, after installAndroidContext.
BindWith(b, o) ==
  /\ call[b] = "new" /\ \E t \in Threads : install[t] = "returned"
  /\ call' = [call EXCEPT ![b] = "binding"]
  /\ \/ /\ options' = [options EXCEPT ![b] = o]
        /\ UNCHANGED who
     \/ \E x \in saved :
          /\ options' = [options EXCEPT ![b] = [o EXCEPT !.secret_key = {x.bytes}]]
          /\ who' = [who EXCEPT ![b] = x.who]
  /\ UNCHANGED <<processVars, endpointVars, worldVars, restarts>>

\* The options are refused, the library cannot bind, or the call is cancelled.
BindFails(b) ==
  /\ call[b] = "binding"
  /\ call' = [call EXCEPT ![b] = "failed"]
  /\ options' = [options EXCEPT ![b] = NoOptions]
  /\ UNCHANGED <<processVars, who, endpointVars, worldVars, restarts>>

\* Mutant of SecretKeyOf: the key that was given is not used.
SecretKeyOfNone(config) == FreshKey

\* The key of the endpoint: the one in the options, or a fresh one.
SecretKeyOf(config) ==
  IF config.secret_key # {} THEN config.secret_key ELSE FreshKey

\* id() of endpoints with keys K.
IdsOf(K) == {PublicKey[k] : k \in K \cap Secrets}

\* Mutant of Spawns: the option is not looked at.
SpawnsAlways(o) == TRUE

Spawns(o) == o.warm_up_online

\* builder.bind() completes; the warm-up task is spawned; the caller gets the
\* endpoint and its id.
Bound(b) ==
  /\ call[b] = "binding" /\ Accepted(options[b])
  /\ LET config == BuilderFromOptions(options[b]) IN
       \E k \in SecretKeyOf(config) :
         /\ endpoint' = [endpoint EXCEPT ![b] =
              {[relays |-> config.relays, lookups |-> config.lookups, secret_key |-> k]}]
         /\ used' = used \cup {k}
         /\ ids' = [ids EXCEPT ![who[b]] = @ \cup IdsOf({k})]
  /\ warm' = [warm EXCEPT ![b] = Spawns(options[b])]
  /\ call' = [call EXCEPT ![b] = "bound"]
  /\ UNCHANGED <<processVars, options, who, online, saved, sigs, restarts>>

\* The endpoint connects to a relay that it has been given.
RelayUp(b) ==
  /\ call[b] \in {"bound", "disposed"} /\ ~online[b]
  /\ \E e \in endpoint[b] : e.relays # {}
  /\ online' = [online EXCEPT ![b] = TRUE]
  /\ UNCHANGED <<processVars, callVars, endpoint, warm, worldVars, restarts>>

\* The warm-up task: online() resolves and the task drops its clone.
WarmUpEnds(b) ==
  /\ warm[b] /\ online[b]
  /\ warm' = [warm EXCEPT ![b] = FALSE]
  /\ UNCHANGED <<processVars, callVars, endpoint, online, worldVars, restarts>>

\* The Kotlin object is closed.
Dispose(b) ==
  /\ call[b] = "bound"
  /\ call' = [call EXCEPT ![b] = "disposed"]
  /\ UNCHANGED <<processVars, options, who, endpointVars, worldVars, restarts>>

\* The last clone is gone, and the endpoint with it.
Release(b) ==
  /\ call[b] = "disposed" /\ ~warm[b]
  /\ call' = [call EXCEPT ![b] = "released"]
  /\ endpoint' = [endpoint EXCEPT ![b] = {}]
  /\ online' = [online EXCEPT ![b] = FALSE]
  /\ options' = [options EXCEPT ![b] = NoOptions]
  /\ UNCHANGED <<processVars, who, warm, worldVars, restarts>>

-----------------------------------------------------------------------------
(* Identities.                                                             *)

\* The application saves secret_key_bytes().
SaveSecretKey(b) ==
  /\ call[b] = "bound"
  /\ saved' = {[bytes |-> Raw(32, e.secret_key), who |-> who[b]] : e \in endpoint[b]}
  /\ UNCHANGED <<processVars, callVars, endpointVars, used, ids, sigs, restarts>>

\* generate_ed25519_keypair: the application saves the secret half.
GenerateEd25519Keypair ==
  /\ ids["keypair"] = {}
  /\ \E k \in FreshKey :
       /\ used' = used \cup {k}
       /\ ids' = [ids EXCEPT !["keypair"] = {PublicKey[k]}]
       /\ saved' = {[bytes |-> Raw(32, k), who |-> "keypair"]}
  /\ UNCHANGED <<processVars, callVars, endpointVars, sigs, restarts>>

\* ed25519_public_from_secret on the saved key.
ReadPublicKey ==
  /\ \E x \in saved :
       ids' = [ids EXCEPT ![x.who] =
         @ \cup {p.of : p \in Ed25519PublicFromSecret(x.bytes)}]
  /\ UNCHANGED <<processVars, callVars, endpointVars, saved, used, sigs, restarts>>

Signs(S) ==
  /\ Cardinality(sigs) < MaxSignatures
  /\ sigs' = sigs \cup S
  /\ UNCHANGED <<processVars, callVars, endpointVars, saved, used, ids, restarts>>

\* IrohEndpoint.sign.
Sign(b, d) ==
  /\ call[b] = "bound"
  /\ Signs({[sig |-> Signature(e.secret_key, d), data |-> d, who |-> who[b]] :
              e \in endpoint[b]})

\* ed25519_sign with the saved key, without an endpoint.
SignWithSaved(d) ==
  /\ saved # {}
  /\ Signs(UNION {{[sig |-> s, data |-> d, who |-> x.who] : s \in Ed25519Sign(x.bytes, d)} :
                    x \in saved})

\* The process ends and is started again; what was saved or sent remains.
Restart ==
  /\ restarts < MaxRestarts
  /\ restarts' = restarts + 1
  /\ once' = "new" /\ context' = "none" /\ install' = [t \in Threads |-> "idle"]
  /\ call' = [b \in Binds |-> CASE call[b] \in {"bound", "disposed"} -> "released"
                                [] call[b] = "binding" -> "failed"
                                [] OTHER -> call[b]]
  /\ endpoint' = [b \in Binds |-> {}]
  /\ warm' = [b \in Binds |-> FALSE]
  /\ online' = [b \in Binds |-> FALSE]
  /\ options' = [b \in Binds |-> NoOptions]
  /\ UNCHANGED <<who, worldVars>>

Next ==
  \/ \E t \in Threads :
       InstallCall(t) \/ InstallRuns(t) \/ InstallEnds(t) \/ InstallReturns(t)
  \/ \E b \in Binds : \E o \in OptionSets : BindWith(b, o)
  \/ \E b \in Binds :
       BindFails(b) \/ Bound(b) \/ RelayUp(b) \/ WarmUpEnds(b) \/ Dispose(b) \/ Release(b)
  \/ \E b \in Binds : SaveSecretKey(b) \/ \E d \in Data : Sign(b, d)
  \/ GenerateEd25519Keypair \/ ReadPublicKey
  \/ \E d \in Data : SignWithSaved(d)
  \/ Restart

Spec == Init /\ [][Next]_vars

\* Threads run, tasks that can go on are polled, and what nobody holds is
\* dropped.  No relay has to be reachable.
Fairness ==
  /\ \A t \in Threads : WF_vars(InstallRuns(t) \/ InstallEnds(t) \/ InstallReturns(t))
  /\ \A b \in Binds : WF_vars(WarmUpEnds(b) \/ Release(b))

FairSpec == Spec /\ Fairness

-----------------------------------------------------------------------------

\* No thread goes on to bind while another is still installing the context: from
\* the first bind on, and as long as an endpoint lasts, the context does not change
\* under the library that reads it.
ContextSettled ==
  [][(\E b \in Binds : call[b] \in {"binding", "bound", "disposed"}) /\ restarts' = restarts
       => context' = context]_vars

\* The context is there before any endpoint is bound, by callers that have all
\* called installAndroidContext first, as android_init.rs and bind ask them to.
\* It need not be: a first call that could not get it has spent the Once, returns
\* like one that did, and makes every later call a no-op.
ContextBeforeBind ==
  \A b \in Binds : call[b] \in {"binding", "bound"} => context = "installed"

\* An application that saves its secret key has one endpoint id, over all
\* endpoints and processes, and no other identity has the same.
StableIdentity ==
  \A i, j \in Identities : \A p \in ids[i], q \in ids[j] : i = j <=> p = q

\* A signature, made by an endpoint or with the saved key, verifies for the id of
\* its identity, over what was signed and nothing else; the two functions that
\* verify agree.
SignaturesVerify ==
  \A s \in sigs, i \in Identities, d \in Shown : \A p \in ids[i] :
    /\ Ed25519Verify(Raw(32, p), d, s.sig) <=> i = s.who /\ d = s.data
    /\ VerifySignature(Show(p), d, s.sig) <=> i = s.who /\ d = s.data

\* Two endpoints with address_lookup find each other whatever relays each was
\* given: what one publishes the other resolves.
LookupsMeet ==
  \A a, b \in Binds : options[a].address_lookup /\ options[b].address_lookup =>
    \A x \in endpoint[a], y \in endpoint[b] : \A l \in x.lookups :
      l.role = "publish" => [role |-> "resolve", via |-> l.via] \in y.lookups

\* Every installAndroidContext returns, also when the first one fails: a time
\* comes when none waits for the Once.
InstallsReturn ==
  (\E t \in Threads : install[t] = "calling") ~> (\A t \in Threads : install[t] # "calling")

\* The endpoint of b is in nobody's hands, and its warm-up does not wait for a relay.
Abandoned(b) == call[b] = "disposed" /\ ~(options[b].warm_up_online /\ ~online[b])

\* An endpoint that is disposed of goes away, unless its warm-up was asked for
\* and waits for a relay, which it does for ever if there is none.
DisposedIsReleased ==
  (\E b \in Binds : Abandoned(b)) ~> (\A b \in Binds : ~Abandoned(b))
=============================================================================
