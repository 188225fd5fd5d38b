--------------------------- MODULE EndpointConfig ---------------------------
(***************************************************************************)
(* EndpointOptions and the builder made of them (`config.rs`).  Every      *)
(* configuration starts from the preset, of which it takes away.  An       *)
(* Option is a set of at most one element.  The ALPNs are the business of  *)
(* module IrohEndpoint.                                                    *)
(***************************************************************************)
EXTENDS Ed25519

CONSTANTS
  PresetRelays,    \* the relays of presets::N0
  PresetLookups    \* its address lookup services

\* A lookup service publishes addresses, or resolves what was published via it.
ASSUME PresetAssumption ==
  /\ PresetRelays \subseteq Relays /\ PresetRelays # {}
  /\ \A l \in PresetLookups : l.role = "publish" =>
       [role |-> "resolve", via |-> l.via] \in PresetLookups

RelayModeOptions ==
  [mode : {"default", "disabled"}, urls : {{}}] \cup
  [mode : {"custom"}, urls : SUBSET Text(Relays)]

\* The record, without its ALPNs; the lists are sets, and so are the Options.
EndpointOptions ==
  [secret_key : SUBSET [len : Nat, of : Secrets \cup {Malformed}],
   relay_mode : SUBSET RelayModeOptions, address_lookup : BOOLEAN,
   bind_addr : SUBSET Text(Ips), external_addrs : SUBSET Text(Ips),
   warm_up_online : BOOLEAN]

\* relay_mode.unwrap_or_default().
RelayMode(o) ==
  IF o.relay_mode = {} THEN [mode |-> "default", urls |-> {}]
  ELSE CHOOSE m \in o.relay_mode : TRUE

\* What bind passes to bind_with.
BindOptions(secret) ==
  [secret_key |-> secret, relay_mode |-> {}, address_lookup |-> TRUE,
   bind_addr |-> {}, external_addrs |-> {}, warm_up_online |-> TRUE]

\* Mutant of Accepted: the length of the secret key is not looked at.
AcceptedAnyLength(o) ==
  \A t \in RelayMode(o).urls \cup o.bind_addr \cup o.external_addrs : Parses(t)

\* builder_from_options returns Ok.
Accepted(o) ==
  /\ \A t \in RelayMode(o).urls \cup o.bind_addr \cup o.external_addrs : Parses(t)
  /\ \A b \in o.secret_key : b.len = 32

\* builder.relay_mode(..) replaces the relays of the preset.
RelaysOf(o) ==
  CASE RelayMode(o).mode = "default"  -> PresetRelays
    [] RelayMode(o).mode = "disabled" -> {}
    [] RelayMode(o).mode = "custom"   -> {t.of : t \in RelayMode(o).urls}

\* Mutant of LookupsOf: the services are listed by hand for all relay modes but
\* the default, as they were in an earlier version.
LookupsByHand(o) ==
  {l \in PresetLookups : o.address_lookup /\
     (RelayMode(o).mode = "default" \/ l.role = "publish" \/ l.via = "dns")}

\* builder.clear_address_lookup(), unless the caller wants them.
LookupsOf(o) == IF o.address_lookup THEN PresetLookups ELSE {}

\* builder_from_options.
BuilderFromOptions(o) ==
  [relays |-> RelaysOf(o), lookups |-> LookupsOf(o),
   secret_key |-> {b.of : b \in o.secret_key},
   bind_addr |-> {t.of : t \in o.bind_addr},
   external_addrs |-> {t.of : t \in o.external_addrs}]
=============================================================================
