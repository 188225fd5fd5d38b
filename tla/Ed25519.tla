------------------------------ MODULE Ed25519 ------------------------------
(***************************************************************************)
(* Keys and signatures as they cross the FFI (`crypto.rs`, and             *)
(* verify_signature of `endpoint.rs`): byte arrays of any length, and ids  *)
(* as text.  The cryptography itself is symbolic: a signature holds its    *)
(* signer and what was signed.  A Result or Option is a set of at most one *)
(* element.                                                                *)
(***************************************************************************)
EXTENDS EndpointAddr, Naturals

CONSTANTS
  Secrets,     \* secret keys
  PublicKey    \* PublicKey[k]: the public key, or endpoint id, of k

ASSUME PublicKeyAssumption ==
  /\ PublicKey \in [Secrets -> Ids]
  /\ \A k, j \in Secrets : PublicKey[k] = PublicKey[j] => k = j

\* n bytes that stand for v, or for nothing if v is Malformed.
Raw(n, v) == [len |-> n, of |-> v]

\* SecretKey::sign and PublicKey::verify.
Signature(k, d) == Raw(64, [signer |-> PublicKey[k], data |-> d])
Verify(p, d, sig) == sig.of # Malformed /\ sig.of = [signer |-> p, data |-> d]

\* SecretKey::try_from.
SecretKeyFrom(b) == IF b.len = 32 THEN {b.of} ELSE {}

\* ed25519_sign: the signature, unless the secret has not 32 bytes.
Ed25519Sign(secret, d) == {Signature(k, d) : k \in SecretKeyFrom(secret)}

\* ed25519_public_from_secret.
Ed25519PublicFromSecret(secret) == {Raw(32, PublicKey[k]) : k \in SecretKeyFrom(secret)}

\* Mutant of Ed25519Verify: what was signed is not looked at.
Ed25519VerifySigner(public, d, sig) ==
  /\ public.len = 32 /\ public.of # Malformed
  /\ sig.len = 64 /\ sig.of # Malformed
  /\ sig.of.signer = public.of

\* ed25519_verify: what is not a key or not a signature is FALSE.
Ed25519Verify(public, d, sig) ==
  /\ public.len = 32 /\ public.of # Malformed
  /\ sig.len = 64
  /\ Verify(public.of, d, sig)

\* Mutant of VerifySignature: the id has to parse, and be no more.
VerifySignatureAnyId(endpoint_id_hex, d, sig) ==
  Parses(endpoint_id_hex) /\ sig.len = 64 /\ Verify(sig.of.signer, d, sig)

\* verify_signature: the same for an id in hex.
VerifySignature(endpoint_id_hex, d, sig) ==
  /\ Parses(endpoint_id_hex)
  /\ sig.len = 64
  /\ Verify(endpoint_id_hex.of, d, sig)
=============================================================================
