---------------------------- MODULE Certificate ----------------------------
(***************************************************************************)
(* The certificates by which the two ends of a connection prove who they   *)
(* are, and the decisions about them (tls/certificate.rs, verifier.rs).    *)
(*                                                                         *)
(* Cryptography is ideal: a signature is the key that made it and what it  *)
(* is over.  A certificate is a record of what the code looks at:          *)
(*   der      whether it parses as X.509                                   *)
(*   valid    whether now is between NotBefore and NotAfter                *)
(*   keyType  the algorithm, and for EC keys the curve, that it declares   *)
(*            for the subject's public key                                 *)
(*   kind     what key the bytes of the public key are                     *)
(*   alg      the signature algorithm it names                             *)
(*   subject  the bytes of the subject's public key                        *)
(*   signer   the key that signed the certificate                          *)
(*   exts     the extensions: object identifier, critical flag, and for    *)
(*            the p2p extension the form of its value, the host key, the   *)
(*            key that signed and what was signed, a declared key type     *)
(*            with the bytes of a public key                               *)
(***************************************************************************)
EXTENDS Naturals, Sequences, SequencesExt

IsSeq(q) == q \in Seq({q[k] : k \in DOMAIN q})
IsChain(chain) ==
    /\ IsSeq(chain)
    /\ \A i \in DOMAIN chain :
         /\ chain[i].der \in BOOLEAN /\ chain[i].valid \in BOOLEAN /\ IsSeq(chain[i].exts)
         /\ \A e \in DOMAIN chain[i].exts :
              /\ chain[i].exts[e].critical \in BOOLEAN
              /\ chain[i].exts[e].form \in {"ok", "badvalue", "badkey"}

Extension(critical, form, host, by, over) ==
    [oid |-> "p2p", critical |-> critical, form |-> form, host |-> host, by |-> by, over |-> over]

\* make_libp2p_extension and generate.
Generate(identity, certKey) ==
    [der |-> TRUE, valid |-> TRUE, keyType |-> "P256", kind |-> "P256", alg |-> "ECDSA_SHA256",
     subject |-> certKey, signer |-> certKey,
     exts |-> <<Extension(TRUE, "ok", identity, identity, <<"P256", certKey>>)>>]

\* parse_unverified: the first extension that is out of order decides.
ParseUnverified(cert) ==
    LET exts == cert.exts
        p2p == {k \in DOMAIN exts : exts[k].oid = "p2p"}
        err(k) ==
          CASE k \in p2p /\ (\E j \in p2p : j < k) -> "BadDer"
            [] k \in p2p /\ exts[k].form = "badvalue" -> "ExtensionValueInvalid"
            [] k \in p2p /\ exts[k].form = "badkey" -> "UnknownIssuer"
            [] k \notin p2p /\ exts[k].critical -> "UnsupportedCriticalExtension"
            [] OTHER -> ""
        refused == {k \in DOMAIN exts : err(k) # ""}
    IN CASE ~cert.der -> [err |-> "BadDer"]
         [] cert.der /\ refused # {} -> [err |-> err(Min(refused))]
         [] cert.der /\ refused = {} /\ p2p = {} -> [err |-> "BadDer"]
         [] OTHER -> [err |-> "", ext |-> exts[Min(p2p)]]

\* signature_scheme: the curve and the hash must belong together; of keys
\* that are declared to be anything else only the signature algorithm is
\* looked at.
ECKeys == {"P256", "P384", "P521", "EC_OTHER", "EC_UNNAMED"}
SignatureScheme(cert) ==
    CASE cert.keyType = "EC_UNNAMED" -> "BadDer"
      [] cert.keyType = "P256" /\ cert.alg = "ECDSA_SHA256" -> "ECDSA_NISTP256_SHA256"
      [] cert.keyType = "P384" /\ cert.alg = "ECDSA_SHA384" -> "ECDSA_NISTP384_SHA384"
      [] cert.keyType = "P521" /\ cert.alg = "ECDSA_SHA512" -> "ECDSA_NISTP521_SHA512"
      [] cert.keyType \notin ECKeys /\ cert.alg = "ED25519" -> "ED25519"
      [] cert.keyType \notin ECKeys /\ cert.alg = "ED448" -> "ED448"
      [] OTHER -> "UnsupportedSignatureAlgorithm"

\* public_key and verify_signature: three schemes are supported.  ring takes
\* the bytes of the key for one of the scheme's kind, whatever is declared.
KindOf == [ECDSA_NISTP256_SHA256 |-> "P256", ECDSA_NISTP384_SHA384 |-> "P384",
           ED25519 |-> "ED25519"]
VerifySignature(cert, scheme, by) ==
    /\ scheme = SignatureScheme(cert)
    /\ scheme \in DOMAIN KindOf
    /\ cert.kind = KindOf[scheme]
    /\ by = cert.subject

\* The subject's public key as the host signs it: with what is declared.
Spki(cert) == <<cert.keyType, cert.subject>>

\* Mutant of Verify: the host's signature may be over any public key.
VerifyHostOnly(cert, ext) ==
    CASE ~cert.valid -> "InvalidCertValidity"
      [] SignatureScheme(cert) \in {"BadDer", "UnsupportedSignatureAlgorithm"} -> SignatureScheme(cert)
      [] ~VerifySignature(cert, SignatureScheme(cert), cert.signer) -> "SignatureAlgorithmMismatch"
      [] ext.by # ext.host -> "UnknownIssuer"
      [] OTHER -> ""

\* P2pCertificate::verify
Verify(cert, ext) ==
    CASE ~cert.valid -> "InvalidCertValidity"
      [] SignatureScheme(cert) \in {"BadDer", "UnsupportedSignatureAlgorithm"} -> SignatureScheme(cert)
      [] ~VerifySignature(cert, SignatureScheme(cert), cert.signer) -> "SignatureAlgorithmMismatch"
      [] ext.by # ext.host \/ ext.over # Spki(cert) -> "UnknownIssuer"
      [] OTHER -> ""

\* parse; the error is what rustls reports, the result the peer id.
Parse(cert) ==
    LET parsed == ParseUnverified(cert)
        err == IF parsed.err # "" THEN parsed.err ELSE Verify(cert, parsed.ext)
    IN CASE err = "" -> [err |-> "", peer |-> parsed.ext.host]
         [] err = "BadDer" -> [err |-> "InvalidCertificateEncoding"]
         [] OTHER -> [err |-> "InvalidCertificateData"]

\* verify_presented_certs
VerifyPresentedCerts(chain) ==
    IF Len(chain) # 1 THEN [err |-> "General"] ELSE Parse(chain[1])

\* Mutant of VerifyServerCert: any peer will do.
VerifyServerCertAnyone(chain, remote_peer_id) == VerifyPresentedCerts(chain).err

\* verify_server_cert, with the peer id the getter was given, if it was
\* given one: an Option, here a sequence of at most one.
VerifyServerCert(chain, remote_peer_id) ==
    LET presented == VerifyPresentedCerts(chain) IN
    IF presented.err = "" /\ \E i \in DOMAIN remote_peer_id : presented.peer # remote_peer_id[i]
    THEN "PeerMisbehaved" ELSE presented.err

\* verify_client_cert
VerifyClientCert(chain) == VerifyPresentedCerts(chain).err

\* verify_tls13_signature over the transcript of the handshake.
VerifyTls13Signature(cert, dss) ==
    Parse(cert).err = "" /\ VerifySignature(cert, dss.scheme, dss.by)

(***************************************************************************)
(* What the libp2p specification asks for, as the comments in the code     *)
(* quote it: the reference the decisions are compared with.  A key that is *)
(* not declared as one of an elliptic curve may be declared as anything,   *)
(* which the quoted rules leave open.                                      *)
(***************************************************************************)
KeyProves(c, scheme) ==
    \/ <<c.keyType, c.kind, c.alg, scheme>> \in
         {<<"P256", "P256", "ECDSA_SHA256", "ECDSA_NISTP256_SHA256">>,
          <<"P384", "P384", "ECDSA_SHA384", "ECDSA_NISTP384_SHA384">>}
    \/ c.keyType \notin ECKeys /\ <<c.kind, c.alg, scheme>> = <<"ED25519", "ED25519", "ED25519">>
Proves(chain, dss, host) ==
    /\ Len(chain) = 1
    /\ LET c == chain[1]
           p2p == {i \in 1..Len(c.exts) : c.exts[i].oid = "p2p"}
       IN /\ c.der /\ c.valid
          /\ KeyProves(c, dss.scheme)
          /\ c.signer = c.subject /\ dss.by = c.subject
          /\ \E i \in p2p : /\ p2p = {i}
                            /\ c.exts[i].form = "ok"
                            /\ c.exts[i].host = host /\ c.exts[i].by = host
                            /\ c.exts[i].over = Spki(c)
          /\ \A i \in 1..Len(c.exts) : c.exts[i].critical => i \in p2p
=============================================================================
