--------------------------- MODULE SessionProofs ---------------------------
(***************************************************************************)
(* The way from a ticket to an accepted request, for every provider, key,  *)
(* token, hash, address and size, every length of keys and of the prefix   *)
(* of a message, and everything that may have happened to the text.        *)
(*                                                                         *)
(* In order: certificates and their verdicts; numbers by their digits and  *)
(* bits; varints; regrouping bits into symbols and back; the texts of      *)
(* keys, CIDs and tickets, and what damage does to them; messages and      *)
(* their frames; and the way of a session through all of these.            *)
(***************************************************************************)
EXTENDS Session, SequenceTheorems, NaturalsInduction, WellFoundedInduction, TLAPS

\* A set of numbers that is not empty has a least element.
LEMMA LeastNat ==
    ASSUME NEW T, T \subseteq Nat, T # {}
    PROVE  \E x \in T : \A y \in T : x <= y
<1> DEFINE R == OpToRel(<, Nat)
<1>1. IsWellFoundedOn(R, Nat)
  BY NatLessThanWellFounded, Zenon
<1>2. \A a, b \in Nat : <<a, b>> \in R <=> a < b
  BY DEF OpToRel
<1> HIDE DEF R
<1>3. PICK x \in T : \A y \in T : ~(<<y, x>> \in R)
  BY <1>1, WFMin
<1>4. \A y \in T : y \in Nat /\ x \in Nat
  OBVIOUS
<1>5. \A y \in T : ~(y < x)
  BY <1>2, <1>3, <1>4
<1> QED BY <1>3, <1>4, <1>5

\* Min of a set of numbers is its least element.
LEMMA MinIs ==
    ASSUME NEW T, T \subseteq Nat, T # {}
    PROVE  Min(T) \in T /\ \A y \in T : Min(T) <= y
<1>1. \E x \in T : \A y \in T : x <= y
  BY LeastNat
<1> QED BY <1>1 DEF Min

\* A signature is accepted in three schemes, each with its own kind of key,
\* if the subject of the certificate made it.
LEMMA SchemeIs ==
    ASSUME NEW c, NEW scheme, NEW by
    PROVE  VerifySignature(c, scheme, by) <=> KeyProves(c, scheme) /\ by = c.subject
<1>1. DOMAIN KindOf = {"ECDSA_NISTP256_SHA256", "ECDSA_NISTP384_SHA384", "ED25519"}
      /\ KindOf["ECDSA_NISTP256_SHA256"] = "P256"
      /\ KindOf["ECDSA_NISTP384_SHA384"] = "P384"
      /\ KindOf["ED25519"] = "ED25519"
  BY DEF KindOf
<1>2. VerifySignature(c, scheme, by) => KeyProves(c, scheme) /\ by = c.subject
  BY <1>1 DEF VerifySignature, SignatureScheme, KeyProves, ECKeys
<1>3. KeyProves(c, scheme) /\ by = c.subject => VerifySignature(c, scheme, by)
  BY <1>1 DEF VerifySignature, SignatureScheme, KeyProves, ECKeys
<1> QED BY <1>2, <1>3

\* The p2p extensions of a certificate.
P2pOf(c) == {k \in 1..Len(c.exts) : c.exts[k].oid = "p2p"}
\* What the loop of parse_unverified accepts.
InOrder(c) ==
    /\ c.der
    /\ \E i \in P2pOf(c) : P2pOf(c) = {i} /\ c.exts[i].form = "ok"
    /\ \A i \in 1..Len(c.exts) : c.exts[i].critical => i \in P2pOf(c)
\* What every certificate of a chain is.
WellFormed(c) ==
    /\ c.der \in BOOLEAN /\ c.valid \in BOOLEAN /\ IsSeq(c.exts)
    /\ \A e \in DOMAIN c.exts : /\ c.exts[e].critical \in BOOLEAN
                                /\ c.exts[e].form \in {"ok", "badvalue", "badkey"}

\* parse_unverified accepts exactly the certificates that are in order, and
\* takes the one p2p extension.
LEMMA ParseUnverifiedIs ==
    ASSUME NEW c, WellFormed(c)
    PROVE  /\ ParseUnverified(c).err = "" <=> InOrder(c)
           /\ InOrder(c) => \A i \in P2pOf(c) : ParseUnverified(c).ext = c.exts[i]
<1> DEFINE exts == c.exts
           p2p == {k \in DOMAIN exts : exts[k].oid = "p2p"}
           err(k) ==
             CASE k \in p2p /\ (\E j \in p2p : j < k) -> "BadDer"
               [] k \in p2p /\ exts[k].form = "badvalue" -> "ExtensionValueInvalid"
               [] k \in p2p /\ exts[k].form = "badkey" -> "UnknownIssuer"
               [] k \notin p2p /\ exts[k].critical -> "UnsupportedCriticalExtension"
               [] OTHER -> ""
           refused == {k \in DOMAIN exts : err(k) # ""}
           pu == ParseUnverified(c)
<1>1. exts \in Seq({exts[k] : k \in DOMAIN exts})
  BY DEF WellFormed, IsSeq
<1> HIDE DEF exts
<1>2. DOMAIN exts = 1..Len(exts) /\ Len(exts) \in Nat
  BY <1>1
<1>3. p2p = P2pOf(c) /\ p2p \subseteq Nat /\ refused \subseteq Nat
  BY <1>2 DEF P2pOf, exts
<1>4. \A k \in DOMAIN exts :
         err(k) = "" <=> IF k \in p2p THEN (\A j \in p2p : ~(j < k)) /\ exts[k].form = "ok"
                         ELSE ~exts[k].critical
  <2>1. \A k \in DOMAIN exts : exts[k].form \in {"ok", "badvalue", "badkey"} /\ exts[k].critical \in BOOLEAN
    BY DEF WellFormed, exts
  <2> HIDE DEF p2p
  <2> QED BY <2>1
<1>3a. p2p \subseteq Nat
  BY <1>3
<1> HIDE DEF err, p2p
<1>5. refused = {} <=> \A k \in DOMAIN exts : IF k \in p2p THEN (\A j \in p2p : ~(j < k)) /\ exts[k].form = "ok"
                         ELSE ~exts[k].critical
  BY <1>4
<1>6. refused = {} /\ p2p # {} <=>
        /\ \E i \in p2p : p2p = {i} /\ exts[i].form = "ok"
        /\ \A i \in DOMAIN exts : exts[i].critical => i \in p2p
  <2>0. p2p \subseteq DOMAIN exts
    BY DEF p2p
  <2>1. ASSUME refused = {}, p2p # {}
        PROVE  /\ \E i \in p2p : p2p = {i} /\ exts[i].form = "ok"
               /\ \A i \in DOMAIN exts : exts[i].critical => i \in p2p
    <3>1. PICK i \in p2p : TRUE
      BY <2>1
    <3>2. \A j \in p2p : j = i
      <4> SUFFICES ASSUME NEW j \in p2p PROVE j = i
        OBVIOUS
      <4>1. i \in Nat /\ j \in Nat /\ ~(j < i) /\ ~(i < j)
        BY <1>3, <1>5, <2>0, <2>1, <3>1
      <4> QED BY <4>1
    <3> QED BY <1>5, <2>0, <2>1, <3>1, <3>2
  <2>2. ASSUME NEW i \in p2p, p2p = {i}, exts[i].form = "ok",
               \A k \in DOMAIN exts : exts[k].critical => k \in p2p
        PROVE  refused = {} /\ p2p # {}
    <3>1. i \in Nat
      BY <1>3a
    <3>2. ~(i < i)
      BY <3>1
    <3> QED BY <1>5, <2>2, <3>2
  <2> QED BY <2>1, <2>2
<1>7. c.der \in BOOLEAN
  BY DEF WellFormed
<1>8. refused # {} => err(Min(refused)) # ""
  <2> SUFFICES ASSUME refused # {} PROVE err(Min(refused)) # ""
    OBVIOUS
  <2>1. Min(refused) \in refused
    BY <1>3, MinIs
  <2> QED BY <2>1
<1>9. pu =
         CASE ~c.der -> [err |-> "BadDer"]
         [] c.der /\ refused # {} -> [err |-> err(Min(refused))]
         [] c.der /\ refused = {} /\ p2p = {} -> [err |-> "BadDer"]
         [] OTHER -> [err |-> "", ext |-> exts[Min(p2p)]]
  BY DEF pu, ParseUnverified, err, p2p, exts
<1>10. InOrder(c) <=> c.der /\ refused = {} /\ p2p # {}
  BY <1>2, <1>3, <1>6 DEF InOrder, exts
<1> HIDE DEF refused, pu
<1>11. pu.err = "" <=> InOrder(c)
  <2>1. CASE ~c.der
    <3>1. pu = [err |-> "BadDer"]
      BY <1>9, <2>1
    <3> QED BY <1>10, <2>1, <3>1
  <2>2. CASE c.der /\ refused # {}
    <3>1. pu = [err |-> err(Min(refused))]
      BY <1>9, <2>2
    <3> QED BY <1>8, <1>10, <2>2, <3>1
  <2>3. CASE c.der /\ refused = {} /\ p2p = {}
    <3>1. pu = [err |-> "BadDer"]
      BY <1>9, <2>3
    <3> QED BY <1>10, <2>3, <3>1
  <2>4. CASE c.der /\ refused = {} /\ p2p # {}
    <3>1. pu = [err |-> "", ext |-> exts[Min(p2p)]]
      BY <1>9, <2>4
    <3>2. pu.err = ""
      BY <3>1
    <3> QED BY <1>10, <2>4, <3>2
  <2> QED BY <1>7, <2>1, <2>2, <2>3, <2>4
<1>12. ASSUME InOrder(c), NEW i \in P2pOf(c) PROVE pu.ext = c.exts[i]
  <2>1. p2p = {i}
    BY <1>3, <1>12 DEF InOrder
  <2>2. Min(p2p) = i
    BY <1>3, <2>1, MinIs
  <2>3. pu = [err |-> "", ext |-> exts[i]]
    BY <1>7, <1>9, <1>10, <1>12, <2>2
  <2>4. pu.ext = exts[i]
    BY <2>3
  <2> QED BY <2>4 DEF exts
<1> QED BY <1>11, <1>12 DEF pu

\* parse accepts a certificate in order, in its time, signed by its subject,
\* whose host signed the subject's key; the peer is that host.
LEMMA ParseIs ==
    ASSUME NEW c, WellFormed(c)
    PROVE  /\ Parse(c).err = "" <=>
                /\ InOrder(c) /\ c.valid /\ VerifySignature(c, SignatureScheme(c), c.signer)
                /\ \A i \in P2pOf(c) : c.exts[i].by = c.exts[i].host /\ c.exts[i].over = Spki(c)
           /\ Parse(c).err = "" => \A i \in P2pOf(c) : Parse(c).peer = c.exts[i].host
<1> DEFINE unverified == ParseUnverified(c)
           res == Parse(c)
           err == IF unverified.err # "" THEN unverified.err ELSE Verify(c, unverified.ext)
<1>1. res = CASE err = "" -> [err |-> "", peer |-> unverified.ext.host]
                   [] err = "BadDer" -> [err |-> "InvalidCertificateEncoding"]
                   [] OTHER -> [err |-> "InvalidCertificateData"]
  BY DEF res, Parse
<1> HIDE DEF err, res
<1>2. (res.err = "" <=> err = "") /\ (err = "" => res.peer = unverified.ext.host)
  <2>1. CASE err = ""
    <3>1. res = [err |-> "", peer |-> unverified.ext.host]
      BY <1>1, <2>1
    <3> QED BY <2>1, <3>1
  <2>2. CASE err = "BadDer"
    <3>1. res = [err |-> "InvalidCertificateEncoding"]
      BY <1>1, <2>2
    <3> QED BY <2>2, <3>1
  <2>3. CASE err \notin {"", "BadDer"}
    <3>1. res = [err |-> "InvalidCertificateData"]
      BY <1>1, <2>3
    <3> QED BY <2>3, <3>1
  <2> QED BY <2>1, <2>2, <2>3
<1>3. c.valid \in BOOLEAN
  BY DEF WellFormed
<1>4. \A ext : Verify(c, ext) = "" <=> /\ c.valid /\ VerifySignature(c, SignatureScheme(c), c.signer)
                                       /\ ext.by = ext.host /\ ext.over = Spki(c)
  <2>1. VerifySignature(c, SignatureScheme(c), c.signer)
          => SignatureScheme(c) \notin {"BadDer", "UnsupportedSignatureAlgorithm"}
    BY DEF VerifySignature, KindOf
  <2>2. SignatureScheme(c) \in {"BadDer", "UnsupportedSignatureAlgorithm"} => SignatureScheme(c) # ""
    OBVIOUS
  <2> QED BY <1>3, <2>1, <2>2 DEF Verify
<1>5. err = "" <=> InOrder(c) /\ Verify(c, unverified.ext) = ""
  BY ParseUnverifiedIs DEF err
<1>6. InOrder(c) => \E i \in P2pOf(c) : P2pOf(c) = {i} /\ unverified.ext = c.exts[i]
  BY ParseUnverifiedIs DEF InOrder
<1> HIDE DEF unverified
<1> QED BY <1>2, <1>4, <1>5, <1>6 DEF res

\* The verdicts of both sides on a chain are those of the specification.
LEMMA VerifiedIs ==
    ASSUME NEW chain, NEW dss, IsChain(chain)
    PROVE  /\ \A peer : ServerVerified(chain, dss, peer) <=> Proves(chain, dss, peer)
           /\ ClientVerified(chain, dss) <=>
                \E i \in DOMAIN chain : \E e \in DOMAIN chain[i].exts :
                    Proves(chain, dss, chain[i].exts[e].host)
<1>1. chain \in Seq({chain[k] : k \in DOMAIN chain})
  BY DEF IsChain, IsSeq
<1>2. Len(chain) \in Nat /\ DOMAIN chain = 1..Len(chain)
  BY <1>1
<1>3. CASE Len(chain) # 1
  <2>1. VerifyPresentedCerts(chain) = [err |-> "General"]
    BY <1>3 DEF VerifyPresentedCerts
  <2> QED BY <1>3, <2>1 DEF ServerVerified, ClientVerified, VerifyServerCert, VerifyClientCert, Proves
<1>4. CASE Len(chain) = 1
  <2> DEFINE c == chain[1]
             good == Parse(c).err = "" /\ VerifySignature(c, dss.scheme, dss.by)
  <2>1. WellFormed(c) /\ DOMAIN chain = {1}
    BY <1>2, <1>4 DEF IsChain, WellFormed
  <2>2. VerifyPresentedCerts(chain) = Parse(c)
    BY <1>4 DEF VerifyPresentedCerts
  <2>3. ClientVerified(chain, dss) <=> good
    BY <2>2 DEF ClientVerified, VerifyClientCert, VerifyTls13Signature
  <2>4. \A peer : ServerVerified(chain, dss, peer) <=> good /\ Parse(c).peer = peer
    <3> TAKE peer
    <3>1. DOMAIN <<peer>> = {1} /\ <<peer>>[1] = peer
      OBVIOUS
    <3>2. VerifyServerCert(chain, <<peer>>) = "" <=> Parse(c).err = "" /\ Parse(c).peer = peer
      BY <2>2, <3>1 DEF VerifyServerCert
    <3> QED BY <3>2 DEF ServerVerified, VerifyTls13Signature
  <2>5. \A host : Proves(chain, dss, host) <=> good /\ Parse(c).peer = host
    <3> TAKE host
    <3>1. VerifySignature(c, dss.scheme, dss.by) <=> KeyProves(c, dss.scheme) /\ dss.by = c.subject
      BY SchemeIs
    <3>2. VerifySignature(c, SignatureScheme(c), c.signer)
            <=> KeyProves(c, SignatureScheme(c)) /\ c.signer = c.subject
      BY SchemeIs
    <3>3. KeyProves(c, dss.scheme) => KeyProves(c, SignatureScheme(c))
      BY DEF SignatureScheme, KeyProves, ECKeys
    <3>4. Proves(chain, dss, host) <=>
            /\ c.der /\ c.valid /\ KeyProves(c, dss.scheme)
            /\ c.signer = c.subject /\ dss.by = c.subject
            /\ \E i \in P2pOf(c) : /\ P2pOf(c) = {i}
                                   /\ c.exts[i].form = "ok"
                                   /\ c.exts[i].host = host /\ c.exts[i].by = host
                                   /\ c.exts[i].over = Spki(c)
            /\ \A i \in 1..Len(c.exts) : c.exts[i].critical => i \in P2pOf(c)
      BY <1>4 DEF Proves, P2pOf
    <3>5. /\ Parse(c).err = "" <=>
               /\ InOrder(c) /\ c.valid /\ VerifySignature(c, SignatureScheme(c), c.signer)
               /\ \A i \in P2pOf(c) : c.exts[i].by = c.exts[i].host /\ c.exts[i].over = Spki(c)
          /\ Parse(c).err = "" => \A i \in P2pOf(c) : Parse(c).peer = c.exts[i].host
      BY <2>1, ParseIs
    <3> HIDE DEF c
    <3>6. ASSUME Proves(chain, dss, host) PROVE good /\ Parse(c).peer = host
      <4>1. PICK i \in P2pOf(c) : /\ P2pOf(c) = {i}
                                  /\ c.exts[i].form = "ok"
                                  /\ c.exts[i].host = host /\ c.exts[i].by = host
                                  /\ c.exts[i].over = Spki(c)
        BY <3>4, <3>6
      <4>2. InOrder(c) /\ c.valid
        BY <3>4, <3>6, <4>1 DEF InOrder
      <4>3. VerifySignature(c, SignatureScheme(c), c.signer) /\ VerifySignature(c, dss.scheme, dss.by)
        BY <3>1, <3>2, <3>3, <3>4, <3>6
      <4> QED BY <3>5, <4>1, <4>2, <4>3
    <3>7. ASSUME good, Parse(c).peer = host PROVE Proves(chain, dss, host)
      <4>1. PICK i \in P2pOf(c) : P2pOf(c) = {i} /\ c.exts[i].form = "ok"
        BY <3>5, <3>7 DEF InOrder
      <4>2. c.exts[i].host = host /\ c.exts[i].by = host /\ c.exts[i].over = Spki(c)
        BY <3>5, <3>7, <4>1
      <4>3. c.der /\ c.valid /\ \A k \in 1..Len(c.exts) : c.exts[k].critical => k \in P2pOf(c)
        BY <3>5, <3>7 DEF InOrder
      <4>4. KeyProves(c, dss.scheme) /\ c.signer = c.subject /\ dss.by = c.subject
        BY <3>1, <3>2, <3>5, <3>7
      <4> QED BY <3>4, <4>1, <4>2, <4>3, <4>4
    <3> QED BY <3>6, <3>7
  <2>6. good => \E e \in DOMAIN c.exts : Parse(c).peer = c.exts[e].host
    <3>1. good => \E i \in P2pOf(c) : Parse(c).peer = c.exts[i].host
      BY <2>1, ParseIs DEF InOrder
    <3>2. c.exts \in Seq({c.exts[k] : k \in DOMAIN c.exts})
      BY <2>1 DEF WellFormed, IsSeq
    <3>3. P2pOf(c) \subseteq DOMAIN c.exts
      BY <3>2 DEF P2pOf
    <3> QED BY <3>1, <3>3
  <2> HIDE DEF good
  <2> QED BY <2>1, <2>3, <2>4, <2>5, <2>6
<1> QED BY <1>3, <1>4

(***************************************************************************)
(* Numbers and their digits.                                               *)
(***************************************************************************)

\* A set that holds 0 and the successors of its members holds all numbers.
LEMMA SetInduction ==
    ASSUME NEW T, 0 \in T, \A n \in Nat : n \in T => n + 1 \in T
    PROVE  Nat \subseteq T
<1> DEFINE B == Nat \ T
<1> SUFFICES ASSUME B # {} PROVE FALSE
  OBVIOUS
<1>1. PICK x \in B : \A y \in B : x <= y
  BY LeastNat
<1>2. x # 0 /\ x \in Nat /\ x - 1 \in Nat
  BY <1>1
<1>3. x - 1 \in T
  BY <1>1, <1>2
<1> QED BY <1>1, <1>2, <1>3

\* A function of numbers that is defined by its value at 0 and by a step from
\* each value to the next exists.
LEMMA RecursionExists ==
    ASSUME NEW l \in Nat, NEW e \in Nat, NEW g \in [1..l -> [Nat -> Nat]]
    PROVE  \E s \in [0..l -> Nat] : s[0] = e /\ \A n \in 1..l : s[n] = g[n][s[n - 1]]
<1> DEFINE P(s, m) == s[0] = e /\ \A n \in 1..m : s[n] = g[n][s[n - 1]]
           Q(m) == m <= l => \E s \in [0..m -> Nat] : P(s, m)
           T == {m \in Nat : Q(m)}
<1>1. Q(0)
  <2>1. [n \in 0..0 |-> e] \in [0..0 -> Nat] /\ P([n \in 0..0 |-> e], 0)
    OBVIOUS
  <2>2. \E s \in [0..0 -> Nat] : P(s, 0)
    BY <2>1, Zenon
  <2> QED BY <2>2
<1>2. ASSUME NEW m \in Nat, Q(m) PROVE Q(m + 1)
  <2> SUFFICES ASSUME m + 1 <= l PROVE \E s \in [0..(m + 1) -> Nat] : P(s, m + 1)
    BY Zenon
  <2>0. m <= l
    OBVIOUS
  <2>1. PICK s \in [0..m -> Nat] : P(s, m)
    BY <1>2, <2>0, Zenon
  <2> DEFINE h == [n \in 0..(m + 1) |-> IF n <= m THEN s[n] ELSE g[n][s[m]]]
  <2>2. m \in 0..m /\ s[m] \in Nat /\ m + 1 \in 1..l /\ g[m + 1] \in [Nat -> Nat]
    OBVIOUS
  <2>3. /\ \A n \in 0..m : h[n] = s[n]
        /\ h[m + 1] = g[m + 1][s[m]]
    <3>1. \A n \in 0..m : n \in 0..(m + 1) /\ n <= m
      OBVIOUS
    <3>2. m + 1 \in 0..(m + 1) /\ ~(m + 1 <= m)
      OBVIOUS
    <3> QED BY <3>1, <3>2, Zenon
  <2>4. h = [n \in 0..(m + 1) |-> h[n]]
    OBVIOUS
  <2> HIDE DEF h
  <2>5. \A n \in 0..(m + 1) : h[n] \in Nat
    <3> SUFFICES ASSUME NEW n \in 0..(m + 1) PROVE h[n] \in Nat
      OBVIOUS
    <3>1. CASE n \in 0..m
      BY <2>3, <3>1
    <3>2. CASE n = m + 1
      BY <2>2, <2>3, <3>2
    <3> QED BY <3>1, <3>2
  <2>6. h \in [0..(m + 1) -> Nat]
    BY <2>4, <2>5
  <2>7. h[0] = e
    <3>1. 0 \in 0..m
      OBVIOUS
    <3> QED BY <2>1, <2>3, <3>1
  <2>8. ASSUME NEW n \in 1..(m + 1) PROVE h[n] = g[n][h[n - 1]]
    <3>1. CASE n <= m
      <4>1. n \in 1..m /\ n \in 0..m /\ n - 1 \in 0..m
        BY <3>1
      <4> QED BY <2>1, <2>3, <4>1
    <3>2. CASE n = m + 1
      <4>1. n - 1 = m /\ m \in 0..m
        BY <3>2
      <4> QED BY <2>3, <3>2, <4>1
    <3> QED BY <3>1, <3>2
  <2>9. P(h, m + 1)
    BY <2>7, <2>8
  <2> QED BY <2>6, <2>9, Zenon
<1>3. Q(l)
  <2> HIDE DEF Q
  <2>1. 0 \in T /\ \A n \in Nat : n \in T => n + 1 \in T
    BY <1>1, <1>2
  <2> HIDE DEF T
  <2>2. Nat \subseteq T
    BY <2>1, SetInduction
  <2> QED BY <2>2 DEF T
<1>4. l <= l
  OBVIOUS
<1> QED BY <1>3, <1>4, Zenon

\* Number adds the digits up from the highest.
LEMMA NumberIs ==
    ASSUME NEW l \in Nat, NEW q \in [1..l -> Nat], NEW b \in Nat
    PROVE  \E s \in [0..l -> Nat] :
             /\ s[0] = 0 /\ Number(q, b) = s[l]
             /\ \A n \in 1..l : s[n] = q[l + 1 - n] + b * s[n - 1]
<1> DEFINE g == [n \in 1..l |-> [x \in Nat |-> q[l + 1 - n] + b * x]]
           N(f) == f = [k \in 0..l |-> IF k = 0 THEN 0 ELSE q[l + 1 - k] + b * f[k - 1]]
<1>1. g \in [1..l -> [Nat -> Nat]]
  <2> SUFFICES ASSUME NEW n \in 1..l, NEW x \in Nat PROVE q[l + 1 - n] + b * x \in Nat
    OBVIOUS
  <2>1. l + 1 - n \in 1..l
    OBVIOUS
  <2>2. q[l + 1 - n] \in Nat /\ b * x \in Nat
    BY <2>1
  <2> QED BY <2>2
<1>2. \A n \in 1..l : \A x \in Nat : g[n][x] = q[l + 1 - n] + b * x
  OBVIOUS
<1> HIDE DEF g
<1>4. PICK s \in [0..l -> Nat] : s[0] = 0 /\ \A n \in 1..l : s[n] = g[n][s[n - 1]]
  <2>1. PICK e \in Nat : e = 0
    OBVIOUS
  <2>2. \E s \in [0..l -> Nat] : s[0] = e /\ \A n \in 1..l : s[n] = g[n][s[n - 1]]
    BY <1>1, RecursionExists, Zenon
  <2> QED BY <2>1, <2>2
<1>5. \A n \in 1..l : s[n] = q[l + 1 - n] + b * s[n - 1]
  <2> SUFFICES ASSUME NEW n \in 1..l PROVE s[n] = q[l + 1 - n] + b * s[n - 1]
    OBVIOUS
  <2>1. s[n - 1] \in Nat
    BY <1>4
  <2> QED BY <1>2, <1>4, <2>1
<1>6. N(s)
  <2>1. \A k \in 0..l : s[k] = IF k = 0 THEN 0 ELSE q[l + 1 - k] + b * s[k - 1]
    BY <1>4, <1>5
  <2>2. s = [k \in 0..l |-> s[k]]
    BY <1>4
  <2> QED BY <2>1, <2>2
<1>7. ASSUME NEW u, N(u)
      PROVE  /\ u \in [0..l -> Nat] /\ u[0] = 0
             /\ \A n \in 1..l : u[n] = q[l + 1 - n] + b * u[n - 1]
  <2>1. \A k \in 0..l : u[k] = IF k = 0 THEN 0 ELSE q[l + 1 - k] + b * u[k - 1]
    BY <1>7
  <2>2. u = [k \in 0..l |-> u[k]]
    BY <1>7
  <2> DEFINE T == {n \in Nat : n <= l => u[n] = s[n]}
  <2>3. 0 \in T
    BY <1>4, <2>1
  <2>4. ASSUME NEW n \in Nat, n \in T PROVE n + 1 \in T
    <3> SUFFICES ASSUME n + 1 <= l PROVE u[n + 1] = s[n + 1]
      OBVIOUS
    <3>1. n + 1 \in 1..l /\ n + 1 \in 0..l /\ n + 1 # 0 /\ (n + 1) - 1 = n /\ u[n] = s[n]
      BY <2>4
    <3> QED BY <1>5, <2>1, <3>1
  <2> HIDE DEF T
  <2>5. Nat \subseteq T
    BY <2>3, <2>4, SetInduction
  <2>6. \A n \in 0..l : u[n] = s[n]
    BY <2>5 DEF T
  <2>7. u = s
    BY <1>4, <2>2, <2>6
  <2> QED BY <1>4, <1>5, <2>7
<1>8. Len(q) = l
  OBVIOUS
<1> DEFINE u == CHOOSE f : N(f)
<1>9. N(u)
  <2> HIDE DEF N
  <2> QED BY <1>6
<1>10. Number(q, b) = u[l]
  BY <1>8 DEF Number
<1> HIDE DEF u, N
<1>11. /\ u \in [0..l -> Nat] /\ u[0] = 0
       /\ \A n \in 1..l : u[n] = q[l + 1 - n] + b * u[n - 1]
  BY <1>7, <1>9
<1> QED BY <1>10, <1>11

\* The bases of the numbers in messages and in prefixes.
Bases == {128, 256}
\* Shifted drops one digit after the other.
LEMMA ShiftedIs ==
    ASSUME NEW m \in Nat, NEW b \in Bases, NEW l \in Nat
    PROVE  /\ Shifted(m, b, l) \in [0..l -> Nat] /\ Shifted(m, b, l)[0] = m
           /\ \A n \in 1..l : Shifted(m, b, l)[n] = Shifted(m, b, l)[n - 1] \div b
<1> DEFINE D(x) == x \div b
           g == [n \in 1..l |-> [x \in Nat |-> D(x)]]
           N(f) == f = [i \in 0..l |-> IF i = 0 THEN m ELSE D(f[i - 1])]
<1>0. l \in Nat /\ \A x \in Nat : D(x) \in Nat
  <2>1. CASE b = 128
    BY <2>1
  <2>2. CASE b = 256
    BY <2>2
  <2> QED BY <2>1, <2>2 DEF Bases
<1> HIDE DEF D
<1>1. g \in [1..l -> [Nat -> Nat]]
  BY <1>0
<1>1a. \A n \in 1..l : \A x \in Nat : g[n][x] = D(x)
  OBVIOUS
<1> HIDE DEF g
<1>2. PICK s \in [0..l -> Nat] : s[0] = m /\ \A n \in 1..l : s[n] = g[n][s[n - 1]]
  BY <1>1, RecursionExists, Zenon
<1>3. N(s)
  <2>1. \A n \in 1..l : n - 1 \in 0..l
    BY <1>0
  <2>2. \A n \in 1..l : s[n] = D(s[n - 1])
    <3> SUFFICES ASSUME NEW n \in 1..l PROVE s[n] = D(s[n - 1])
      OBVIOUS
    <3>1. s[n - 1] \in Nat
      BY <2>1
    <3>2. g[n][s[n - 1]] = D(s[n - 1])
      BY <1>1a, <3>1, Zenon
    <3> QED BY <1>2, <3>2, Zenon
  <2>3. \A i \in 0..l : s[i] = IF i = 0 THEN m ELSE D(s[i - 1])
    <3> SUFFICES ASSUME NEW i \in 0..l PROVE s[i] = IF i = 0 THEN m ELSE D(s[i - 1])
      OBVIOUS
    <3>1. i = 0 \/ i \in 1..l
      BY <1>0
    <3> QED BY <1>2, <2>2, <3>1
  <2>4. s = [i \in 0..l |-> s[i]]
    OBVIOUS
  <2> QED BY <2>3, <2>4
<1> DEFINE u == CHOOSE f : N(f)
<1>4. N(u)
  <2> HIDE DEF N
  <2> QED BY <1>3
<1>4a. Shifted(m, b, l) = u
  BY DEF Shifted, D
<1> HIDE DEF u
<1>5. DOMAIN u = 0..l /\ u[0] = m /\ \A n \in 1..l : u[n] = D(u[n - 1])
  <2>1. \A i \in 0..l : u[i] = IF i = 0 THEN m ELSE D(u[i - 1])
    BY <1>4
  <2>2. \A n \in 1..l : n \in 0..l /\ n # 0
    OBVIOUS
  <2>3. \A n \in 1..l : u[n] = D(u[n - 1])
    BY <2>1, <2>2
  <2>4. 0 \in 0..l /\ u[0] = m
    BY <2>1
  <2> QED BY <1>4, <2>3, <2>4
<1> DEFINE T == {n \in Nat : n <= l => u[n] \in Nat}
<1>6. 0 \in T
  BY <1>5
<1>7. ASSUME NEW n \in Nat, n \in T PROVE n + 1 \in T
  <2> SUFFICES ASSUME n + 1 <= l PROVE u[n + 1] \in Nat
    OBVIOUS
  <2>1. n + 1 \in 1..l /\ (n + 1) - 1 = n /\ u[n] \in Nat
    BY <1>0, <1>7
  <2>2. u[n + 1] = D(u[n])
    BY <1>5, <2>1
  <2> QED BY <1>0, <2>1, <2>2
<1> HIDE DEF T
<1>8. Nat \subseteq T
  BY <1>6, <1>7, SetInduction
<1>9. \A n \in 0..l : u[n] \in Nat
  BY <1>0, <1>8 DEF T
<1>10. u = [i \in 0..l |-> u[i]]
  BY <1>4
<1>11. \A x : D(x) = x \div b
  BY DEF D
<1> QED BY <1>4a, <1>5, <1>9, <1>10, <1>11

\* What write_lp puts before a message is read back as its length.
LEMMA PrefixReadBack ==
    ASSUME NEW m \in 0..MAX_MESSAGE_SIZE
    PROVE  LittleEndian(m) \in [1..PREFIX -> Byte] /\ Number(LittleEndian(m), 256) = m
<1>a. m \in Nat
  OBVIOUS
<1>b. /\ Shifted(m, 256, PREFIX) \in [0..PREFIX -> Nat] /\ Shifted(m, 256, PREFIX)[0] = m
      /\ \A n \in 1..PREFIX : Shifted(m, 256, PREFIX)[n] = Shifted(m, 256, PREFIX)[n - 1] \div 256
  <2>1. PICK b \in Bases : b = 256
    BY DEF Bases
  <2>2. PREFIX \in Nat
    BY FramingAssumption
  <2>3. /\ Shifted(m, b, PREFIX) \in [0..PREFIX -> Nat] /\ Shifted(m, b, PREFIX)[0] = m
        /\ \A n \in 1..PREFIX : Shifted(m, b, PREFIX)[n] = Shifted(m, b, PREFIX)[n - 1] \div b
    BY <1>a, <2>2, ShiftedIs, Zenon
  <2> QED BY <2>1, <2>3
<1> DEFINE q == LittleEndian(m)
           sh == Shifted(m, 256, PREFIX)
<1>0. PREFIX \in Nat \ {0} /\ m \in Nat /\ sh[PREFIX] = 0
  BY FramingAssumption
<1>1. sh \in [0..PREFIX -> Nat] /\ sh[0] = m /\ \A n \in 1..PREFIX : sh[n] = sh[n - 1] \div 256
  BY <1>b
<1> HIDE DEF sh
<1>2. q = [i \in 1..PREFIX |-> sh[i - 1] % 256]
  BY DEF LittleEndian, sh
<1> HIDE DEF q
<1>3. \A i \in 1..PREFIX : q[i] = sh[i - 1] % 256 /\ q[i] \in Byte /\ sh[i - 1] \in Nat
  <2> SUFFICES ASSUME NEW i \in 1..PREFIX
               PROVE  q[i] = sh[i - 1] % 256 /\ q[i] \in Byte /\ sh[i - 1] \in Nat
    OBVIOUS
  <2>1. i - 1 \in 0..PREFIX
    BY <1>0
  <2>2. sh[i - 1] \in Nat /\ q[i] = sh[i - 1] % 256
    BY <1>1, <1>2, <2>1
  <2> QED BY <2>2 DEF Byte
<1>4. q \in [1..PREFIX -> Byte]
  BY <1>2, <1>3
<1>5. q \in [1..PREFIX -> Nat] /\ PREFIX \in Nat
  <2>1. \A i \in 1..PREFIX : q[i] \in Nat
    BY <1>3 DEF Byte
  <2> QED BY <1>0, <1>2, <2>1
<1>6. PICK s \in [0..PREFIX -> Nat] :
             /\ s[0] = 0 /\ Number(q, 256) = s[PREFIX]
             /\ \A n \in 1..PREFIX : s[n] = q[PREFIX + 1 - n] + 256 * s[n - 1]
  <2>1. PICK b \in Nat : b = 256
    OBVIOUS
  <2>2. \E s \in [0..PREFIX -> Nat] :
             /\ s[0] = 0 /\ Number(q, b) = s[PREFIX]
             /\ \A n \in 1..PREFIX : s[n] = q[PREFIX + 1 - n] + b * s[n - 1]
    BY <1>5, NumberIs, Zenon
  <2> QED BY <2>1, <2>2
<1> DEFINE T == {n \in Nat : n <= PREFIX => s[n] = sh[PREFIX - n]}
<1>7. 0 \in T
  BY <1>0, <1>6
<1>8. ASSUME NEW n \in Nat, n \in T PROVE n + 1 \in T
  <2> SUFFICES ASSUME n + 1 <= PREFIX PROVE s[n + 1] = sh[PREFIX - (n + 1)]
    OBVIOUS
  <2> DEFINE j == PREFIX - n
  <2>1. /\ n + 1 \in 1..PREFIX /\ (n + 1) - 1 = n /\ s[n] = sh[j]
        /\ j \in 1..PREFIX /\ PREFIX + 1 - (n + 1) = j /\ PREFIX - (n + 1) = j - 1
    BY <1>0, <1>8
  <2> HIDE DEF j
  <2>2. s[n + 1] = q[j] + 256 * sh[j]
    BY <1>6, <2>1
  <2>3. q[j] = sh[j - 1] % 256 /\ sh[j] = sh[j - 1] \div 256 /\ sh[j - 1] \in Nat
    BY <1>1, <1>3, <2>1
  <2>4. \A x \in Nat : (x % 256) + 256 * (x \div 256) = x
    OBVIOUS
  <2>5. s[n + 1] = sh[j - 1]
    BY <2>2, <2>3, <2>4
  <2> QED BY <2>1, <2>5
<1> HIDE DEF T
<1>9. Nat \subseteq T
  BY <1>7, <1>8, SetInduction
<1>10. s[PREFIX] = sh[PREFIX - PREFIX] /\ PREFIX - PREFIX = 0
  BY <1>0, <1>9 DEF T
<1> QED BY <1>1, <1>4, <1>6, <1>10 DEF q

\* The numbers with up to three digits, and those with five, six and eight.
LEMMA NumberOf3 ==
    ASSUME NEW b \in Nat
    PROVE  /\ \A q \in [1..1 -> Nat] : Number(q, b) = q[1]
           /\ \A q \in [1..2 -> Nat] : Number(q, b) = q[1] + b * q[2]
           /\ \A q \in [1..3 -> Nat] : Number(q, b) = q[1] + b * (q[2] + b * q[3])
<1>1. ASSUME NEW q \in [1..1 -> Nat] PROVE Number(q, b) = q[1]
  <2>1. PICK s \in [0..1 -> Nat] : /\ s[0] = 0 /\ Number(q, b) = s[1]
                                   /\ \A n \in 1..1 : s[n] = q[1 + 1 - n] + b * s[n - 1]
    <3>1. 1 \in Nat
      OBVIOUS
    <3> QED BY <3>1, NumberIs, Zenon
  <2>2. s[1] = q[1] + b * 0
    BY <2>1
  <2> QED BY <2>1, <2>2
<1>2. ASSUME NEW q \in [1..2 -> Nat] PROVE Number(q, b) = q[1] + b * q[2]
  <2>1. PICK s \in [0..2 -> Nat] : /\ s[0] = 0 /\ Number(q, b) = s[2]
                                   /\ \A n \in 1..2 : s[n] = q[2 + 1 - n] + b * s[n - 1]
    <3>1. 2 \in Nat
      OBVIOUS
    <3> QED BY <3>1, NumberIs, Zenon
  <2>2. s[1] = q[2] + b * 0 /\ s[2] = q[1] + b * s[1]
    BY <2>1
  <2>3. s[1] = q[2]
    BY <2>2
  <2> QED BY <2>1, <2>2, <2>3
<1>3. ASSUME NEW q \in [1..3 -> Nat] PROVE Number(q, b) = q[1] + b * (q[2] + b * q[3])
  <2>1. PICK s \in [0..3 -> Nat] : /\ s[0] = 0 /\ Number(q, b) = s[3]
                                   /\ \A n \in 1..3 : s[n] = q[3 + 1 - n] + b * s[n - 1]
    <3>1. 3 \in Nat
      OBVIOUS
    <3> QED BY <3>1, NumberIs, Zenon
  <2>2. s[1] = q[3] + b * 0 /\ s[2] = q[2] + b * s[1] /\ s[3] = q[1] + b * s[2]
    BY <2>1
  <2>3. s[1] = q[3]
    BY <2>2
  <2> QED BY <2>1, <2>2, <2>3
<1> QED BY <1>1, <1>2, <1>3

\* Groups of bits: five, six and eight of them, the lowest first.
LEMMA NumberOfBits ==
    /\ \A q \in [1..5 -> {0, 1}] :
         Number(q, 2) = q[1] + 2 * (q[2] + 2 * (q[3] + 2 * (q[4] + 2 * q[5])))
    /\ \A q \in [1..6 -> {0, 1}] :
         Number(q, 2) = q[1] + 2 * (q[2] + 2 * (q[3] + 2 * (q[4] + 2 * (q[5] + 2 * q[6]))))
    /\ \A q \in [1..8 -> {0, 1}] :
         Number(q, 2) = q[1] + 2 * (q[2] + 2 * (q[3] + 2 * (q[4] +
                        2 * (q[5] + 2 * (q[6] + 2 * (q[7] + 2 * q[8]))))))
<1>1. ASSUME NEW q \in [1..5 -> {0, 1}]
      PROVE  Number(q, 2) = q[1] + 2 * (q[2] + 2 * (q[3] + 2 * (q[4] + 2 * q[5])))
  <2>1. PICK s \in [0..5 -> Nat] : /\ s[0] = 0 /\ Number(q, 2) = s[5]
                                   /\ \A n \in 1..5 : s[n] = q[5 + 1 - n] + 2 * s[n - 1]
    <3>1. q \in [1..5 -> Nat] /\ 5 \in Nat /\ 2 \in Nat
      OBVIOUS
    <3> QED BY <3>1, NumberIs, Zenon
  <2>2. /\ s[1] = q[5] + 2 * 0 /\ s[2] = q[4] + 2 * s[1] /\ s[3] = q[3] + 2 * s[2]
        /\ s[4] = q[2] + 2 * s[3] /\ s[5] = q[1] + 2 * s[4]
    BY <2>1
  <2> QED BY <2>1, <2>2
<1>2. ASSUME NEW q \in [1..6 -> {0, 1}]
      PROVE  Number(q, 2) = q[1] + 2 * (q[2] + 2 * (q[3] + 2 * (q[4] + 2 * (q[5] + 2 * q[6]))))
  <2>1. PICK s \in [0..6 -> Nat] : /\ s[0] = 0 /\ Number(q, 2) = s[6]
                                   /\ \A n \in 1..6 : s[n] = q[6 + 1 - n] + 2 * s[n - 1]
    <3>1. q \in [1..6 -> Nat] /\ 6 \in Nat /\ 2 \in Nat
      OBVIOUS
    <3> QED BY <3>1, NumberIs, Zenon
  <2>2. /\ s[1] = q[6] + 2 * 0 /\ s[2] = q[5] + 2 * s[1] /\ s[3] = q[4] + 2 * s[2]
        /\ s[4] = q[3] + 2 * s[3] /\ s[5] = q[2] + 2 * s[4] /\ s[6] = q[1] + 2 * s[5]
    BY <2>1
  <2> QED BY <2>1, <2>2
<1>3. ASSUME NEW q \in [1..8 -> {0, 1}]
      PROVE  Number(q, 2) = q[1] + 2 * (q[2] + 2 * (q[3] + 2 * (q[4] +
                            2 * (q[5] + 2 * (q[6] + 2 * (q[7] + 2 * q[8]))))))
  <2>1. PICK s \in [0..8 -> Nat] : /\ s[0] = 0 /\ Number(q, 2) = s[8]
                                   /\ \A n \in 1..8 : s[n] = q[8 + 1 - n] + 2 * s[n - 1]
    <3>1. q \in [1..8 -> Nat] /\ 8 \in Nat /\ 2 \in Nat
      OBVIOUS
    <3> QED BY <3>1, NumberIs, Zenon
  <2>2. /\ s[1] = q[8] + 2 * 0 /\ s[2] = q[7] + 2 * s[1] /\ s[3] = q[6] + 2 * s[2]
        /\ s[4] = q[5] + 2 * s[3] /\ s[5] = q[4] + 2 * s[4] /\ s[6] = q[3] + 2 * s[5]
        /\ s[7] = q[2] + 2 * s[6] /\ s[8] = q[1] + 2 * s[7]
    BY <2>1
  <2> QED BY <2>1, <2>2
<1> QED BY <1>1, <1>2, <1>3

(***************************************************************************)
(* Byte strings and the decoders that take values off their front.         *)
(***************************************************************************)

\* A sequence is its first n members followed by what Drop leaves.
LEMMA SplitAt ==
    ASSUME NEW S, NEW b \in Seq(S), NEW n \in 0..Len(b)
    PROVE  /\ SubSeq(b, 1, n) \in Seq(S) /\ Len(SubSeq(b, 1, n)) = n
           /\ \A i \in 1..n : SubSeq(b, 1, n)[i] = b[i]
           /\ Drop(b, n) \in Seq(S) /\ Len(Drop(b, n)) = Len(b) - n
           /\ \A i \in 1..(Len(b) - n) : Drop(b, n)[i] = b[n + i]
           /\ b = SubSeq(b, 1, n) \o Drop(b, n)
<1>1. Len(b) \in Nat /\ \A i \in 1..Len(b) : b[i] \in S
  OBVIOUS
<1>2. /\ SubSeq(b, 1, n) \in Seq(S) /\ Len(SubSeq(b, 1, n)) = n
      /\ \A i \in 1..n : SubSeq(b, 1, n)[i] = b[i]
  <2>1. \A i \in 1..n : b[i] \in S
    BY <1>1
  <2> QED BY <1>1, <2>1, SubSeqProperties
<1>3. /\ SubSeq(b, n + 1, Len(b)) \in Seq(S) /\ Len(SubSeq(b, n + 1, Len(b))) = Len(b) - n
      /\ \A i \in 1..(Len(b) - n) : SubSeq(b, n + 1, Len(b))[i] = b[n + i]
  <2>1. \A i \in (n + 1)..Len(b) : b[i] \in S
    BY <1>1
  <2> QED BY <1>1, <2>1, SubSeqProperties
<1>4. SubSeq(b, 1, n) \o SubSeq(b, n + 1, Len(b)) = b
  <2> DEFINE x == SubSeq(b, 1, n)
             y == SubSeq(b, n + 1, Len(b))
  <2>0. x \in Seq(S) /\ y \in Seq(S) /\ Len(x) = n /\ Len(y) = Len(b) - n
        /\ (\A i \in 1..n : x[i] = b[i]) /\ \A i \in 1..(Len(b) - n) : y[i] = b[n + i]
    BY <1>2, <1>3
  <2> HIDE DEF x, y
  <2>1. /\ x \o y \in Seq(S) /\ Len(x \o y) = Len(b)
        /\ \A i \in 1..Len(b) : (x \o y)[i] = IF i <= n THEN x[i] ELSE y[i - n]
    BY <1>1, <2>0, ConcatProperties
  <2>2. ASSUME NEW i \in 1..Len(b) PROVE (x \o y)[i] = b[i]
    <3>1. CASE i <= n
      <4>1. i \in 1..n
        BY <3>1
      <4> QED BY <2>0, <2>1, <3>1, <4>1
    <3>2. CASE ~(i <= n)
      <4>1. i - n \in 1..(Len(b) - n) /\ n + (i - n) = i
        BY <1>1, <3>2
      <4> QED BY <2>0, <2>1, <3>2, <4>1
    <3> QED BY <3>1, <3>2
  <2>3. x \o y = b
    BY <1>1, <2>1, <2>2, SeqEqual
  <2> QED BY <2>3 DEF x, y
<1> QED BY <1>2, <1>3, <1>4 DEF Drop

\* The parts of a concatenation are found again.
LEMMA SplitConcat ==
    ASSUME NEW S, NEW b \in Seq(S), NEW r \in Seq(S)
    PROVE  SubSeq(b \o r, 1, Len(b)) = b /\ Drop(b \o r, Len(b)) = r
<1>1. /\ b \o r \in Seq(S) /\ Len(b \o r) = Len(b) + Len(r) /\ Len(b) \in Nat /\ Len(r) \in Nat
      /\ \A i \in 1..(Len(b) + Len(r)) : (b \o r)[i] = IF i <= Len(b) THEN b[i] ELSE r[i - Len(b)]
  BY ConcatProperties
<1> DEFINE n == Len(b)
           c == b \o r
           x == SubSeq(c, 1, n)
           y == Drop(c, n)
<1>2. /\ x \in Seq(S) /\ Len(x) = Len(b) /\ \A i \in 1..Len(b) : x[i] = (b \o r)[i]
      /\ y \in Seq(S) /\ Len(y) = Len(r) /\ \A i \in 1..Len(r) : y[i] = (b \o r)[Len(b) + i]
  <2>1. c \in Seq(S) /\ n \in 0..Len(c) /\ Len(c) - n = Len(r)
    BY <1>1
  <2> HIDE DEF c, n
  <2>2. /\ x \in Seq(S) /\ Len(x) = n /\ \A i \in 1..n : x[i] = c[i]
        /\ y \in Seq(S) /\ Len(y) = Len(c) - n /\ \A i \in 1..(Len(c) - n) : y[i] = c[n + i]
    BY <2>1, SplitAt
  <2> HIDE DEF x, y
  <2> QED BY <2>1, <2>2 DEF c, n
<1> HIDE DEF x, y
<1>3. \A i \in 1..Len(b) : x[i] = b[i]
  BY <1>1, <1>2
<1>4. \A i \in 1..Len(r) : y[i] = r[i]
  BY <1>1, <1>2
<1>5. x = b /\ y = r
  BY <1>1, <1>2, <1>3, <1>4, SeqEqual
<1> QED BY <1>5 DEF x, y

\* TakeBytes takes exactly what was put in front.
LEMMA TakeBytesIs ==
    /\ \A b, r \in Seq(Byte) : TakeBytes(b \o r, Len(b)) = Took(b, r)
    /\ \A b \in Seq(Byte), n \in Nat :
         IF n <= Len(b)
         THEN /\ TakeBytes(b, n) = Took(SubSeq(b, 1, n), Drop(b, n))
              /\ SubSeq(b, 1, n) \in Seq(Byte) /\ Len(SubSeq(b, 1, n)) = n
              /\ Drop(b, n) \in Seq(Byte) /\ Len(Drop(b, n)) = Len(b) - n
              /\ b = SubSeq(b, 1, n) \o Drop(b, n)
         ELSE TakeBytes(b, n) = Fail
<1>1. ASSUME NEW b \in Seq(Byte), NEW r \in Seq(Byte)
      PROVE  TakeBytes(b \o r, Len(b)) = Took(b, r)
  <2>1. Len(b) <= Len(b \o r)
    OBVIOUS
  <2>2. SubSeq(b \o r, 1, Len(b)) = b /\ Drop(b \o r, Len(b)) = r
    BY SplitConcat
  <2> QED BY <2>1, <2>2 DEF TakeBytes
<1>2. ASSUME NEW b \in Seq(Byte), NEW n \in Nat, n <= Len(b)
      PROVE  /\ TakeBytes(b, n) = Took(SubSeq(b, 1, n), Drop(b, n))
             /\ SubSeq(b, 1, n) \in Seq(Byte) /\ Len(SubSeq(b, 1, n)) = n
             /\ Drop(b, n) \in Seq(Byte) /\ Len(Drop(b, n)) = Len(b) - n
             /\ b = SubSeq(b, 1, n) \o Drop(b, n)
  <2>1. n \in 0..Len(b)
    BY <1>2
  <2>2. TakeBytes(b, n) = Took(SubSeq(b, 1, n), Drop(b, n))
    BY <1>2 DEF TakeBytes
  <2> QED BY <2>1, <2>2, SplitAt
<1>3. ASSUME NEW b \in Seq(Byte), NEW n \in Nat, ~(n <= Len(b)) PROVE TakeBytes(b, n) = Fail
  BY <1>3 DEF TakeBytes
<1> QED BY <1>1, <1>2, <1>3

\* What a result of a decoder is made of.
LEMMA TookIs ==
    /\ \A v, r : Took(v, r).ok = TRUE /\ Took(v, r).v = v /\ Took(v, r).rest = r
    /\ Fail.ok = FALSE
    /\ \A v, r, v2, r2 : Took(v, r) = Took(v2, r2) => v = v2 /\ r = r2
    /\ \A v, r : Took(v, r) # Fail
<1>1. \A v, r : Took(v, r).ok = TRUE /\ Took(v, r).v = v /\ Took(v, r).rest = r
  BY DEF Took
<1>2. Fail.ok = FALSE
  BY DEF Fail
<1>3. ASSUME NEW v, NEW r, NEW v2, NEW r2, Took(v, r) = Took(v2, r2) PROVE v = v2 /\ r = r2
  BY <1>1, <1>3
<1> QED BY <1>1, <1>2, <1>3

\* The place n is where a varint of at most max bytes ends.
EndsAt(b, max, n) ==
    n \in 1..Len(b) /\ n <= max /\ b[n] < 128 /\ \A i \in 1..(n - 1) : ~(b[i] < 128)
Digits(b, n) == [i \in 1..n |-> b[i] % 128]
Value(b, n) == Number(Digits(b, n), 128)

\* TakeVarint stops at the first byte without a mark.
LEMMA TakeVarintIs ==
    ASSUME NEW b \in Seq(Byte), NEW max \in Nat
    PROVE  /\ \A n : EndsAt(b, max, n) => TakeVarint(b, max) = Took(Value(b, n), Drop(b, n))
           /\ (\E n : EndsAt(b, max, n)) \/ TakeVarint(b, max) = Fail
<1> DEFINE ends == {i \in 1..Len(b) : i <= max /\ b[i] < 128}
<1>0. Len(b) \in Nat /\ \A i \in 1..Len(b) : b[i] \in 0..255
  <2>1. Len(b) \in Nat /\ \A i \in 1..Len(b) : b[i] \in Byte
    OBVIOUS
  <2> QED BY <2>1 DEF Byte
<1>1. ends \subseteq Nat /\ TakeVarint(b, max) = IF ends = {} THEN Fail
        ELSE Took(Value(b, Min(ends)), Drop(b, Min(ends)))
  BY <1>0 DEF TakeVarint, Digits, Value
<1>2. ASSUME NEW n, EndsAt(b, max, n) PROVE ends # {} /\ Min(ends) = n
  <2>1. n \in ends /\ n \in Nat
    BY <1>0, <1>2 DEF EndsAt
  <2>2. \A i \in ends : i >= n
    <3> SUFFICES ASSUME NEW i \in ends, i < n PROVE FALSE
      BY <1>0, <2>1
    <3>1. i \in 1..(n - 1) /\ b[i] < 128 /\ b[i] \in 0..255
      BY <1>0, <2>1
    <3> QED BY <1>2, <3>1 DEF EndsAt
  <2>3. Min(ends) \in ends /\ \A y \in ends : Min(ends) <= y
    BY <1>1, <2>1, MinIs
  <2> HIDE DEF ends
  <2>4. Min(ends) \in Nat /\ Min(ends) <= n /\ Min(ends) >= n
    BY <1>1, <2>1, <2>2, <2>3
  <2> QED BY <2>1, <2>4
<1>3. ASSUME ends # {} PROVE EndsAt(b, max, Min(ends))
  <2> DEFINE n == Min(ends)
  <2>1. n \in ends /\ \A y \in ends : n <= y
    BY <1>1, <1>3, MinIs
  <2> HIDE DEF n
  <2>2. n \in 1..Len(b) /\ n <= max /\ b[n] < 128
    BY <2>1
  <2>3. ASSUME NEW i \in 1..(n - 1) PROVE ~(b[i] < 128)
    <3>1. i \in 1..Len(b) /\ i <= max /\ ~(n <= i) /\ b[i] \in 0..255
      BY <1>0, <2>2
    <3>2. ~(b[i] < 128)
      BY <2>1, <3>1
    <3> QED BY <3>1, <3>2
  <2> QED BY <2>2, <2>3 DEF EndsAt, n
<1> HIDE DEF ends
<1> QED BY <1>1, <1>2, <1>3

\* The front of a concatenation is the front of its first part.
LEMMA SplitFront ==
    ASSUME NEW S, NEW b \in Seq(S), NEW r \in Seq(S), NEW n \in 0..Len(b)
    PROVE  SubSeq(b \o r, 1, n) = SubSeq(b, 1, n) /\ Drop(b \o r, n) = Drop(b, n) \o r
<1> DEFINE x == SubSeq(b, 1, n)
           y == Drop(b, n)
<1>1. x \in Seq(S) /\ Len(x) = n /\ y \in Seq(S) /\ b = x \o y
  BY SplitAt
<1> HIDE DEF x, y
<1>2. b \o r = x \o (y \o r) /\ y \o r \in Seq(S)
  BY <1>1, ConcatAssociative, ConcatProperties
<1>3. SubSeq(x \o (y \o r), 1, n) = x /\ Drop(x \o (y \o r), n) = y \o r
  BY <1>1, <1>2, SplitConcat
<1> QED BY <1>2, <1>3 DEF x, y

\* Numbers are numbers.
LEMMA NumberNat ==
    ASSUME NEW l \in Nat, NEW q \in [1..l -> Nat]
    PROVE  Number(q, 128) \in Nat
<1>1. PICK b \in Nat : b = 128
  OBVIOUS
<1>2. PICK s \in [0..l -> Nat] : Number(q, b) = s[l]
  BY NumberIs, Zenon
<1>3. s[l] \in Nat
  OBVIOUS
<1> QED BY <1>1, <1>2, <1>3

\* A varint that was found is a number, and what follows does not change it.
LEMMA TakeVarintExtends ==
    ASSUME NEW b \in Seq(Byte), NEW max \in Nat, TakeVarint(b, max).ok
    PROVE  \E v \in Nat, rest \in Seq(Byte) :
             /\ TakeVarint(b, max) = Took(v, rest)
             /\ Len(rest) < Len(b)
             /\ \A r \in Seq(Byte) : TakeVarint(b \o r, max) = Took(v, rest \o r)
<1>1. PICK n : EndsAt(b, max, n)
  BY TakeVarintIs, TookIs
<1> DEFINE v == Value(b, n)
           rest == Drop(b, n)
<1>2. TakeVarint(b, max) = Took(v, rest)
  BY <1>1, TakeVarintIs
<1>3. n \in 1..Len(b) /\ n \in 0..Len(b) /\ n \in Nat /\ Len(b) \in Nat
  BY <1>1 DEF EndsAt
<1>4. \A i \in 1..n : b[i] \in 0..255
  <2>1. \A i \in 1..n : b[i] \in Byte
    BY <1>3
  <2> QED BY <2>1 DEF Byte
<1>5. v \in Nat
  <2>1. ASSUME NEW i \in 1..n PROVE b[i] % 128 \in Nat
    <3>1. PICK x \in 0..255 : x = b[i]
      BY <1>4
    <3>2. x % 128 \in Nat
      BY SMT
    <3> QED BY <3>1, <3>2
  <2>2. Digits(b, n) \in [1..n -> Nat]
    BY <2>1 DEF Digits
  <2> QED BY <1>3, <2>2, NumberNat DEF Value
<1>6. rest \in Seq(Byte) /\ Len(rest) < Len(b)
  <2>1. rest \in Seq(Byte) /\ Len(rest) = Len(b) - n
    BY <1>3, SplitAt
  <2> HIDE DEF rest
  <2> QED BY <1>3, <2>1
<1>7. ASSUME NEW r \in Seq(Byte) PROVE TakeVarint(b \o r, max) = Took(v, rest \o r)
  <2>1. /\ b \o r \in Seq(Byte) /\ Len(b \o r) = Len(b) + Len(r) /\ Len(r) \in Nat
        /\ \A i \in 1..(Len(b) + Len(r)) : (b \o r)[i] = IF i <= Len(b) THEN b[i] ELSE r[i - Len(b)]
    BY ConcatProperties
  <2>2. \A i \in 1..n : (b \o r)[i] = b[i]
    <3>1. \A i \in 1..n : i \in 1..(Len(b) + Len(r)) /\ i <= Len(b)
      BY <1>3, <2>1
    <3> QED BY <2>1, <3>1
  <2>3. EndsAt(b \o r, max, n)
    <3>1. n \in 1..Len(b \o r) /\ n \in 1..n /\ \A i \in 1..(n - 1) : i \in 1..n
      BY <1>3, <2>1
    <3> QED BY <1>1, <2>2, <3>1 DEF EndsAt
  <2>4. Digits(b \o r, n) = Digits(b, n)
    BY <2>2 DEF Digits
  <2>5. Drop(b \o r, n) = rest \o r
    BY <1>3, SplitFront
  <2>6. TakeVarint(b \o r, max) = Took(Value(b \o r, n), Drop(b \o r, n))
    BY <2>1, <2>3, TakeVarintIs
  <2> QED BY <2>4, <2>5, <2>6 DEF Value
<1> HIDE DEF v, rest
<1> QED BY <1>2, <1>5, <1>6, <1>7

U16 == 0..65535

\* The varint of p has k bytes, and they are the first k of y1, y2 and y3.
Encoded(p, k, y1, y2, y3) ==
    \/ p < 128 /\ k = 1 /\ y1 = p
    \/ ~(p < 128) /\ p < 16384 /\ k = 2 /\ y1 = (p % 128) + 128 /\ y2 = p \div 128
    \/ /\ ~(p < 16384) /\ k = 3
       /\ y1 = (p % 128) + 128 /\ y2 = ((p \div 128) % 128) + 128 /\ y3 = p \div 16384
VarintBytes(w, p) == w \in Seq(Byte) /\ Encoded(p, Len(w), w[1], w[2], w[3])

\* The first n of the bytes x1, x2 and x3 are a varint, and v is its value.
Summed(n, x1, x2, x3, v) ==
    \/ n = 1 /\ x1 \in 0..127 /\ v = x1
    \/ n = 2 /\ x1 \in 128..255 /\ x2 \in 0..127 /\ v = (x1 - 128) + (128 * x2)
    \/ /\ n = 3 /\ x1 \in 128..255 /\ x2 \in 128..255 /\ x3 \in 0..127
       /\ v = (x1 - 128) + (128 * ((x2 - 128) + (128 * x3)))
AddUpTo(b, n, v) == Summed(n, b[1], b[2], b[3], v)

\* The varints of numbers of at most 16 bits.
LEMMA VarintIs ==
    ASSUME NEW p \in U16
    PROVE  VarintBytes(Varint(p), p)
<1>a. p \in Nat /\ p < 65536
  BY SMT DEF U16
<1> DEFINE E(k) == 128^k
           l == VarintLen(p)
           d(i) == (Shifted(p, 128, l)[i - 1] % 128) + (IF i < l THEN 128 ELSE 0)
           Q(k) == (p < E(k) \/ k = 10) /\ \A j \in 1..(k - 1) : p >= E(j)
<1>0. /\ E(0) = 1 /\ E(1) = 128 /\ E(2) = 16384 /\ E(3) = 2097152
      /\ E(0) \in Int /\ E(1) \in Int /\ E(2) \in Int /\ E(3) \in Int
      /\ E(1 - 1) = 1 /\ E(2 - 1) = 128 /\ E(3 - 1) = 16384
  BY SMT
<1>b. p \in Int /\ 0 <= p /\ p < 65536 /\ p < 2097152
  BY <1>a, SMT
<1>d. /\ p \div 1 = p /\ (p % 128) + 128 \in Byte
      /\ p < 128 => p % 128 = p /\ p \in Byte
      /\ p < 16384 => (p \div 128) % 128 = p \div 128 /\ p \div 128 \in Byte
      /\ ((p \div 128) % 128) + 128 \in Byte
      /\ p < 65536 => (p \div 16384) % 128 = p \div 16384 /\ p \div 16384 \in Byte
  <2>1. p \div 1 = p
    BY <1>a, SMT
  <2>2. (p % 128) + 128 \in Byte
    BY <1>a, SMT DEF Byte
  <2>3. p < 128 => p % 128 = p /\ p \in Byte
    BY <1>a, SMT DEF Byte
  <2>4. p < 16384 => (p \div 128) % 128 = p \div 128
    BY <1>a, SMT
  <2>5. p < 16384 => p \div 128 \in Byte
    BY <1>a, SMT DEF Byte
  <2>6. ((p \div 128) % 128) + 128 \in Byte
    BY <1>a, SMT DEF Byte
  <2>7. p < 65536 => (p \div 16384) % 128 = p \div 16384
    BY <1>a, SMT
  <2>8. p < 65536 => p \div 16384 \in Byte
    BY <1>a, SMT DEF Byte
  <2> QED BY <2>1, <2>2, <2>3, <2>4, <2>5, <2>6, <2>7, <2>8, SMT
<1>1. Varint(p) = [i \in 1..l |-> d(i)]
  BY SMT DEF Varint
<1>1a. l = IF p < 128 THEN 1 ELSE CHOOSE k \in 2..10 : Q(k)
  BY SMT DEF VarintLen
<1> HIDE DEF l, E
<1>2. l = IF p < 128 THEN 1 ELSE IF p < 16384 THEN 2 ELSE 3
  <2>1. CASE p < 128
    BY <1>1a, <2>1, SMT
  <2>2. CASE ~(p < 128) /\ p < 16384
    <3>1. Q(2)
      <4>1. \A j \in 1..(2 - 1) : j = 1
        BY SMT
      <4> QED BY <1>0, <1>b, <2>2, <4>1, SMT
    <3>2. \A k \in 2..10 : Q(k) => k = 2
      <4>1. \A k \in 2..10 : k = 2 \/ 2 \in 1..(k - 1)
        BY SMT
      <4>2. ~(p >= E(2))
        BY <1>0, <1>b, <2>2, SMT
      <4> QED BY <4>1, <4>2
    <3> HIDE DEF Q
    <3>4. l = 2
      BY <1>1a, <2>2, <3>1, <3>2, SMT
    <3> QED BY <2>2, <3>4, SMT
  <2>3. CASE ~(p < 16384)
    <3>1. Q(3)
      <4>1. \A j \in 1..(3 - 1) : j = 1 \/ j = 2
        BY SMT
      <4> QED BY <1>0, <1>b, <2>3, <4>1, SMT
    <3>2. \A k \in 2..10 : Q(k) => k = 3
      <4>1. \A k \in 2..10 : k = 2 \/ k = 3 \/ 3 \in 1..(k - 1)
        BY SMT
      <4>2. ~(p >= E(3)) /\ ~(p < E(2))
        BY <1>0, <1>b, <2>3, SMT
      <4> QED BY <4>1, <4>2
    <3>3. ~(p < 128)
      BY <1>b, <2>3, SMT
    <3> HIDE DEF Q
    <3>4. l = 3
      BY <1>1a, <3>1, <3>2, <3>3, SMT
    <3> QED BY <2>3, <3>3, <3>4, SMT
  <2> QED BY <2>1, <2>2, <2>3, SMT
<1>c. /\ d(1) = ((p \div 1) % 128) + (IF 1 < l THEN 128 ELSE 0)
      /\ l >= 2 => d(2) = ((p \div 128) % 128) + (IF 2 < l THEN 128 ELSE 0)
      /\ l >= 3 => d(3) = ((p \div 16384) % 128) + (IF 3 < l THEN 128 ELSE 0)
  <2> DEFINE sh == Shifted(p, 128, l)
  <2>1. l \in 1..3
    BY <1>2, SMT
  <2>2. sh[0] = p /\ \A n \in 1..l : sh[n] = sh[n - 1] \div 128
    <3>1. PICK b \in Bases : b = 128
      BY DEF Bases
    <3>2. Shifted(p, b, l)[0] = p /\ \A n \in 1..l : Shifted(p, b, l)[n] = Shifted(p, b, l)[n - 1] \div b
      <4>1. p \in Nat /\ l \in Nat
        BY <1>a, <2>1, SMT
      <4> QED BY <4>1, ShiftedIs, Zenon
    <3> QED BY <3>1, <3>2
  <2>3. /\ d(1) = (sh[0] % 128) + (IF 1 < l THEN 128 ELSE 0)
        /\ d(2) = (sh[1] % 128) + (IF 2 < l THEN 128 ELSE 0)
        /\ d(3) = (sh[2] % 128) + (IF 3 < l THEN 128 ELSE 0)
    <3> HIDE DEF sh
    <3>1. 1 - 1 = 0 /\ 2 - 1 = 1 /\ 3 - 1 = 2
      BY SMT
    <3> QED BY <3>1 DEF sh
  <2> HIDE DEF sh, d
  <2>4. l >= 2 => sh[1] = p \div 128
    <3>1. 1 - 1 = 0 /\ (l >= 2 => 1 \in 1..l)
      BY <2>1, SMT
    <3> QED BY <2>2, <3>1
  <2>5. l >= 3 => sh[2] = p \div 16384
    <3>1. 2 - 1 = 1 /\ (l >= 3 => 2 \in 1..l /\ l >= 2)
      BY <2>1, SMT
    <3>2. (p \div 128) \div 128 = p \div 16384
      BY <1>a, SMT
    <3> QED BY <2>2, <2>4, <3>1, <3>2
  <2> QED BY <1>d, <2>2, <2>3, <2>4, <2>5
<1> HIDE DEF d
<1>e. \A x \in Byte : x + 0 = x
  BY SMT DEF Byte
<1>3. CASE p < 128
  <2>1. l = 1
    BY <1>2, <1>3, SMT
  <2>2. d(1) = ((p \div 1) % 128) + 0
    BY <1>c, <2>1, SMT
  <2>3. d(1) = p /\ d(1) \in Byte
    BY <1>d, <1>e, <1>3, <2>2, SMT
  <2>4. Varint(p) \in Seq(Byte) /\ Len(Varint(p)) = 1 /\ Varint(p)[1] = d(1)
    BY <1>1, <2>1, <2>3, SMT
  <2> QED BY <1>3, <2>3, <2>4, SMT DEF VarintBytes, Encoded
<1>4. CASE ~(p < 128) /\ p < 16384
  <2>1. l = 2
    BY <1>2, <1>4, SMT
  <2>2. d(1) = ((p \div 1) % 128) + 128 /\ d(2) = ((p \div 128) % 128) + 0
    BY <1>c, <2>1, SMT
  <2>3. d(1) = (p % 128) + 128 /\ d(1) \in Byte /\ d(2) = p \div 128 /\ d(2) \in Byte
    BY <1>d, <1>e, <1>4, <2>2, SMT
  <2>4. Varint(p) \in Seq(Byte) /\ Len(Varint(p)) = 2 /\ Varint(p)[1] = d(1) /\ Varint(p)[2] = d(2)
    BY <1>1, <2>1, <2>3, SMT
  <2> QED BY <1>4, <2>3, <2>4, SMT DEF VarintBytes, Encoded
<1>5. CASE ~(p < 16384)
  <2>0. ~(p < 128)
    BY <1>b, <1>5, SMT
  <2>1. l = 3
    BY <1>2, <1>5, <2>0, SMT
  <2>2. /\ d(1) = ((p \div 1) % 128) + 128 /\ d(2) = ((p \div 128) % 128) + 128
        /\ d(3) = ((p \div 16384) % 128) + 0
    BY <1>c, <2>1, SMT
  <2>3. /\ d(1) = (p % 128) + 128 /\ d(1) \in Byte
        /\ d(2) = ((p \div 128) % 128) + 128 /\ d(2) \in Byte
        /\ d(3) = p \div 16384 /\ d(3) \in Byte
    BY <1>b, <1>d, <1>e, <2>2, SMT
  <2>4. /\ Varint(p) \in Seq(Byte) /\ Len(Varint(p)) = 3
        /\ Varint(p)[1] = d(1) /\ Varint(p)[2] = d(2) /\ Varint(p)[3] = d(3)
    BY <1>1, <2>1, <2>3, SMT
  <2> QED BY <1>5, <2>3, <2>4, SMT DEF VarintBytes, Encoded
<1> QED BY <1>3, <1>4, <1>5

\* What up to three bytes of a varint add up to.
LEMMA DigitsAddUp ==
    ASSUME NEW b \in Seq(Byte), NEW max \in Nat, NEW n \in Nat, n <= 3, EndsAt(b, max, n)
    PROVE  AddUpTo(b, n, Value(b, n))
<1> DEFINE q == Digits(b, n)
<1>0. \A i \in 1..n : b[i] \in Byte /\ q[i] = b[i] % 128
  <2>1. \A i \in 1..n : i \in 1..Len(b)
    BY DEF EndsAt
  <2>2. \A i \in 1..n : b[i] \in Byte
    BY <2>1
  <2> QED BY <2>2 DEF Digits
<1>a. q = [i \in 1..n |-> q[i]] /\ Value(b, n) = Number(q, 128)
  BY DEF Digits, Value
<1> HIDE DEF q
<1>1. ASSUME NEW i \in 1..n
      PROVE  IF i = n THEN b[i] \in 0..127 /\ q[i] = b[i]
                      ELSE b[i] \in 128..255 /\ q[i] = b[i] - 128
  <2>1. b[i] \in 0..255 /\ q[i] = b[i] % 128
    BY <1>0 DEF Byte
  <2>2. i = n \/ i \in 1..(n - 1)
    OBVIOUS
  <2>3. IF i = n THEN b[i] < 128 ELSE ~(b[i] < 128)
    BY <2>2 DEF EndsAt
  <2>4. PICK x \in 0..255 : x = b[i]
    BY <2>1
  <2>5. IF x < 128 THEN x \in 0..127 /\ x % 128 = x ELSE x \in 128..255 /\ x % 128 = x - 128
    BY SMT
  <2> QED BY <2>1, <2>3, <2>4, <2>5
<1>2. ASSUME NEW i \in 1..n PROVE q[i] \in Nat
  <2>1. PICK x \in Byte : x = b[i]
    BY <1>0
  <2>2. x % 128 \in Nat
    BY SMT DEF Byte
  <2> QED BY <1>0, <2>1, <2>2
<1>3. PICK c \in Nat : c = 128
  BY SMT
<1>4. CASE n = 1
  <2>0. 1 \in 1..n /\ 1 = n
    BY <1>4
  <2>1. b[1] \in 0..127 /\ q[1] = b[1]
    BY <1>1, <2>0
  <2>2. q[1] \in Nat
    BY <1>2, <2>0
  <2>3. q \in [1..1 -> Nat]
    BY <1>a, <1>4, <2>2
  <2>4. Number(q, c) = q[1]
    BY <2>3, NumberOf3, Zenon
  <2> QED BY <1>a, <1>3, <1>4, <2>1, <2>4 DEF AddUpTo, Summed
<1>5. CASE n = 2
  <2>0. 1 \in 1..n /\ 2 \in 1..n /\ 1 # n /\ 2 = n
    BY <1>5
  <2>1. b[1] \in 128..255 /\ q[1] = b[1] - 128 /\ b[2] \in 0..127 /\ q[2] = b[2]
    BY <1>1, <2>0
  <2>2. q[1] \in Nat /\ q[2] \in Nat
    BY <1>2, <2>0
  <2>3. q \in [1..2 -> Nat]
    BY <1>a, <1>5, <2>2
  <2>4. Number(q, c) = q[1] + c * q[2]
    BY <2>3, NumberOf3, Zenon
  <2>5. Value(b, n) = q[1] + (128 * q[2])
    BY <1>a, <1>3, <2>2, <2>4
  <2> QED BY <1>5, <2>1, <2>5 DEF AddUpTo, Summed
<1>6. CASE n = 3
  <2>0. 1 \in 1..n /\ 2 \in 1..n /\ 3 \in 1..n /\ 1 # n /\ 2 # n /\ 3 = n
    BY <1>6
  <2>1. /\ b[1] \in 128..255 /\ q[1] = b[1] - 128
        /\ b[2] \in 128..255 /\ q[2] = b[2] - 128
        /\ b[3] \in 0..127 /\ q[3] = b[3]
    BY <1>1, <2>0
  <2>2. q[1] \in Nat /\ q[2] \in Nat /\ q[3] \in Nat
    BY <1>2, <2>0
  <2>3. q \in [1..3 -> Nat]
    BY <1>a, <1>6, <2>2
  <2>4. Number(q, c) = q[1] + c * (q[2] + c * q[3])
    BY <2>3, NumberOf3, Zenon
  <2>5. Value(b, n) = q[1] + (128 * (q[2] + (128 * q[3])))
    BY <1>a, <1>3, <2>2, <2>4
  <2> QED BY <1>6, <2>1, <2>5 DEF AddUpTo, Summed
<1>7. n = 1 \/ n = 2 \/ n = 3
  BY DEF EndsAt
<1> QED BY <1>4, <1>5, <1>6, <1>7

\* Bytes that add up to a number are its varint, or more than its varint has.
LEMMA SummedIs ==
    ASSUME NEW p \in U16, NEW k, NEW y1, NEW y2, NEW y3, Encoded(p, k, y1, y2, y3),
           NEW n, NEW x1, NEW x2, NEW x3, Summed(n, x1, x2, x3, p)
    PROVE  k <= n /\ (k = n => x1 = y1 /\ (n >= 2 => x2 = y2) /\ (n >= 3 => x3 = y3))
<1>1. CASE n = 1 /\ x1 \in 0..127 /\ p = x1
  <2>1. k = 1 /\ y1 = p
    BY <1>1, SMT DEF Encoded
  <2> QED BY <1>1, <2>1, SMT
<1>2. CASE n = 2 /\ x1 \in 128..255 /\ x2 \in 0..127 /\ p = (x1 - 128) + (128 * x2)
  <2>1. p < 16384 /\ (p % 128) + 128 = x1 /\ p \div 128 = x2
    BY <1>2, SMT
  <2>2. k = 1 \/ (k = 2 /\ y1 = (p % 128) + 128 /\ y2 = p \div 128)
    BY <2>1, SMT DEF Encoded
  <2> QED BY <1>2, <2>1, <2>2, SMT
<1>3. CASE /\ n = 3 /\ x1 \in 128..255 /\ x2 \in 128..255 /\ x3 \in 0..127
           /\ p = (x1 - 128) + (128 * ((x2 - 128) + (128 * x3)))
  <2>1. (p % 128) + 128 = x1
    BY <1>3, SMT
  <2>2. ((p \div 128) % 128) + 128 = x2
    <3>1. p \div 128 = (x2 - 128) + (128 * x3)
      BY <1>3, SMT
    <3>2. (((x2 - 128) + (128 * x3)) % 128) + 128 = x2
      BY <1>3, SMT
    <3> QED BY <3>1, <3>2, SMT
  <2>3. p \div 16384 = x3
    BY <1>3, SMT
  <2>4. \/ k = 1 \/ k = 2
        \/ k = 3 /\ y1 = (p % 128) + 128 /\ y2 = ((p \div 128) % 128) + 128 /\ y3 = p \div 16384
    BY SMT DEF Encoded
  <2> QED BY <1>3, <2>1, <2>2, <2>3, <2>4, SMT
<1> QED BY <1>1, <1>2, <1>3 DEF Summed

\* The bytes of a varint add up to the number.
LEMMA EncodedSum ==
    ASSUME NEW p \in U16, NEW k, NEW y1, NEW y2, NEW y3, Encoded(p, k, y1, y2, y3),
           NEW x2, NEW x3, NEW v, Summed(k, y1, x2, x3, v),
           k = 2 => x2 = y2, k = 3 => x2 = y2 /\ x3 = y3
    PROVE  v = p
<1>0. PICK x \in Int : x = p /\ 0 <= x /\ x < 65536
  BY SMT DEF U16
<1>1. CASE p < 128 /\ k = 1 /\ y1 = p
  BY <1>1, SMT DEF Summed
<1>2. CASE ~(p < 128) /\ p < 16384 /\ k = 2 /\ y1 = (p % 128) + 128 /\ y2 = p \div 128
  <2>1. y1 = (x % 128) + 128 /\ y2 = x \div 128 /\ x < 16384
    BY <1>0, <1>2, SMT
  <2>2. (((x % 128) + 128) - 128) + (128 * (x \div 128)) = x
    BY SMT
  <2>3. v = (y1 - 128) + (128 * y2)
    BY <1>2, SMT DEF Summed
  <2> QED BY <1>0, <2>1, <2>2, <2>3, SMT
<1>3. CASE /\ ~(p < 16384) /\ k = 3
           /\ y1 = (p % 128) + 128 /\ y2 = ((p \div 128) % 128) + 128 /\ y3 = p \div 16384
  <2>1. y1 = (x % 128) + 128 /\ y2 = ((x \div 128) % 128) + 128 /\ y3 = x \div 16384
    BY <1>0, <1>3, SMT
  <2>2. (((x % 128) + 128) - 128) + (128 * (((((x \div 128) % 128) + 128) - 128) + (128 * (x \div 16384)))) = x
    BY SMT
  <2>3. v = (y1 - 128) + (128 * ((y2 - 128) + (128 * y3)))
    BY <1>3, SMT DEF Summed
  <2> QED BY <1>0, <2>1, <2>2, <2>3, SMT
<1> QED BY <1>1, <1>2, <1>3 DEF Encoded

\* Only the last byte of a varint has no mark.
Marked(k, y1, y2, y3) ==
    \/ k = 1 /\ y1 < 128
    \/ k = 2 /\ ~(y1 < 128) /\ y2 < 128
    \/ k = 3 /\ ~(y1 < 128) /\ ~(y2 < 128) /\ y3 < 128
\* The marks on the bytes of a varint are where its length says.
LEMMA EncodedMarks ==
    ASSUME NEW p \in U16, NEW k, NEW y1, NEW y2, NEW y3, Encoded(p, k, y1, y2, y3)
    PROVE  Marked(k, y1, y2, y3)
<1>0. PICK x \in Int : x = p /\ 0 <= x /\ x < 65536
  BY SMT DEF U16
<1>1. CASE p < 128 /\ k = 1 /\ y1 = p
  BY <1>1, SMT DEF Marked
<1>2. CASE ~(p < 128) /\ p < 16384 /\ k = 2 /\ y1 = (p % 128) + 128 /\ y2 = p \div 128
  <2>1. y1 = (x % 128) + 128 /\ y2 = x \div 128 /\ x < 16384
    BY <1>0, <1>2, SMT
  <2>2. ~(y1 < 128) /\ y2 < 128
    BY <1>0, <2>1, SMT
  <2> QED BY <1>2, <2>2, SMT DEF Marked
<1>3. CASE /\ ~(p < 16384) /\ k = 3
           /\ y1 = (p % 128) + 128 /\ y2 = ((p \div 128) % 128) + 128 /\ y3 = p \div 16384
  <2>1. y1 = (x % 128) + 128 /\ y2 = ((x \div 128) % 128) + 128 /\ y3 = x \div 16384
    BY <1>0, <1>3, SMT
  <2>2. ~(y1 < 128) /\ ~(y2 < 128) /\ y3 < 128
    BY <1>0, <2>1, SMT
  <2> QED BY <1>3, <2>2, SMT DEF Marked
<1> QED BY <1>1, <1>2, <1>3 DEF Encoded

\* A number of at most 16 bits is read back from its varint, whatever follows.
LEMMA VarintReadBack ==
    ASSUME NEW p \in U16, NEW r \in Seq(Byte), NEW max \in Nat, max >= 3
    PROVE  /\ Varint(p) \in Seq(Byte) /\ Len(Varint(p)) \in 1..3
           /\ TakeVarint(Varint(p) \o r, max) = Took(p, r)
<1> DEFINE w == Varint(p)
           b == w \o r
           n == Len(w)
<1>1. w \in Seq(Byte) /\ Encoded(p, n, w[1], w[2], w[3])
  BY VarintIs DEF VarintBytes
<1> HIDE DEF w
<1>2. Marked(n, w[1], w[2], w[3])
  BY <1>1, EncodedMarks
<1>3. n = 1 \/ n = 2 \/ n = 3
  BY <1>2 DEF Marked
<1>4. /\ b \in Seq(Byte) /\ Len(b) = n + Len(r) /\ Len(r) \in Nat
      /\ \A i \in 1..(n + Len(r)) : b[i] = IF i <= n THEN w[i] ELSE r[i - n]
  BY <1>1, ConcatProperties
<1>5. Drop(b, n) = r
  BY <1>1, SplitConcat
<1> HIDE DEF b, n
<1>6. \A i \in 1..n : b[i] = w[i]
  <2>1. \A i \in 1..n : i \in 1..(n + Len(r)) /\ i <= n
    BY <1>3, <1>4
  <2> QED BY <1>4, <2>1
<1>7. n \in Nat /\ n <= 3 /\ n \in 1..Len(b) /\ n <= max
  BY <1>3, <1>4
<1>8. /\ b[1] = w[1] /\ (n = 2 => b[2] = w[2]) /\ (n = 3 => b[2] = w[2] /\ b[3] = w[3])
  BY <1>3, <1>6
<1>9. b[n] < 128 /\ \A i \in 1..(n - 1) : ~(b[i] < 128)
  <2>1. CASE n = 1
    BY <1>2, <1>8, <2>1 DEF Marked
  <2>2. CASE n = 2
    <3>1. \A i \in 1..(n - 1) : i = 1
      BY <2>2
    <3> QED BY <1>2, <1>8, <2>2, <3>1 DEF Marked
  <2>3. CASE n = 3
    <3>1. \A i \in 1..(n - 1) : i = 1 \/ i = 2
      BY <2>3
    <3> QED BY <1>2, <1>8, <2>3, <3>1 DEF Marked
  <2> QED BY <1>3, <2>1, <2>2, <2>3
<1>10. EndsAt(b, max, n)
  BY <1>7, <1>9 DEF EndsAt
<1>11. AddUpTo(b, n, Value(b, n))
  BY <1>4, <1>7, <1>10, DigitsAddUp
<1>12. Value(b, n) = p
  <2>1. Summed(n, w[1], b[2], b[3], Value(b, n))
    BY <1>8, <1>11 DEF AddUpTo
  <2>2. (n = 2 => b[2] = w[2]) /\ (n = 3 => b[2] = w[2] /\ b[3] = w[3])
    BY <1>8
  <2>3. \A x2, x3, v : /\ Summed(n, w[1], x2, x3, v)
                        /\ (n = 2 => x2 = w[2]) /\ (n = 3 => x2 = w[2] /\ x3 = w[3])
                        => v = p
    BY <1>1, EncodedSum
  <2> QED BY <2>1, <2>2, <2>3, Zenon
<1>13. TakeVarint(b, max) = Took(Value(b, n), Drop(b, n))
  BY <1>4, <1>10, TakeVarintIs
<1> QED BY <1>1, <1>3, <1>5, <1>12, <1>13 DEF b, w, n

\* Bytes that are taken for a number of at most 16 bits are its varint, or
\* there are more of them.
LEMMA VarintIsShortest ==
    ASSUME NEW b \in Seq(Byte), NEW max \in Nat, NEW p \in U16, NEW rest,
           TakeVarint(b, max) = Took(p, rest)
    PROVE  /\ rest \in Seq(Byte) /\ Len(Varint(p)) + Len(rest) <= Len(b)
           /\ Len(Varint(p)) + Len(rest) = Len(b) => b = Varint(p) \o rest
<1>1. PICK n : EndsAt(b, max, n)
  BY TakeVarintIs, TookIs
<1>2. p = Value(b, n) /\ rest = Drop(b, n)
  BY <1>1, TakeVarintIs, TookIs
<1>3. n \in 1..Len(b) /\ Len(b) \in Nat
  BY <1>1 DEF EndsAt
<1> DEFINE w == Varint(p)
           x == SubSeq(b, 1, n)
<1>4. /\ x \in Seq(Byte) /\ Len(x) = n /\ \A i \in 1..n : x[i] = b[i]
      /\ rest \in Seq(Byte) /\ Len(rest) = Len(b) - n
      /\ b = x \o rest
  <2>1. n \in 0..Len(b)
    BY <1>3
  <2>2. /\ x \in Seq(Byte) /\ Len(x) = n /\ \A i \in 1..n : x[i] = b[i]
        /\ Drop(b, n) \in Seq(Byte) /\ Len(Drop(b, n)) = Len(b) - n
        /\ b = x \o Drop(b, n)
    BY <2>1, SplitAt
  <2> HIDE DEF x
  <2> QED BY <1>2, <2>2
<1>5. w \in Seq(Byte) /\ Encoded(p, Len(w), w[1], w[2], w[3])
  BY VarintIs DEF VarintBytes
<1> HIDE DEF x, w
<1>6. Len(w) = 1 \/ Len(w) = 2 \/ Len(w) = 3
  BY <1>5, EncodedMarks DEF Marked
<1>7. Len(w) <= n /\ (Len(w) = n => \A i \in 1..n : b[i] = w[i])
  <2>1. CASE n <= 3
    <3>1. Summed(n, b[1], b[2], b[3], p)
      <4>1. n \in Nat
        BY <1>3
      <4> QED BY <1>1, <1>2, <2>1, <4>1, DigitsAddUp DEF AddUpTo
    <3>2. /\ Len(w) <= n
          /\ Len(w) = n => b[1] = w[1] /\ (n >= 2 => b[2] = w[2]) /\ (n >= 3 => b[3] = w[3])
      BY <1>5, <3>1, SummedIs
    <3>3. ASSUME Len(w) = n, NEW i \in 1..n PROVE b[i] = w[i]
      <4>1. i = 1 \/ (i = 2 /\ n >= 2) \/ (i = 3 /\ n >= 3)
        BY <1>6, <3>3
      <4> QED BY <3>2, <3>3, <4>1
    <3> QED BY <3>2, <3>3
  <2>2. CASE ~(n <= 3)
    <3>1. n \in Nat /\ n # 1 /\ n # 2 /\ n # 3 /\ 1 <= n /\ 2 <= n /\ 3 <= n
      BY <1>3, <2>2
    <3> QED BY <1>6, <3>1
  <2> QED BY <2>1, <2>2
<1>8. Len(w) + Len(rest) <= Len(b)
  BY <1>3, <1>4, <1>6, <1>7
<1>9. ASSUME Len(w) + Len(rest) = Len(b) PROVE b = w \o rest
  <2>1. Len(w) = n
    BY <1>3, <1>4, <1>6, <1>9
  <2>2. x = w
    <3>1. \A i \in 1..Len(x) : x[i] = w[i]
      BY <1>4, <1>7, <2>1
    <3> QED BY <1>4, <1>5, <2>1, <3>1, SeqEqual
  <2> QED BY <1>4, <2>2
<1> QED BY <1>4, <1>8, <1>9 DEF w

(***************************************************************************)
(* The verdicts.                                                           *)
(***************************************************************************)

\* Who can listen.
ListenerOK ==
    \/ listener = None
    \/ \E i \in ProviderIds : listener = [kind |-> "provider", id |-> i, addr |-> Providers[i].addr]
    \/ \E o \in OtherServers : listener = [kind |-> "other", id |-> o, addr |-> o.addr]

\* A listener is a provider or another server, as its kind says.
LEMMA ListenerIs ==
    ASSUME ListenerOK
    PROVE  /\ listener.kind = "provider" =>
                /\ listener # None /\ listener.id \in ProviderIds /\ listener.addr = Own.addr
                /\ Own = Providers[listener.id]
           /\ listener.kind = "other" => listener # None /\ listener.id \in OtherServers
           /\ listener # None => listener.kind \in {"provider", "other"}
           /\ listener = None => listener.kind = "none"
<1> None.kind = "none"
  BY DEF None
<1>1. ASSUME NEW i \in ProviderIds, listener = [kind |-> "provider", id |-> i, addr |-> Providers[i].addr]
      PROVE  listener.kind = "provider" /\ listener.id = i /\ listener.addr = Providers[i].addr
  BY <1>1
<1>2. ASSUME NEW o \in OtherServers, listener = [kind |-> "other", id |-> o, addr |-> o.addr]
      PROVE  listener.kind = "other" /\ listener.id = o
  BY <1>2
<1>3. "none" # "provider" /\ "none" # "other" /\ "provider" # "other"
  OBVIOUS
<1> QED BY <1>1, <1>2, <1>3 DEF ListenerOK, Own

\* Who listens changes only by Listen, ListenOther and StopListening.
LEMMA ListenerStep ==
    ASSUME ListenerOK, [Next]_vars
    PROVE  ListenerOK'
<1>1. ASSUME NEW i \in ProviderIds, Listen(i) PROVE ListenerOK'
  BY <1>1 DEF Listen, ListenerOK
<1>2. ASSUME NEW o \in OtherServers, ListenOther(o) PROVE ListenerOK'
  BY <1>2 DEF ListenOther, ListenerOK
<1>3. CASE StopListening
  BY <1>3 DEF StopListening, ListenerOK
<1>4. CASE listener' = listener
  <2>1. Providers' = Providers /\ None' = None
    BY DEF None
  <2> QED BY <1>4 DEF ListenerOK
<1>5. listener' = listener \/ StopListening \/ (\E i \in ProviderIds : Listen(i))
        \/ \E o \in OtherServers : ListenOther(o)
  BY DEF Next, vars, sessionVars, Issue, Damage, ParseText, Connect, NoConnection, OtherClient, Read,
         HandshakeRead, RequestRead, ResponseRead, ReadEnds, OnlyFrames
<1> QED BY <1>1, <1>2, <1>3, <1>4, <1>5

\* What a build of this program presents is a chain.
LEMMA GeneratedChain ==
    ASSUME NEW identity, NEW certKey
    PROVE  IsChain(<<Generate(identity, certKey)>>)
<1> DEFINE ext == Extension(TRUE, "ok", identity, identity, <<"P256", certKey>>)
           c == Generate(identity, certKey)
           chain == <<c>>
<1>1. ext.critical = TRUE /\ ext.form = "ok"
  BY DEF Extension
<1>2. c.der = TRUE /\ c.valid = TRUE /\ c.exts = <<ext>>
  BY DEF Generate
<1> HIDE DEF ext, c
<1>3. IsSeq(<<ext>>) /\ DOMAIN <<ext>> = {1} /\ <<ext>>[1] = ext
  BY DEF IsSeq
<1>4. IsSeq(chain) /\ DOMAIN chain = {1} /\ chain[1] = c
  BY DEF IsSeq
<1> HIDE DEF chain
<1>5. IsChain(chain)
  BY <1>1, <1>2, <1>3, <1>4 DEF IsChain
<1> QED BY <1>5 DEF chain, c

\* Whoever listens presents a chain.
LEMMA ChainOfListener ==
    ASSUME ListenerOK, listener # None
    PROVE  IsChain(Chain)
<1>1. CASE listener.kind = "provider"
  BY <1>1, GeneratedChain DEF Chain
<1>2. CASE listener.kind = "other"
  BY <1>2, ListenerIs, SessionAssumption DEF Chain
<1> QED BY <1>1, <1>2, ListenerIs

\* The verdicts on certificates are those of the specification that the code
\* follows, on the getter's side and on the provider's, whatever certificates
\* the other side presents (VerifyServerCert, VerifyClientCert).
THEOREM SessionVerdictsExact == Spec => []VerdictsExact
<1> DEFINE VerdictsInv == ListenerOK /\ VerdictsExact
<1>1. Init => VerdictsInv
  BY DEF Init, ListenerOK, VerdictsExact, None
<1>2. VerdictsInv /\ [Next]_vars => VerdictsInv'
  <2> SUFFICES ASSUME ListenerOK, VerdictsExact, [Next]_vars PROVE VerdictsExact'
    BY ListenerStep
  <2>1. CASE tls' = tls
    BY <2>1 DEF VerdictsExact
  <2>2. CASE Connect
    <3>1. IsChain(Chain)
      BY <2>2, ChainOfListener DEF Connect, Reachable
    <3>2. ServerVerified(Chain, Dss, parsed.peer) <=> Proves(Chain, Dss, parsed.peer)
      BY <3>1, VerifiedIs
    <3> DEFINE ok == ServerVerified(Chain, Dss, parsed.peer)
    <3>3. tls' = [kind |-> "server", chain |-> Chain, dss |-> Dss, peer |-> parsed.peer, ok |-> ok]
      BY <2>2 DEF Connect
    <3> HIDE DEF ok
    <3>4. tls'.kind = "server" /\ tls'.chain = Chain /\ tls'.dss = Dss /\ tls'.peer = parsed.peer
          /\ tls'.ok = ok
      BY <3>3
    <3>5. "server" # "client"
      OBVIOUS
    <3> QED BY <3>2, <3>4, <3>5, Zenon DEF VerdictsExact, ok
  <2>3. ASSUME NEW c \in OtherClients, NEW n \in Cuts, OtherClient(c, n) PROVE VerdictsExact'
    <3>1. IsChain(c.chain)
      BY SessionAssumption
    <3> DEFINE ok == ClientVerified(c.chain, c.dss)
    <3>2. tls' = [kind |-> "client", chain |-> c.chain, dss |-> c.dss, ok |-> ok]
      BY <2>3 DEF OtherClient
    <3>3. ok <=> \E i \in DOMAIN c.chain : \E e \in DOMAIN c.chain[i].exts :
                    Proves(c.chain, c.dss, c.chain[i].exts[e].host)
      BY <3>1, VerifiedIs
    <3> HIDE DEF ok
    <3>4. tls'.kind = "client" /\ tls'.chain = c.chain /\ tls'.dss = c.dss /\ tls'.ok = ok
      BY <3>2
    <3>5. "server" # "client"
      OBVIOUS
    <3> QED BY <3>3, <3>4, <3>5, Zenon DEF VerdictsExact
  <2>4. tls' = tls \/ Connect \/ \E c \in OtherClients, n \in Cuts : OtherClient(c, n)
    BY DEF Next, vars, sessionVars, Listen, ListenOther, StopListening, Issue, Damage, ParseText,
           NoConnection, Read, HandshakeRead, RequestRead, ResponseRead, ReadEnds, OnlyFrames
  <2> QED BY <2>1, <2>2, <2>3, <2>4
<1> QED BY <1>1, <1>2, PTL DEF Spec

(***************************************************************************)
(* Bytes and symbols are groups of bits.                                   *)
(***************************************************************************)

\* The bit of x, a group of v bits, that has r others above it.
BitOf(x, v, r) == (x \div 2^(v - 1 - r)) % 2
SymbolOf(v) == 0..(2^v - 1)
ZeroOne == {0, 1}

\* Five bits give a number that has these bits.
LEMMA FiveBits ==
    ASSUME NEW x1 \in {0, 1}, NEW x2 \in {0, 1}, NEW x3 \in {0, 1}, NEW x4 \in {0, 1}, NEW
           x5 \in {0, 1},
           NEW y, y = x1 + 2 * (x2 + 2 * (x3 + 2 * (x4 + 2 * x5)))
    PROVE  /\ y \in 0..31 /\ (y \div 1) % 2 = x1 /\ (y \div 2) % 2 = x2
           /\ (y \div 4) % 2 = x3 /\ (y \div 8) % 2 = x4 /\ (y \div 16) % 2 = x5
  BY SMT

\* Six bits give a number that has these bits.
LEMMA SixBits ==
    ASSUME NEW x1 \in {0, 1}, NEW x2 \in {0, 1}, NEW x3 \in {0, 1}, NEW x4 \in {0, 1}, NEW
           x5 \in {0, 1}, NEW x6 \in {0, 1},
           NEW y, y = x1 + 2 * (x2 + 2 * (x3 + 2 * (x4 + 2 * (x5 + 2 * x6))))
    PROVE  /\ y \in 0..63 /\ (y \div 1) % 2 = x1 /\ (y \div 2) % 2 = x2
           /\ (y \div 4) % 2 = x3 /\ (y \div 8) % 2 = x4 /\ (y \div 16) % 2 = x5
           /\ (y \div 32) % 2 = x6
  BY SMT

\* Eight bits give a number that has these bits.
LEMMA EightBits ==
    ASSUME NEW x1 \in {0, 1}, NEW x2 \in {0, 1}, NEW x3 \in {0, 1}, NEW x4 \in {0, 1}, NEW
           x5 \in {0, 1}, NEW x6 \in {0, 1}, NEW x7 \in {0, 1}, NEW x8 \in {0, 1},
           NEW y, y = x1 + 2 * (x2 + 2 * (x3 + 2 * (x4 + 2 * (x5 + 2 * (x6 + 2 * (x7 + 2 * x8))))))
    PROVE  /\ y \in 0..255 /\ (y \div 1) % 2 = x1 /\ (y \div 2) % 2 = x2
           /\ (y \div 4) % 2 = x3 /\ (y \div 8) % 2 = x4 /\ (y \div 16) % 2 = x5
           /\ (y \div 32) % 2 = x6 /\ (y \div 64) % 2 = x7 /\ (y \div 128) % 2 = x8
  BY SMT

\* A number has the bits it is made of.
LEMMA BitsOfNumber ==
    ASSUME NEW v \in {5, 6, 8}, NEW q \in [1..v -> ZeroOne]
    PROVE  /\ Number(q, 2) \in SymbolOf(v)
           /\ \A i \in 1..v : BitOf(Number(q, 2), v, v - i) = q[i]
<1> DEFINE y == Number(q, 2)
<1>1. CASE v = 5
  <2>1. q \in [1..5 -> ZeroOne]
    BY <1>1
  <2>2. y = q[1] + 2 * (q[2] + 2 * (q[3] + 2 * (q[4] + 2 * q[5])))
    BY <2>1, NumberOfBits DEF ZeroOne
  <2> HIDE DEF y
  <2>m. \A i \in 1..5 : q[i] \in ZeroOne
    BY <2>1, Zenon
  <2>n1. 1 \in 1..5
    BY SMT
  <2>n2. 2 \in 1..5
    BY SMT
  <2>n3. 3 \in 1..5
    BY SMT
  <2>n4. 4 \in 1..5
    BY SMT
  <2>n5. 5 \in 1..5
    BY SMT
  <2>m1. q[1] \in ZeroOne
    BY <2>m, <2>n1, Zenon
  <2>m2. q[2] \in ZeroOne
    BY <2>m, <2>n2, Zenon
  <2>m3. q[3] \in ZeroOne
    BY <2>m, <2>n3, Zenon
  <2>m4. q[4] \in ZeroOne
    BY <2>m, <2>n4, Zenon
  <2>m5. q[5] \in ZeroOne
    BY <2>m, <2>n5, Zenon
  <2>x1. PICK x1 \in ZeroOne : x1 = q[1]
    BY <2>m1, Zenon
  <2>x2. PICK x2 \in ZeroOne : x2 = q[2]
    BY <2>m2, Zenon
  <2>x3. PICK x3 \in ZeroOne : x3 = q[3]
    BY <2>m3, Zenon
  <2>x4. PICK x4 \in ZeroOne : x4 = q[4]
    BY <2>m4, Zenon
  <2>x5. PICK x5 \in ZeroOne : x5 = q[5]
    BY <2>m5, Zenon
  <2>3. y = x1 + 2 * (x2 + 2 * (x3 + 2 * (x4 + 2 * x5)))
    BY <2>2, <2>x1, <2>x2, <2>x3, <2>x4, <2>x5
  <2>4. /\ y \in 0..31 /\ (y \div 1) % 2 = x1 /\ (y \div 2) % 2 = x2
        /\ (y \div 4) % 2 = x3 /\ (y \div 8) % 2 = x4 /\ (y \div 16) % 2 = x5
    BY <2>3, SMT DEF ZeroOne
  <2>5. /\ BitOf(y, 5, 5 - 1) = x1 /\ BitOf(y, 5, 5 - 2) = x2 /\ BitOf(y, 5, 5 - 3) = x3
        /\ BitOf(y, 5, 5 - 4) = x4 /\ BitOf(y, 5, 5 - 5) = x5
    <3>1. 5 - 1 - (5 - 1) = 0 /\ 2^0 = 1
      BY SMT
    <3>2. 5 - 1 - (5 - 2) = 1 /\ 2^1 = 2
      BY SMT
    <3>3. 5 - 1 - (5 - 3) = 2 /\ 2^2 = 4
      BY SMT
    <3>4. 5 - 1 - (5 - 4) = 3 /\ 2^3 = 8
      BY SMT
    <3>5. 5 - 1 - (5 - 5) = 4 /\ 2^4 = 16
      BY SMT
    <3> QED BY <2>4, <3>1, <3>2, <3>3, <3>4, <3>5 DEF BitOf
  <2>6. \A i \in 1..5 : i = 1 \/ i = 2 \/ i = 3 \/ i = 4 \/ i = 5
    BY SMT
  <2>7. \A i \in 1..5 : BitOf(y, 5, 5 - i) = q[i]
    BY <2>5, <2>6, <2>x1, <2>x2, <2>x3, <2>x4, <2>x5, Zenon
  <2>8. y \in SymbolOf(5)
    <3>1. 2^5 - 1 = 31
      BY SMT
    <3> QED BY <2>4, <3>1 DEF SymbolOf
  <2> QED BY <1>1, <2>7, <2>8 DEF y
<1>2. CASE v = 6
  <2>1. q \in [1..6 -> ZeroOne]
    BY <1>2
  <2>2. y = q[1] + 2 * (q[2] + 2 * (q[3] + 2 * (q[4] + 2 * (q[5] + 2 * q[6]))))
    BY <2>1, NumberOfBits DEF ZeroOne
  <2> HIDE DEF y
  <2>m. \A i \in 1..6 : q[i] \in ZeroOne
    BY <2>1, Zenon
  <2>n1. 1 \in 1..6
    BY SMT
  <2>n2. 2 \in 1..6
    BY SMT
  <2>n3. 3 \in 1..6
    BY SMT
  <2>n4. 4 \in 1..6
    BY SMT
  <2>n5. 5 \in 1..6
    BY SMT
  <2>n6. 6 \in 1..6
    BY SMT
  <2>m1. q[1] \in ZeroOne
    BY <2>m, <2>n1, Zenon
  <2>m2. q[2] \in ZeroOne
    BY <2>m, <2>n2, Zenon
  <2>m3. q[3] \in ZeroOne
    BY <2>m, <2>n3, Zenon
  <2>m4. q[4] \in ZeroOne
    BY <2>m, <2>n4, Zenon
  <2>m5. q[5] \in ZeroOne
    BY <2>m, <2>n5, Zenon
  <2>m6. q[6] \in ZeroOne
    BY <2>m, <2>n6, Zenon
  <2>x1. PICK x1 \in ZeroOne : x1 = q[1]
    BY <2>m1, Zenon
  <2>x2. PICK x2 \in ZeroOne : x2 = q[2]
    BY <2>m2, Zenon
  <2>x3. PICK x3 \in ZeroOne : x3 = q[3]
    BY <2>m3, Zenon
  <2>x4. PICK x4 \in ZeroOne : x4 = q[4]
    BY <2>m4, Zenon
  <2>x5. PICK x5 \in ZeroOne : x5 = q[5]
    BY <2>m5, Zenon
  <2>x6. PICK x6 \in ZeroOne : x6 = q[6]
    BY <2>m6, Zenon
  <2>3. y = x1 + 2 * (x2 + 2 * (x3 + 2 * (x4 + 2 * (x5 + 2 * x6))))
    BY <2>2, <2>x1, <2>x2, <2>x3, <2>x4, <2>x5, <2>x6
  <2>4. /\ y \in 0..63 /\ (y \div 1) % 2 = x1 /\ (y \div 2) % 2 = x2
        /\ (y \div 4) % 2 = x3 /\ (y \div 8) % 2 = x4 /\ (y \div 16) % 2 = x5
        /\ (y \div 32) % 2 = x6
    BY <2>3, SMT DEF ZeroOne
  <2>5. /\ BitOf(y, 6, 6 - 1) = x1 /\ BitOf(y, 6, 6 - 2) = x2 /\ BitOf(y, 6, 6 - 3) = x3
        /\ BitOf(y, 6, 6 - 4) = x4 /\ BitOf(y, 6, 6 - 5) = x5 /\ BitOf(y, 6, 6 - 6) = x6
    <3>1. 6 - 1 - (6 - 1) = 0 /\ 2^0 = 1
      BY SMT
    <3>2. 6 - 1 - (6 - 2) = 1 /\ 2^1 = 2
      BY SMT
    <3>3. 6 - 1 - (6 - 3) = 2 /\ 2^2 = 4
      BY SMT
    <3>4. 6 - 1 - (6 - 4) = 3 /\ 2^3 = 8
      BY SMT
    <3>5. 6 - 1 - (6 - 5) = 4 /\ 2^4 = 16
      BY SMT
    <3>6. 6 - 1 - (6 - 6) = 5 /\ 2^5 = 32
      BY SMT
    <3> QED BY <2>4, <3>1, <3>2, <3>3, <3>4, <3>5, <3>6 DEF BitOf
  <2>6. \A i \in 1..6 : i = 1 \/ i = 2 \/ i = 3 \/ i = 4 \/ i = 5 \/ i = 6
    BY SMT
  <2>7. \A i \in 1..6 : BitOf(y, 6, 6 - i) = q[i]
    BY <2>5, <2>6, <2>x1, <2>x2, <2>x3, <2>x4, <2>x5, <2>x6, Zenon
  <2>8. y \in SymbolOf(6)
    <3>1. 2^6 - 1 = 63
      BY SMT
    <3> QED BY <2>4, <3>1 DEF SymbolOf
  <2> QED BY <1>2, <2>7, <2>8 DEF y
<1>3. CASE v = 8
  <2>1. q \in [1..8 -> ZeroOne]
    BY <1>3
  <2>2. y = q[1] + 2 * (q[2] + 2 * (q[3] + 2 * (q[4] + 2 * (q[5] + 2 * (q[6] + 2 * (q[7] + 2 * q[8]))))))
    BY <2>1, NumberOfBits DEF ZeroOne
  <2> HIDE DEF y
  <2>m. \A i \in 1..8 : q[i] \in ZeroOne
    BY <2>1, Zenon
  <2>n1. 1 \in 1..8
    BY SMT
  <2>n2. 2 \in 1..8
    BY SMT
  <2>n3. 3 \in 1..8
    BY SMT
  <2>n4. 4 \in 1..8
    BY SMT
  <2>n5. 5 \in 1..8
    BY SMT
  <2>n6. 6 \in 1..8
    BY SMT
  <2>n7. 7 \in 1..8
    BY SMT
  <2>n8. 8 \in 1..8
    BY SMT
  <2>m1. q[1] \in ZeroOne
    BY <2>m, <2>n1, Zenon
  <2>m2. q[2] \in ZeroOne
    BY <2>m, <2>n2, Zenon
  <2>m3. q[3] \in ZeroOne
    BY <2>m, <2>n3, Zenon
  <2>m4. q[4] \in ZeroOne
    BY <2>m, <2>n4, Zenon
  <2>m5. q[5] \in ZeroOne
    BY <2>m, <2>n5, Zenon
  <2>m6. q[6] \in ZeroOne
    BY <2>m, <2>n6, Zenon
  <2>m7. q[7] \in ZeroOne
    BY <2>m, <2>n7, Zenon
  <2>m8. q[8] \in ZeroOne
    BY <2>m, <2>n8, Zenon
  <2>x1. PICK x1 \in ZeroOne : x1 = q[1]
    BY <2>m1, Zenon
  <2>x2. PICK x2 \in ZeroOne : x2 = q[2]
    BY <2>m2, Zenon
  <2>x3. PICK x3 \in ZeroOne : x3 = q[3]
    BY <2>m3, Zenon
  <2>x4. PICK x4 \in ZeroOne : x4 = q[4]
    BY <2>m4, Zenon
  <2>x5. PICK x5 \in ZeroOne : x5 = q[5]
    BY <2>m5, Zenon
  <2>x6. PICK x6 \in ZeroOne : x6 = q[6]
    BY <2>m6, Zenon
  <2>x7. PICK x7 \in ZeroOne : x7 = q[7]
    BY <2>m7, Zenon
  <2>x8. PICK x8 \in ZeroOne : x8 = q[8]
    BY <2>m8, Zenon
  <2>3. y = x1 + 2 * (x2 + 2 * (x3 + 2 * (x4 + 2 * (x5 + 2 * (x6 + 2 * (x7 + 2 * x8))))))
    BY <2>2, <2>x1, <2>x2, <2>x3, <2>x4, <2>x5, <2>x6, <2>x7, <2>x8
  <2>4. /\ y \in 0..255 /\ (y \div 1) % 2 = x1 /\ (y \div 2) % 2 = x2
        /\ (y \div 4) % 2 = x3 /\ (y \div 8) % 2 = x4 /\ (y \div 16) % 2 = x5
        /\ (y \div 32) % 2 = x6 /\ (y \div 64) % 2 = x7 /\ (y \div 128) % 2 = x8
    BY <2>3, SMT DEF ZeroOne
  <2>5. /\ BitOf(y, 8, 8 - 1) = x1 /\ BitOf(y, 8, 8 - 2) = x2 /\ BitOf(y, 8, 8 - 3) = x3
        /\ BitOf(y, 8, 8 - 4) = x4 /\ BitOf(y, 8, 8 - 5) = x5 /\ BitOf(y, 8, 8 - 6) = x6
        /\ BitOf(y, 8, 8 - 7) = x7 /\ BitOf(y, 8, 8 - 8) = x8
    <3>1. 8 - 1 - (8 - 1) = 0 /\ 2^0 = 1
      BY SMT
    <3>2. 8 - 1 - (8 - 2) = 1 /\ 2^1 = 2
      BY SMT
    <3>3. 8 - 1 - (8 - 3) = 2 /\ 2^2 = 4
      BY SMT
    <3>4. 8 - 1 - (8 - 4) = 3 /\ 2^3 = 8
      BY SMT
    <3>5. 8 - 1 - (8 - 5) = 4 /\ 2^4 = 16
      BY SMT
    <3>6. 8 - 1 - (8 - 6) = 5 /\ 2^5 = 32
      BY SMT
    <3>7. 8 - 1 - (8 - 7) = 6 /\ 2^6 = 64
      BY SMT
    <3>8. 8 - 1 - (8 - 8) = 7 /\ 2^7 = 128
      BY SMT
    <3> QED BY <2>4, <3>1, <3>2, <3>3, <3>4, <3>5, <3>6, <3>7, <3>8 DEF BitOf
  <2>6. \A i \in 1..8 : i = 1 \/ i = 2 \/ i = 3 \/ i = 4 \/ i = 5 \/ i = 6 \/ i = 7 \/ i = 8
    BY SMT
  <2>7. \A i \in 1..8 : BitOf(y, 8, 8 - i) = q[i]
    BY <2>5, <2>6, <2>x1, <2>x2, <2>x3, <2>x4, <2>x5, <2>x6, <2>x7, <2>x8, Zenon
  <2>8. y \in SymbolOf(8)
    <3>1. 2^8 - 1 = 255
      BY SMT
    <3> QED BY <2>4, <3>1 DEF SymbolOf
  <2> QED BY <1>3, <2>7, <2>8 DEF y
<1> QED BY <1>1, <1>2, <1>3

Widths == {5, 6, 8}

\* Powers of two that shift a group's bits.
LEMMA Shifts ==
    ASSUME NEW v \in Widths, NEW r \in 0..(v - 1)
    PROVE  2^(v - 1 - r) \in Nat \ {0}
<1>0. \A e \in 0..7 : e = 0 \/ e = 1 \/ e = 2 \/ e = 3 \/ e = 4 \/ e = 5 \/ e = 6 \/ e = 7
  BY SMT
<1>e0. 2^0 \in Nat \ {0}
  BY SMT
<1>e1. 2^1 \in Nat \ {0}
  BY SMT
<1>e2. 2^2 \in Nat \ {0}
  BY SMT
<1>e3. 2^3 \in Nat \ {0}
  BY SMT
<1>e4. 2^4 \in Nat \ {0}
  BY SMT
<1>e5. 2^5 \in Nat \ {0}
  BY SMT
<1>e6. 2^6 \in Nat \ {0}
  BY SMT
<1>e7. 2^7 \in Nat \ {0}
  BY SMT
<1>2. v - 1 - r \in 0..7
  BY DEF Widths
<1>3. \A e \in 0..7 : 2^e \in Nat \ {0}
  BY <1>0, <1>e0, <1>e1, <1>e2, <1>e3, <1>e4, <1>e5, <1>e6, <1>e7, Zenon
<1> QED BY <1>2, <1>3

\* Bits are bits.
LEMMA BitsAreBits ==
    ASSUME NEW v \in Widths, NEW r \in 0..(v - 1), NEW x \in Nat
    PROVE  BitOf(x, v, r) \in ZeroOne
<1>1. 2^(v - 1 - r) \in Nat \ {0}
  BY Shifts
<1>2. \A d \in Nat \ {0} : (x \div d) % 2 \in {0, 1}
  BY SMT
<1> QED BY <1>1, <1>2, Zenon DEF BitOf, ZeroOne

\* A bit of a sequence is a bit of one of its members; there are none behind it.
LEMMA BitIs ==
    ASSUME NEW w \in Widths, NEW q \in Seq(Nat), NEW k \in Nat
    PROVE  /\ k \div w \in Nat /\ k % w \in 0..(w - 1) /\ k = w * (k \div w) + (k % w)
           /\ Bit(q, w, k) = IF k \div w < Len(q) THEN BitOf(q[k \div w + 1], w, k % w) ELSE 0
           /\ Bit(q, w, k) \in ZeroOne
           /\ k \div w < Len(q) <=> k < w * Len(q)
<1>0. Len(q) \in Nat
  OBVIOUS
<1>1. /\ k \div w \in Nat /\ k % w \in 0..(w - 1) /\ k = w * (k \div w) + (k % w)
      /\ k \div w < Len(q) <=> k < w * Len(q)
  <2> DEFINE l == Len(q)
  <2>1. l \in Nat
    OBVIOUS
  <2> HIDE DEF l
  <2>2. /\ k \div w \in Nat /\ k % w \in 0..(w - 1) /\ k = w * (k \div w) + (k % w)
        /\ k \div w < l <=> k < w * l
    BY <2>1, SMT DEF Widths
  <2> QED BY <2>2 DEF l
<1>2. Bit(q, w, k) = IF k \div w < Len(q) THEN BitOf(q[k \div w + 1], w, k % w) ELSE 0
  BY DEF Bit, BitOf
<1>3. k \div w < Len(q) => BitOf(q[k \div w + 1], w, k % w) \in ZeroOne
  <2> SUFFICES ASSUME k \div w < Len(q) PROVE BitOf(q[k \div w + 1], w, k % w) \in ZeroOne
    OBVIOUS
  <2>1. k \div w + 1 \in 1..Len(q)
    BY <1>0, <1>1
  <2>2. q[k \div w + 1] \in Nat
    BY <2>1
  <2> QED BY <1>1, <2>2, BitsAreBits
<1>4. 0 \in ZeroOne
  BY DEF ZeroOne
<1> QED BY <1>1, <1>2, <1>3, <1>4

\* Regrouping gives n groups of v bits, and their bits are the sequence's.
LEMMA RegroupIs ==
    ASSUME NEW w \in Widths, NEW v \in Widths, NEW q \in Seq(Nat), NEW n \in Nat
    PROVE  /\ Regroup(q, w, v, n) \in [1..n -> SymbolOf(v)]
           /\ \A j \in 1..n, r \in 0..(v - 1) :
                BitOf(Regroup(q, w, v, n)[j], v, r) = Bit(q, w, (j - 1) * v + r)
<1> SUFFICES ASSUME NEW j \in 1..n
             PROVE  /\ Regroup(q, w, v, n)[j] \in SymbolOf(v)
                    /\ \A r \in 0..(v - 1) :
                         BitOf(Regroup(q, w, v, n)[j], v, r) = Bit(q, w, (j - 1) * v + r)
  BY DEF Regroup
<1> DEFINE d == [i \in 1..v |-> Bit(q, w, j * v - i)]
<1>1. Regroup(q, w, v, n)[j] = Number(d, 2)
  BY DEF Regroup
<1>2. \A i \in 1..v : j * v - i \in Nat /\ v - i \in 0..(v - 1) /\ (j - 1) * v + (v - i) = j * v - i
  BY DEF Widths
<1>3. \A i \in 1..v : Bit(q, w, j * v - i) \in ZeroOne
  BY <1>2, BitIs
<1>4. d \in [1..v -> ZeroOne]
  BY <1>3
<1>5. \A i \in 1..v : d[i] = Bit(q, w, j * v - i)
  OBVIOUS
<1> HIDE DEF d
<1>6. Number(d, 2) \in SymbolOf(v) /\ \A i \in 1..v : BitOf(Number(d, 2), v, v - i) = d[i]
  <2>1. d \in [1..v -> {0, 1}] /\ v \in {5, 6, 8}
    BY <1>4 DEF ZeroOne, Widths
  <2> QED BY <1>4, <2>1, BitsOfNumber
<1>7. ASSUME NEW r \in 0..(v - 1)
      PROVE  BitOf(Number(d, 2), v, r) = Bit(q, w, (j - 1) * v + r)
  <2>1. v - r \in 1..v /\ v - (v - r) = r
    BY DEF Widths
  <2>2. (j - 1) * v + r = j * v - (v - r)
    BY <1>2, <2>1
  <2> QED BY <1>5, <1>6, <2>1, <2>2
<1> QED BY <1>1, <1>6, <1>7

\* Regrouping keeps the bits that fit.
LEMMA BitOfRegroup ==
    ASSUME NEW w \in Widths, NEW v \in Widths, NEW q \in Seq(Nat), NEW n \in Nat, NEW k \in Nat
    PROVE  Bit(Regroup(q, w, v, n), v, k) = IF k < v * n THEN Bit(q, w, k) ELSE 0
<1> DEFINE g == Regroup(q, w, v, n)
<1>1. /\ g \in [1..n -> SymbolOf(v)]
      /\ \A j \in 1..n, r \in 0..(v - 1) : BitOf(g[j], v, r) = Bit(q, w, (j - 1) * v + r)
  BY RegroupIs
<1> HIDE DEF g
<1>2. SymbolOf(v) \subseteq Nat
  BY DEF SymbolOf
<1>3. g \in Seq(Nat) /\ Len(g) = n
  BY <1>1, <1>2
<1>4. /\ k \div v \in Nat /\ k % v \in 0..(v - 1) /\ k = v * (k \div v) + (k % v)
      /\ Bit(g, v, k) = IF k \div v < Len(g) THEN BitOf(g[k \div v + 1], v, k % v) ELSE 0
      /\ k \div v < Len(g) <=> k < v * Len(g)
  BY <1>3, BitIs
<1>5. ASSUME k \div v < n PROVE BitOf(g[k \div v + 1], v, k % v) = Bit(q, w, k)
  <2> DEFINE j == k \div v + 1
  <2>1. j \in 1..n /\ (j - 1) * v + (k % v) = k
    BY <1>4, <1>5 DEF Widths
  <2> HIDE DEF j
  <2>2. BitOf(g[j], v, k % v) = Bit(q, w, k)
    BY <1>1, <1>4, <2>1
  <2> QED BY <2>2 DEF j
<1> QED BY <1>3, <1>4, <1>5 DEF g

\* A number of five bits is made of them.
LEMMA OfFiveBits ==
    ASSUME NEW x \in 0..31, NEW x1, NEW x2, NEW x3, NEW x4, NEW x5,
           x1 = (x \div 1) % 2, x2 = (x \div 2) % 2, x3 = (x \div 4) % 2, x4 = (x \div 8) %
           2, x5 = (x \div 16) % 2
    PROVE  x = x1 + 2 * (x2 + 2 * (x3 + 2 * (x4 + 2 * x5)))
  BY SMT

\* A number of six bits is made of them.
LEMMA OfSixBits ==
    ASSUME NEW x \in 0..63, NEW x1, NEW x2, NEW x3, NEW x4, NEW x5, NEW x6,
           x1 = (x \div 1) % 2, x2 = (x \div 2) % 2, x3 = (x \div 4) % 2, x4 = (x \div 8) %
           2, x5 = (x \div 16) % 2, x6 = (x \div 32) % 2
    PROVE  x = x1 + 2 * (x2 + 2 * (x3 + 2 * (x4 + 2 * (x5 + 2 * x6))))
  BY SMT

\* A number of eight bits is made of them.
LEMMA OfEightBits ==
    ASSUME NEW x \in 0..255, NEW x1, NEW x2, NEW x3, NEW x4, NEW x5, NEW x6, NEW x7, NEW x8,
           x1 = (x \div 1) % 2, x2 = (x \div 2) % 2, x3 = (x \div 4) % 2, x4 = (x \div 8) %
           2, x5 = (x \div 16) % 2, x6 = (x \div 32) % 2, x7 = (x \div 64) % 2, x8 = (x
           \div 128) % 2
    PROVE  x = x1 + 2 * (x2 + 2 * (x3 + 2 * (x4 + 2 * (x5 + 2 * (x6 + 2 * (x7 + 2 * x8))))))
  BY SMT

\* A group of bits is the number of its bits.
LEMMA NumberOfItsBits ==
    ASSUME NEW v \in Widths, NEW x \in SymbolOf(v)
    PROVE  x = Number([i \in 1..v |-> BitOf(x, v, v - i)], 2)
<1> DEFINE q == [i \in 1..v |-> BitOf(x, v, v - i)]
<1>a. x \in Nat
  BY DEF SymbolOf
<1>b. \A i \in 1..v : v - i \in 0..(v - 1)
  BY DEF Widths
<1>c. \A i \in 1..v : BitOf(x, v, v - i) \in ZeroOne
  BY <1>a, <1>b, BitsAreBits
<1>d. q \in [1..v -> ZeroOne] /\ \A i \in 1..v : q[i] = BitOf(x, v, v - i)
  BY <1>c
<1> HIDE DEF q
<1>1. CASE v = 5
  <2>0. 2^5 - 1 = 31
    BY SMT
  <2>1. x \in 0..31
    BY <1>1, <2>0 DEF SymbolOf
  <2>q1. q[1] = (x \div 1) % 2
    <3>1. 1 \in 1..5 /\ 5 - 1 - (5 - 1) = 0 /\ 2^0 = 1
      BY SMT
    <3>2. q[1] = BitOf(x, 5, 5 - 1)
      BY <1>d, <1>1, <3>1, Zenon
    <3> QED BY <3>1, <3>2 DEF BitOf
  <2>q2. q[2] = (x \div 2) % 2
    <3>1. 2 \in 1..5 /\ 5 - 1 - (5 - 2) = 1 /\ 2^1 = 2
      BY SMT
    <3>2. q[2] = BitOf(x, 5, 5 - 2)
      BY <1>d, <1>1, <3>1, Zenon
    <3> QED BY <3>1, <3>2 DEF BitOf
  <2>q3. q[3] = (x \div 4) % 2
    <3>1. 3 \in 1..5 /\ 5 - 1 - (5 - 3) = 2 /\ 2^2 = 4
      BY SMT
    <3>2. q[3] = BitOf(x, 5, 5 - 3)
      BY <1>d, <1>1, <3>1, Zenon
    <3> QED BY <3>1, <3>2 DEF BitOf
  <2>q4. q[4] = (x \div 8) % 2
    <3>1. 4 \in 1..5 /\ 5 - 1 - (5 - 4) = 3 /\ 2^3 = 8
      BY SMT
    <3>2. q[4] = BitOf(x, 5, 5 - 4)
      BY <1>d, <1>1, <3>1, Zenon
    <3> QED BY <3>1, <3>2 DEF BitOf
  <2>q5. q[5] = (x \div 16) % 2
    <3>1. 5 \in 1..5 /\ 5 - 1 - (5 - 5) = 4 /\ 2^4 = 16
      BY SMT
    <3>2. q[5] = BitOf(x, 5, 5 - 5)
      BY <1>d, <1>1, <3>1, Zenon
    <3> QED BY <3>1, <3>2 DEF BitOf
  <2>2. x = q[1] + 2 * (q[2] + 2 * (q[3] + 2 * (q[4] + 2 * q[5])))
    BY <2>1, <2>q1, <2>q2, <2>q3, <2>q4, <2>q5, OfFiveBits
  <2>3. q \in [1..5 -> {0, 1}]
    BY <1>d, <1>1 DEF ZeroOne
  <2> QED BY <2>2, <2>3, NumberOfBits DEF q
<1>2. CASE v = 6
  <2>0. 2^6 - 1 = 63
    BY SMT
  <2>1. x \in 0..63
    BY <1>2, <2>0 DEF SymbolOf
  <2>q1. q[1] = (x \div 1) % 2
    <3>1. 1 \in 1..6 /\ 6 - 1 - (6 - 1) = 0 /\ 2^0 = 1
      BY SMT
    <3>2. q[1] = BitOf(x, 6, 6 - 1)
      BY <1>d, <1>2, <3>1, Zenon
    <3> QED BY <3>1, <3>2 DEF BitOf
  <2>q2. q[2] = (x \div 2) % 2
    <3>1. 2 \in 1..6 /\ 6 - 1 - (6 - 2) = 1 /\ 2^1 = 2
      BY SMT
    <3>2. q[2] = BitOf(x, 6, 6 - 2)
      BY <1>d, <1>2, <3>1, Zenon
    <3> QED BY <3>1, <3>2 DEF BitOf
  <2>q3. q[3] = (x \div 4) % 2
    <3>1. 3 \in 1..6 /\ 6 - 1 - (6 - 3) = 2 /\ 2^2 = 4
      BY SMT
    <3>2. q[3] = BitOf(x, 6, 6 - 3)
      BY <1>d, <1>2, <3>1, Zenon
    <3> QED BY <3>1, <3>2 DEF BitOf
  <2>q4. q[4] = (x \div 8) % 2
    <3>1. 4 \in 1..6 /\ 6 - 1 - (6 - 4) = 3 /\ 2^3 = 8
      BY SMT
    <3>2. q[4] = BitOf(x, 6, 6 - 4)
      BY <1>d, <1>2, <3>1, Zenon
    <3> QED BY <3>1, <3>2 DEF BitOf
  <2>q5. q[5] = (x \div 16) % 2
    <3>1. 5 \in 1..6 /\ 6 - 1 - (6 - 5) = 4 /\ 2^4 = 16
      BY SMT
    <3>2. q[5] = BitOf(x, 6, 6 - 5)
      BY <1>d, <1>2, <3>1, Zenon
    <3> QED BY <3>1, <3>2 DEF BitOf
  <2>q6. q[6] = (x \div 32) % 2
    <3>1. 6 \in 1..6 /\ 6 - 1 - (6 - 6) = 5 /\ 2^5 = 32
      BY SMT
    <3>2. q[6] = BitOf(x, 6, 6 - 6)
      BY <1>d, <1>2, <3>1, Zenon
    <3> QED BY <3>1, <3>2 DEF BitOf
  <2>2. x = q[1] + 2 * (q[2] + 2 * (q[3] + 2 * (q[4] + 2 * (q[5] + 2 * q[6]))))
    BY <2>1, <2>q1, <2>q2, <2>q3, <2>q4, <2>q5, <2>q6, OfSixBits
  <2>3. q \in [1..6 -> {0, 1}]
    BY <1>d, <1>2 DEF ZeroOne
  <2> QED BY <2>2, <2>3, NumberOfBits DEF q
<1>3. CASE v = 8
  <2>0. 2^8 - 1 = 255
    BY SMT
  <2>1. x \in 0..255
    BY <1>3, <2>0 DEF SymbolOf
  <2>q1. q[1] = (x \div 1) % 2
    <3>1. 1 \in 1..8 /\ 8 - 1 - (8 - 1) = 0 /\ 2^0 = 1
      BY SMT
    <3>2. q[1] = BitOf(x, 8, 8 - 1)
      BY <1>d, <1>3, <3>1, Zenon
    <3> QED BY <3>1, <3>2 DEF BitOf
  <2>q2. q[2] = (x \div 2) % 2
    <3>1. 2 \in 1..8 /\ 8 - 1 - (8 - 2) = 1 /\ 2^1 = 2
      BY SMT
    <3>2. q[2] = BitOf(x, 8, 8 - 2)
      BY <1>d, <1>3, <3>1, Zenon
    <3> QED BY <3>1, <3>2 DEF BitOf
  <2>q3. q[3] = (x \div 4) % 2
    <3>1. 3 \in 1..8 /\ 8 - 1 - (8 - 3) = 2 /\ 2^2 = 4
      BY SMT
    <3>2. q[3] = BitOf(x, 8, 8 - 3)
      BY <1>d, <1>3, <3>1, Zenon
    <3> QED BY <3>1, <3>2 DEF BitOf
  <2>q4. q[4] = (x \div 8) % 2
    <3>1. 4 \in 1..8 /\ 8 - 1 - (8 - 4) = 3 /\ 2^3 = 8
      BY SMT
    <3>2. q[4] = BitOf(x, 8, 8 - 4)
      BY <1>d, <1>3, <3>1, Zenon
    <3> QED BY <3>1, <3>2 DEF BitOf
  <2>q5. q[5] = (x \div 16) % 2
    <3>1. 5 \in 1..8 /\ 8 - 1 - (8 - 5) = 4 /\ 2^4 = 16
      BY SMT
    <3>2. q[5] = BitOf(x, 8, 8 - 5)
      BY <1>d, <1>3, <3>1, Zenon
    <3> QED BY <3>1, <3>2 DEF BitOf
  <2>q6. q[6] = (x \div 32) % 2
    <3>1. 6 \in 1..8 /\ 8 - 1 - (8 - 6) = 5 /\ 2^5 = 32
      BY SMT
    <3>2. q[6] = BitOf(x, 8, 8 - 6)
      BY <1>d, <1>3, <3>1, Zenon
    <3> QED BY <3>1, <3>2 DEF BitOf
  <2>q7. q[7] = (x \div 64) % 2
    <3>1. 7 \in 1..8 /\ 8 - 1 - (8 - 7) = 6 /\ 2^6 = 64
      BY SMT
    <3>2. q[7] = BitOf(x, 8, 8 - 7)
      BY <1>d, <1>3, <3>1, Zenon
    <3> QED BY <3>1, <3>2 DEF BitOf
  <2>q8. q[8] = (x \div 128) % 2
    <3>1. 8 \in 1..8 /\ 8 - 1 - (8 - 8) = 7 /\ 2^7 = 128
      BY SMT
    <3>2. q[8] = BitOf(x, 8, 8 - 8)
      BY <1>d, <1>3, <3>1, Zenon
    <3> QED BY <3>1, <3>2 DEF BitOf
  <2>2. x = q[1] + 2 * (q[2] + 2 * (q[3] + 2 * (q[4] + 2 * (q[5] + 2 * (q[6] + 2 * (q[7] + 2 * q[8]))))))
    BY <2>1, <2>q1, <2>q2, <2>q3, <2>q4, <2>q5, <2>q6, <2>q7, <2>q8, OfEightBits
  <2>3. q \in [1..8 -> {0, 1}]
    BY <1>d, <1>3 DEF ZeroOne
  <2> QED BY <2>2, <2>3, NumberOfBits DEF q
<1> QED BY <1>1, <1>2, <1>3 DEF Widths

\* Sequences of groups with the same bits are the same.
LEMMA SameBits ==
    ASSUME NEW v \in Widths, NEW n \in Nat, NEW a \in [1..n -> SymbolOf(v)], NEW b \in [1..n -> SymbolOf(v)],
           \A k \in Nat : k < v * n => Bit(a, v, k) = Bit(b, v, k)
    PROVE  a = b
<1>0. SymbolOf(v) \subseteq Nat
  BY DEF SymbolOf
<1>1. a \in Seq(Nat) /\ b \in Seq(Nat) /\ Len(a) = n /\ Len(b) = n
  BY <1>0
<1>2. ASSUME NEW j \in 1..n PROVE a[j] = b[j]
  <2>1. ASSUME NEW r \in 0..(v - 1) PROVE BitOf(a[j], v, r) = BitOf(b[j], v, r)
    <3> DEFINE k == (j - 1) * v + r
    <3>1. k \in Nat /\ k \div v = j - 1 /\ k % v = r /\ k < v * n /\ k \div v < n /\ k \div v + 1 = j
      BY DEF Widths
    <3> HIDE DEF k
    <3>2. Bit(a, v, k) = BitOf(a[j], v, r) /\ Bit(b, v, k) = BitOf(b[j], v, r)
      BY <1>1, <3>1, BitIs
    <3> QED BY <3>1, <3>2
  <2>2. a[j] \in SymbolOf(v) /\ b[j] \in SymbolOf(v)
    OBVIOUS
  <2>3. \A i \in 1..v : v - i \in 0..(v - 1)
    BY DEF Widths
  <2>4. [i \in 1..v |-> BitOf(a[j], v, v - i)] = [i \in 1..v |-> BitOf(b[j], v, v - i)]
    BY <2>1, <2>3
  <2> QED BY <2>2, <2>4, NumberOfItsBits
<1> QED BY <1>2

\* Bytes are groups of eight bits.
LEMMA ByteIs == Byte = SymbolOf(8) /\ Byte \subseteq Nat /\ SymbolOf(5) = 0..31 /\ SymbolOf(6) = 0..63
<1>1. 2^8 - 1 = 255 /\ 2^5 - 1 = 31 /\ 2^6 - 1 = 63
  BY SMT
<1> QED BY <1>1 DEF Byte, SymbolOf

\* Characters are the symbols of the alphabets, and one for all others.
Character == 0..64
\* Characters are numbers, and symbols of both widths are among them.
LEMMA CharacterIs ==
    /\ Character \subseteq Nat
    /\ \A w \in {5, 6} : /\ SymbolOf(w) \subseteq Character
                         /\ \A c \in Character : c < 2^w <=> c \in SymbolOf(w)
<1>1. 2^5 = 32 /\ 2^6 = 64
  BY SMT
<1>2. Character \subseteq Nat /\ 0..31 \subseteq Character /\ 0..63 \subseteq Character
  BY DEF Character
<1>3. \A c \in Character : (c < 32 <=> c \in 0..31) /\ (c < 64 <=> c \in 0..63)
  BY SMT DEF Character
<1> SUFFICES ASSUME NEW w \in {5, 6}
             PROVE  /\ SymbolOf(w) \subseteq Character
                    /\ \A c \in Character : c < 2^w <=> c \in SymbolOf(w)
  BY <1>2
<1>4. CASE w = 5
  <2>1. 2^w = 32 /\ SymbolOf(w) = 0..31
    BY <1>1, <1>4, ByteIs, Zenon
  <2>2. SymbolOf(w) \subseteq Character
    BY <1>2, <2>1, Zenon
  <2>3. \A c \in Character : c < 32 <=> c \in 0..31
    BY <1>3, Zenon
  <2>4. \A c \in Character : c < 2^w <=> c \in SymbolOf(w)
    BY <2>1, <2>3, Zenon
  <2> QED BY <2>2, <2>4, Zenon
<1>5. CASE w = 6
  <2>1. 2^w = 64 /\ SymbolOf(w) = 0..63
    BY <1>1, <1>5, ByteIs, Zenon
  <2>2. SymbolOf(w) \subseteq Character
    BY <1>2, <2>1, Zenon
  <2>3. \A c \in Character : c < 64 <=> c \in 0..63
    BY <1>3, Zenon
  <2>4. \A c \in Character : c < 2^w <=> c \in SymbolOf(w)
    BY <2>1, <2>3, Zenon
  <2> QED BY <2>2, <2>4, Zenon
<1> QED BY <1>4, <1>5

\* How many symbols the bytes need, and how many bytes the symbols hold.
EncodedLen(l, w) == (8 * l + w - 1) \div w
DecodedLen(l, w) == (l * w) \div 8

\* The two lengths belong together.
LEMMA Lengths ==
    ASSUME NEW w \in {5, 6}, NEW l \in Nat
    PROVE  /\ EncodedLen(l, w) \in Nat /\ DecodedLen(l, w) \in Nat
           /\ 8 * l <= w * EncodedLen(l, w) /\ w * EncodedLen(l, w) - 8 * l < w
           /\ DecodedLen(EncodedLen(l, w), w) = l
           /\ 8 * DecodedLen(l, w) <= w * l
           /\ l * w - 8 * DecodedLen(l, w) < w => EncodedLen(DecodedLen(l, w), w) = l
  BY DEF EncodedLen, DecodedLen

\* Encoding gives symbols of the alphabet.
LEMMA EncodeIs ==
    ASSUME NEW w \in {5, 6}, NEW b \in Seq(Byte)
    PROVE  /\ Encode(b, w) \in [1..EncodedLen(Len(b), w) -> SymbolOf(w)]
           /\ Encode(b, w) \in Seq(Character) /\ Len(Encode(b, w)) = EncodedLen(Len(b), w)
           /\ \A k \in Nat : Bit(Encode(b, w), w, k) = IF k < w * EncodedLen(Len(b), w) THEN Bit(b, 8, k) ELSE 0
<1> DEFINE n == EncodedLen(Len(b), w)
<1>0. n \in Nat
  <2>1. Len(b) \in Nat
    OBVIOUS
  <2> QED BY <2>1, Lengths
<1>1. Encode(b, w) = Regroup(b, 8, w, n)
  BY DEF Encode, EncodedLen
<1>2. w \in Widths /\ 8 \in Widths
  BY DEF Widths
<1>3. b \in Seq(Nat)
  BY ByteIs
<1> HIDE DEF n
<1>4. Encode(b, w) \in [1..n -> SymbolOf(w)]
  BY <1>0, <1>1, <1>2, <1>3, RegroupIs
<1>5. SymbolOf(w) \subseteq Character
  BY CharacterIs
<1>6. Encode(b, w) \in Seq(Character) /\ Len(Encode(b, w)) = n
  BY <1>0, <1>4, <1>5
<1>7. \A k \in Nat : Bit(Encode(b, w), w, k) = IF k < w * n THEN Bit(b, 8, k) ELSE 0
  BY <1>0, <1>1, <1>2, <1>3, BitOfRegroup
<1> QED BY <1>4, <1>6, <1>7 DEF n

\* Which texts are decoded, and to what.
Decodable(t, w) ==
    LET n == DecodedLen(Len(t), w) IN
    /\ \A i \in 1..Len(t) : t[i] \in SymbolOf(w)
    /\ Len(t) * w - 8 * n < w
    /\ \A k \in (8 * n)..(Len(t) * w - 1) : Bit(t, w, k) = 0
\* Decode gives the bytes with the bits of the symbols, or refuses.
LEMMA DecodeIs ==
    ASSUME NEW w \in {5, 6}, NEW t \in Seq(Character)
    PROVE  IF Decodable(t, w)
           THEN \E b \in Seq(Byte) :
                  /\ Decode(t, w) = Took(b, <<>>) /\ Len(b) = DecodedLen(Len(t), w)
                  /\ \A k \in Nat : Bit(b, 8, k) = IF k < 8 * Len(b) THEN Bit(t, w, k) ELSE 0
           ELSE Decode(t, w) = Fail
<1> DEFINE n == DecodedLen(Len(t), w)
           b == Regroup(t, w, 8, n)
<1>0. Len(t) \in Nat /\ n \in Nat
  <2>1. Len(t) \in Nat
    OBVIOUS
  <2> QED BY <2>1, Lengths
<1>1. t \in [1..Len(t) -> Character]
  OBVIOUS
<1>2. \A i \in 1..Len(t) : t[i] < 2^w <=> t[i] \in SymbolOf(w)
  BY <1>1, CharacterIs
<1>3. Decode(t, w) = IF Decodable(t, w) THEN Took(b, <<>>) ELSE Fail
  <2>1. (\A i \in 1..Len(t) : t[i] < 2^w) <=> \A i \in 1..Len(t) : t[i] \in SymbolOf(w)
    BY <1>2
  <2> QED BY <2>1, Zenon DEF Decode, Decodable, DecodedLen
<1>4. w \in Widths /\ 8 \in Widths /\ t \in Seq(Nat)
  <2>1. t \in Seq(Nat)
    <3>1. Character \subseteq Nat
      BY CharacterIs, Zenon
    <3>2. t \in [1..Len(t) -> Nat]
      BY <1>1, <3>1
    <3> QED BY <1>0, <3>2
  <2> QED BY <2>1 DEF Widths
<1> HIDE DEF n
<1>5. b \in [1..n -> Byte]
  BY <1>0, <1>4, RegroupIs, ByteIs
<1>6. \A k \in Nat : Bit(b, 8, k) = IF k < 8 * n THEN Bit(t, w, k) ELSE 0
  BY <1>0, <1>4, BitOfRegroup
<1> HIDE DEF b
<1>7. b \in Seq(Byte) /\ Len(b) = n
  BY <1>0, <1>5
<1> QED BY <1>3, <1>6, <1>7 DEF n

\* Bytes are decoded from their encoding.
LEMMA DecodeEncode ==
    ASSUME NEW w \in {5, 6}, NEW b \in Seq(Byte)
    PROVE  Decode(Encode(b, w), w) = Took(b, <<>>)
<1> DEFINE t == Encode(b, w)
           l == Len(b)
           m == EncodedLen(l, w)
<1>0. l \in Nat /\ m \in Nat /\ 8 * l <= w * m /\ w * m - 8 * l < w /\ DecodedLen(m, w) = l
  <2>1. l \in Nat
    OBVIOUS
  <2> HIDE DEF l
  <2> QED BY <2>1, Lengths
<1>1. /\ t \in [1..m -> SymbolOf(w)] /\ t \in Seq(Character) /\ Len(t) = m
      /\ \A k \in Nat : Bit(t, w, k) = IF k < w * m THEN Bit(b, 8, k) ELSE 0
  BY EncodeIs
<1>2. 8 \in Widths /\ b \in Seq(Nat) /\ b \in [1..l -> SymbolOf(8)]
  BY ByteIs DEF Widths
<1> HIDE DEF m
<1>3. \A k \in Nat : k >= 8 * l => Bit(b, 8, k) = 0
  <2> TAKE k \in Nat
  <2>1. /\ Bit(b, 8, k) = IF k \div 8 < Len(b) THEN BitOf(b[k \div 8 + 1], 8, k % 8) ELSE 0
        /\ k \div 8 < Len(b) <=> k < 8 * Len(b)
    BY <1>2, BitIs
  <2> HIDE DEF l
  <2> QED BY <1>0, <2>1 DEF l
<1> HIDE DEF t, l
<1>4. Decodable(t, w)
  <2>1. \A i \in 1..m : t[i] \in SymbolOf(w)
    BY <1>1
  <2>2. m * w - 8 * l < w
    BY <1>0
  <2>3. ASSUME NEW k \in (8 * l)..(m * w - 1) PROVE Bit(t, w, k) = 0
    <3>1. k \in Nat /\ k >= 8 * l
      BY <1>0
    <3> QED BY <1>1, <1>3, <3>1
  <2> QED BY <1>0, <1>1, <2>1, <2>2, <2>3 DEF Decodable
<1>5. PICK c \in Seq(Byte) :
         /\ Decode(t, w) = Took(c, <<>>) /\ Len(c) = l
         /\ \A k \in Nat : Bit(c, 8, k) = IF k < 8 * l THEN Bit(t, w, k) ELSE 0
  BY <1>0, <1>1, <1>4, DecodeIs
<1>6. \A k \in Nat : k < 8 * l => Bit(c, 8, k) = Bit(b, 8, k)
  <2> TAKE k \in Nat
  <2> HAVE k < 8 * l
  <2>1. k < w * m
    BY <1>0
  <2> QED BY <1>1, <1>5, <2>1
<1>7. c \in [1..l -> SymbolOf(8)]
  BY <1>0, <1>5, ByteIs
<1>8. c = b
  BY <1>0, <1>2, <1>6, <1>7, SameBits
<1> QED BY <1>5, <1>8 DEF t

\* A text that is decoded is the encoding of what it is decoded to.
LEMMA EncodeDecode ==
    ASSUME NEW w \in {5, 6}, NEW t \in Seq(Character), NEW b, NEW rest, Decode(t, w) = Took(b, rest)
    PROVE  b \in Seq(Byte) /\ t = Encode(b, w) /\ Len(t) = EncodedLen(Len(b), w) /\ Decodable(t, w)
<1>1. Decodable(t, w)
  BY DecodeIs, TookIs
<1>2. /\ b \in Seq(Byte) /\ Len(b) = DecodedLen(Len(t), w)
      /\ \A k \in Nat : Bit(b, 8, k) = IF k < 8 * Len(b) THEN Bit(t, w, k) ELSE 0
  <2>1. PICK c \in Seq(Byte) :
                  /\ Decode(t, w) = Took(c, <<>>) /\ Len(c) = DecodedLen(Len(t), w)
                  /\ \A k \in Nat : Bit(c, 8, k) = IF k < 8 * Len(c) THEN Bit(t, w, k) ELSE 0
    BY <1>1, DecodeIs
  <2>2. Took(c, <<>>) = Took(b, rest)
    BY <2>1
  <2>3. c = b
    BY <2>2, TookIs
  <2> QED BY <2>1, <2>3
<1> DEFINE l == Len(t)
           n == Len(b)
<1>3. l \in Nat /\ n \in Nat /\ w \in Widths
  BY <1>2 DEF Widths
<1>4. n = DecodedLen(l, w) /\ l * w - 8 * n < w
  BY <1>1, <1>2 DEF Decodable
<1>5. EncodedLen(n, w) = l /\ 8 * n <= w * l
  <2> HIDE DEF l, n
  <2> QED BY <1>3, <1>4, Lengths
<1>6. \A k \in (8 * n)..(l * w - 1) : Bit(t, w, k) = 0
  BY <1>1, <1>2 DEF Decodable
<1>7. /\ Encode(b, w) \in [1..l -> SymbolOf(w)]
      /\ \A k \in Nat : Bit(Encode(b, w), w, k) = IF k < w * l THEN Bit(b, 8, k) ELSE 0
  BY <1>2, <1>5, EncodeIs
<1>8. t \in [1..l -> SymbolOf(w)]
  BY <1>1 DEF Decodable
<1>9. \A k \in Nat : k < w * l => Bit(Encode(b, w), w, k) = Bit(t, w, k)
  <2> TAKE k \in Nat
  <2> HAVE k < w * l
  <2>1. Bit(Encode(b, w), w, k) = Bit(b, 8, k)
    BY <1>7
  <2>2. CASE k < 8 * n
    BY <1>2, <2>1, <2>2
  <2>3. CASE k >= 8 * n
    <3>1. k \in (8 * n)..(l * w - 1)
      BY <1>3, <2>3
    <3>2. Bit(b, 8, k) = 0
      BY <1>2, <1>3, <2>3
    <3> QED BY <1>6, <2>1, <3>1, <3>2
  <2> QED BY <1>3, <2>2, <2>3
<1> HIDE DEF l, n
<1>10. t = Encode(b, w)
  BY <1>3, <1>7, <1>8, <1>9, SameBits
<1> QED BY <1>1, <1>2, <1>5, <1>10 DEF l, n

(***************************************************************************)
(* Texts of keys, hashes and tokens.                                       *)
(***************************************************************************)

\* The byte strings of KEY bytes.
LEMMA KeysAre ==
    /\ KEY \in Nat /\ KEY \in 1..127 /\ KEY \in U16 /\ PublicKeys \subseteq Keys
    /\ \A b \in Keys : b \in Seq(Byte) /\ Len(b) = KEY
    /\ \A b \in Seq(Byte) : Len(b) = KEY => b \in Keys
<1>1. KEY \in 1..127 /\ PublicKeys \subseteq Keys
  BY TextAssumption
<1>2. KEY \in Nat /\ KEY \in U16
  BY <1>1 DEF U16
<1>3. \A b \in [1..KEY -> Byte] : b \in Seq(Byte) /\ Len(b) = KEY
  BY <1>2
<1>4. \A b \in Seq(Byte) : Len(b) = KEY => b \in [1..KEY -> Byte]
  BY <1>2
<1> QED BY <1>1, <1>2, <1>3, <1>4 DEF Keys

\* What decodes is decoded in one way.
LEMMA Decoded ==
    ASSUME NEW w \in {5, 6}, NEW t \in Seq(Character)
    PROVE  \/ \E b \in Seq(Byte) : /\ Decode(t, w) = Took(b, <<>>) /\ t = Encode(b, w)
                                   /\ Len(t) = EncodedLen(Len(b), w)
           \/ Decode(t, w) = Fail
<1>1. CASE Decodable(t, w)
  <2>1. PICK b \in Seq(Byte) : Decode(t, w) = Took(b, <<>>)
    BY <1>1, DecodeIs
  <2>2. t = Encode(b, w) /\ Len(t) = EncodedLen(Len(b), w)
    BY <2>1, EncodeDecode
  <2> QED BY <2>1, <2>2
<1>2. CASE ~Decodable(t, w)
  BY <1>2, DecodeIs
<1> QED BY <1>1, <1>2

\* from_str of a hash, of a token and of a peer id accept what to_string
\* wrote, and nothing else.
LEMMA ParseKeyIs ==
    /\ \A b \in Keys : KeyText(b) \in Seq(Character) /\ Len(KeyText(b)) = EncodedLen(KEY, 6)
    /\ \A b \in Keys : ParseKey(KeyText(b)) = Took(b, <<>>)
    /\ \A b \in PublicKeys : ParsePeer(KeyText(b)) = Took(b, <<>>)
    /\ \A t \in Seq(Character) :
         \/ ParseKey(t) = Fail
         \/ \E b \in Keys : ParseKey(t) = Took(b, <<>>) /\ t = KeyText(b)
    /\ \A t \in Seq(Character) :
         \/ ParsePeer(t) = Fail
         \/ \E b \in PublicKeys : ParsePeer(t) = Took(b, <<>>) /\ t = KeyText(b)
<1>1. ASSUME NEW b \in Keys
      PROVE  /\ KeyText(b) \in Seq(Character) /\ Len(KeyText(b)) = EncodedLen(KEY, 6)
             /\ Decode(KeyText(b), 6) = Took(b, <<>>) /\ Len(b) = KEY
  <2>1. b \in Seq(Byte) /\ Len(b) = KEY
    BY KeysAre
  <2> QED BY <2>1, EncodeIs, DecodeEncode DEF KeyText
<1>2. ASSUME NEW b \in Keys PROVE ParseKey(KeyText(b)) = Took(b, <<>>)
  <2>1. Decode(KeyText(b), 6) = Took(b, <<>>) /\ Len(b) = KEY
    BY <1>1
  <2>2. Took(b, <<>>).ok = TRUE /\ Took(b, <<>>).v = b
    BY TookIs
  <2> QED BY <2>1, <2>2 DEF ParseKey, Then
<1>3. ASSUME NEW b \in PublicKeys PROVE ParsePeer(KeyText(b)) = Took(b, <<>>)
  <2>1. Decode(KeyText(b), 6) = Took(b, <<>>)
    BY <1>1, KeysAre
  <2>2. Took(b, <<>>).ok = TRUE /\ Took(b, <<>>).v = b
    BY TookIs
  <2> QED BY <2>1, <2>2 DEF ParsePeer, Then
<1>4. ASSUME NEW t \in Seq(Character), Decode(t, 6) # Fail
      PROVE  \E b \in Seq(Byte) : /\ t = KeyText(b)
                                  /\ ParseKey(t) = IF b \in Keys THEN Took(b, <<>>) ELSE Fail
                                  /\ ParsePeer(t) = IF b \in PublicKeys THEN Took(b, <<>>) ELSE Fail
  <2>1. PICK b \in Seq(Byte) : Decode(t, 6) = Took(b, <<>>) /\ t = Encode(b, 6)
    BY <1>4, Decoded
  <2>2. Took(b, <<>>).ok = TRUE /\ Took(b, <<>>).v = b
    BY TookIs
  <2>3. Len(b) = KEY <=> b \in Keys
    BY KeysAre
  <2>4. ParseKey(t) = IF b \in Keys THEN Took(b, <<>>) ELSE Fail
    BY <2>1, <2>2, <2>3 DEF ParseKey, Then
  <2>5. ParsePeer(t) = IF b \in PublicKeys THEN Took(b, <<>>) ELSE Fail
    BY <2>1, <2>2 DEF ParsePeer, Then
  <2> QED BY <2>1, <2>4, <2>5 DEF KeyText
<1>5. ASSUME NEW t \in Seq(Character), Decode(t, 6) = Fail
      PROVE  ParseKey(t) = Fail /\ ParsePeer(t) = Fail
  <2>1. Fail.ok = FALSE
    BY TookIs
  <2> QED BY <1>5, <2>1 DEF ParseKey, ParsePeer, Then
<1>6. ASSUME NEW t \in Seq(Character)
      PROVE  /\ ParseKey(t) = Fail \/ \E b \in Keys : ParseKey(t) = Took(b, <<>>) /\ t = KeyText(b)
             /\ ParsePeer(t) = Fail \/ \E b \in PublicKeys : ParsePeer(t) = Took(b, <<>>) /\ t = KeyText(b)
  <2>1. CASE Decode(t, 6) = Fail
    BY <1>5, <2>1
  <2>2. CASE Decode(t, 6) # Fail
    BY <1>4, <2>2, Zenon
  <2> QED BY <2>1, <2>2
<1> QED BY <1>1, <1>2, <1>3, <1>6, Zenon

(***************************************************************************)
(* The CID of a hash.                                                      *)
(***************************************************************************)

\* Characters of the lower case base32 alphabet, and their values.
Base32Of(v, c) == c \in Character /\ c >= 26 /\ v \in SymbolOf(5) /\ FromBase32(v) = c /\ ToBase32(c) = v
\* Every value of five bits has one character, and that character no other value.
LEMMA Base32Is ==
    /\ \A v \in SymbolOf(5) : Base32Of(v, FromBase32(v))
    /\ \A c \in Character : /\ ToBase32(c) \in Character
                            /\ ToBase32(c) \in SymbolOf(5) => Base32Of(ToBase32(c), c)
<1>1. ASSUME NEW v \in SymbolOf(5) PROVE Base32Of(v, FromBase32(v))
  <2>1. v \in 0..31
    BY ByteIs, Zenon
  <2> QED BY <2>1 DEF Base32Of, FromBase32, ToBase32, Character
<1>2. ASSUME NEW c \in Character
      PROVE  ToBase32(c) \in Character /\ (ToBase32(c) \in SymbolOf(5) => Base32Of(ToBase32(c), c))
  <2>1. ToBase32(c) \in SymbolOf(5) => ToBase32(c) \in 0..31
    BY ByteIs, Zenon
  <2> QED BY <2>1 DEF Base32Of, FromBase32, ToBase32, Character
<1> QED BY <1>1, <1>2

\* Small and capital letters.
LEMMA AnyCaseIs ==
    ASSUME NEW t \in Seq(Character)
    PROVE  /\ AnyCase(t) \in Seq(Character) /\ Len(AnyCase(t)) = Len(t)
           /\ (\A i \in 1..Len(t) : t[i] >= 26) => AnyCase(t) = t
<1>1. Len(t) \in Nat /\ t \in [1..Len(t) -> Character]
  OBVIOUS
<1>2. \A c \in Character : (IF c < 26 THEN c + 26 ELSE c) \in Character
  BY DEF Character
<1>3. \A i \in 1..Len(t) : t[i] \in Character
  BY <1>1
<1>4. \A c \in Character : c >= 26 => ~(c < 26)
  BY DEF Character
<1>5. AnyCase(t) \in [1..Len(t) -> Character]
  BY <1>2, <1>3 DEF AnyCase
<1>6. ASSUME \A i \in 1..Len(t) : t[i] >= 26 PROVE AnyCase(t) = t
  <2>1. \A i \in 1..Len(t) : ~(t[i] < 26)
    BY <1>3, <1>4, <1>6
  <2> QED BY <1>1, <2>1 DEF AnyCase
<1> QED BY <1>1, <1>5, <1>6

\* Texts of the alphabet are decoded to what they were made of, and no others are decoded.
LEMMA DecodeBase32Is ==
    /\ \A b \in Seq(Byte) :
         /\ EncodeBase32(b) \in Seq(Character) /\ Len(EncodeBase32(b)) = EncodedLen(Len(b), 5)
         /\ \A i \in 1..Len(EncodeBase32(b)) : EncodeBase32(b)[i] >= 26
         /\ DecodeBase32(EncodeBase32(b)) = Took(b, <<>>)
    /\ \A t \in Seq(Character) :
         \/ DecodeBase32(t) = Fail
         \/ \E b \in Seq(Byte) : DecodeBase32(t) = Took(b, <<>>) /\ t = EncodeBase32(b)
<1>1. ASSUME NEW b \in Seq(Byte)
      PROVE  /\ EncodeBase32(b) \in Seq(Character) /\ Len(EncodeBase32(b)) = EncodedLen(Len(b), 5)
             /\ \A i \in 1..Len(EncodeBase32(b)) : EncodeBase32(b)[i] >= 26
             /\ DecodeBase32(EncodeBase32(b)) = Took(b, <<>>)
  <2> DEFINE e == Encode(b, 5)
             m == EncodedLen(Len(b), 5)
             t == EncodeBase32(b)
  <2>1. e \in [1..m -> SymbolOf(5)] /\ Len(e) = m /\ Decode(e, 5) = Took(b, <<>>)
    BY EncodeIs, DecodeEncode
  <2>2. m \in Nat
    <3>1. Len(b) \in Nat
      OBVIOUS
    <3> QED BY <3>1, Lengths
  <2>3. t = [i \in 1..m |-> FromBase32(e[i])]
    BY <2>1 DEF EncodeBase32
  <2> HIDE DEF e, m, t
  <2>4. \A i \in 1..m : Base32Of(e[i], t[i])
    BY <2>1, <2>3, Base32Is
  <2>5. \A i \in 1..m : t[i] \in Character /\ t[i] >= 26 /\ ToBase32(t[i]) = e[i]
    BY <2>4 DEF Base32Of
  <2>6. t \in [1..m -> Character]
    BY <2>3, <2>5
  <2>7. t \in Seq(Character) /\ Len(t) = m
    BY <2>2, <2>6
  <2>8. [i \in 1..Len(t) |-> ToBase32(t[i])] = e
    BY <2>1, <2>5, <2>7
  <2>9. DecodeBase32(t) = Took(b, <<>>)
    BY <2>1, <2>8 DEF DecodeBase32
  <2> QED BY <2>5, <2>7, <2>9 DEF t, m
<1>2. ASSUME NEW t \in Seq(Character), DecodeBase32(t) # Fail
      PROVE  \E b \in Seq(Byte) : DecodeBase32(t) = Took(b, <<>>) /\ t = EncodeBase32(b)
  <2> DEFINE s == [i \in 1..Len(t) |-> ToBase32(t[i])]
  <2>1. Len(t) \in Nat /\ t \in [1..Len(t) -> Character]
    OBVIOUS
  <2>2. s \in [1..Len(t) -> Character]
    BY <2>1, Base32Is
  <2>3. \A i \in 1..Len(t) : s[i] = ToBase32(t[i])
    OBVIOUS
  <2>4. DecodeBase32(t) = Decode(s, 5)
    BY DEF DecodeBase32
  <2> HIDE DEF s
  <2>5. s \in Seq(Character) /\ Len(s) = Len(t)
    BY <2>1, <2>2
  <2>6. PICK b \in Seq(Byte) : Decode(s, 5) = Took(b, <<>>) /\ s = Encode(b, 5)
    BY <1>2, <2>4, <2>5, Decoded
  <2>7. s \in [1..Len(t) -> SymbolOf(5)]
    <3>1. s \in [1..EncodedLen(Len(b), 5) -> SymbolOf(5)]
      BY <2>6, EncodeIs
    <3> QED BY <2>2, <3>1
  <2>8. \A i \in 1..Len(t) : t[i] = FromBase32(s[i])
    BY <2>1, <2>3, <2>7, Base32Is DEF Base32Of
  <2>9. EncodeBase32(b) = [i \in 1..Len(t) |-> FromBase32(s[i])]
    BY <2>5, <2>6 DEF EncodeBase32
  <2>10. t = EncodeBase32(b)
    BY <2>1, <2>8, <2>9
  <2> QED BY <2>4, <2>6, <2>10
<1>3. ASSUME NEW t \in Seq(Character)
      PROVE  DecodeBase32(t) = Fail \/ \E b \in Seq(Byte) : DecodeBase32(t) = Took(b, <<>>) /\ t = EncodeBase32(b)
  BY <1>2
<1> QED BY <1>1, <1>3

\* What a concatenation of bytes is.
LEMMA ConcatIs ==
    ASSUME NEW a \in Seq(Byte), NEW c \in Seq(Byte)
    PROVE  /\ a \o c \in Seq(Byte) /\ Len(a \o c) = Len(a) + Len(c)
           /\ \A i \in 1..Len(a) : (a \o c)[i] = a[i]
           /\ \A i \in 1..Len(c) : (a \o c)[Len(a) + i] = c[i]
  OBVIOUS

\* The bytes of a CID.
LEMMA CidFromBytesIs ==
    /\ \A h \in Keys : /\ CID_PREFIX \o h \in Seq(Byte) /\ Len(CID_PREFIX \o h) = 4 + KEY
                       /\ CidFromBytes(CID_PREFIX \o h) = Took(h, <<>>)
    /\ \A b \in Seq(Byte) : \/ CidFromBytes(b) = Fail
                            \/ \E h \in Keys : CidFromBytes(b) = Took(h, <<>>) /\ b = CID_PREFIX \o h
<1>1. CID_PREFIX \in Seq(Byte) /\ Len(CID_PREFIX) = 4
  BY DEF CID_PREFIX, Byte
<1>2. ASSUME NEW h \in Keys
      PROVE  /\ CID_PREFIX \o h \in Seq(Byte) /\ Len(CID_PREFIX \o h) = 4 + KEY
             /\ CidFromBytes(CID_PREFIX \o h) = Took(h, <<>>)
  <2>1. h \in Seq(Byte) /\ Len(h) = KEY /\ KEY \in Nat
    BY KeysAre
  <2>2. SubSeq(CID_PREFIX \o h, 1, 4) = CID_PREFIX /\ Drop(CID_PREFIX \o h, 4) = h
    BY <1>1, <2>1, SplitConcat
  <2>3. CID_PREFIX \o h \in Seq(Byte) /\ Len(CID_PREFIX \o h) = 4 + KEY
    <3>1. Len(CID_PREFIX \o h) = Len(CID_PREFIX) + Len(h) /\ CID_PREFIX \o h \in Seq(Byte)
      BY <1>1, <2>1, ConcatIs, Zenon
    <3> QED BY <1>1, <2>1, <3>1, Zenon
  <2>4. 4 + KEY = KEY + 4
    BY <2>1
  <2> QED BY <2>2, <2>3, <2>4 DEF CidFromBytes
<1>3. ASSUME NEW b \in Seq(Byte), CidFromBytes(b) # Fail
      PROVE  \E h \in Keys : CidFromBytes(b) = Took(h, <<>>) /\ b = CID_PREFIX \o h
  <2>1. Len(b) = KEY + 4 /\ SubSeq(b, 1, 4) = CID_PREFIX /\ CidFromBytes(b) = Took(Drop(b, 4), <<>>)
    BY <1>3 DEF CidFromBytes
  <2>2. 4 \in 0..Len(b) /\ Len(b) - 4 = KEY
    BY <2>1, KeysAre
  <2>3. Drop(b, 4) \in Seq(Byte) /\ Len(Drop(b, 4)) = KEY /\ b = SubSeq(b, 1, 4) \o Drop(b, 4)
    BY <2>2, SplitAt
  <2>4. Drop(b, 4) \in Keys
    BY <2>3, KeysAre
  <2> QED BY <2>1, <2>3, <2>4
<1> QED BY <1>2, <1>3

\* The get command accepts the CID of a hash, in letters of either case, and
\* no other text that starts with b; one that starts with u has other letters.
LEMMA ParseCidIs ==
    /\ \A h \in Keys : /\ CidText(h).body \in Seq(Character) /\ Len(CidText(h).body) = CidLen
                       /\ \A i \in 1..CidLen : CidText(h).body[i] >= 26
                       /\ ParseCid(CidText(h)) = Took(h, <<>>)
    /\ \A c : c.body \in Seq(Character) =>
         \/ ParseCid(c) = Fail
         \/ \E h \in Keys : /\ ParseCid(c) = Took(h, <<>>)
                            /\ \/ /\ c.prefix = "b" /\ Len(c.body) = CidLen
                                  /\ AnyCase(c.body) = CidText(h).body
                               \/ c.prefix = "u" /\ c.body = Encode(CID_PREFIX \o h, 6)
<1>0. CidLen = EncodedLen(4 + KEY, 5) /\ CidLen \in Nat
  <2>1. CidLen = (8 * (4 + KEY) + 4) \div 5 /\ KEY \in Nat
    BY KeysAre DEF CidLen, CID_PREFIX
  <2> QED BY <2>1 DEF EncodedLen
<1>1. \A h : CidText(h).prefix = "b" /\ CidText(h).body = EncodeBase32(CID_PREFIX \o h)
  BY DEF CidText
<1>2. ASSUME NEW h \in Keys
      PROVE  /\ CidText(h).body \in Seq(Character) /\ Len(CidText(h).body) = CidLen
             /\ \A i \in 1..CidLen : CidText(h).body[i] >= 26
             /\ ParseCid(CidText(h)) = Took(h, <<>>)
  <2> DEFINE t == CidText(h).body
             b == CID_PREFIX \o h
  <2>1. b \in Seq(Byte) /\ Len(b) = 4 + KEY /\ CidFromBytes(b) = Took(h, <<>>)
    BY CidFromBytesIs
  <2>2. t = EncodeBase32(b)
    BY <1>1
  <2> HIDE DEF b, t
  <2>3. t \in Seq(Character) /\ Len(t) = CidLen /\ (\A i \in 1..CidLen : t[i] >= 26)
        /\ DecodeBase32(t) = Took(b, <<>>)
    BY <1>0, <2>1, <2>2, DecodeBase32Is
  <2>4. AnyCase(t) = t
    BY <2>3, AnyCaseIs
  <2>5. Took(b, <<>>).ok = TRUE /\ Took(b, <<>>).v = b
    BY TookIs
  <2>6. ParseCid(CidText(h)) = Then(Took(b, <<>>), LAMBDA x, rest : CidFromBytes(x))
    BY <1>1, <2>3, <2>4 DEF ParseCid, t
  <2> QED BY <2>1, <2>3, <2>5, <2>6 DEF Then, t
<1>3. ASSUME NEW c, c.body \in Seq(Character), ParseCid(c) # Fail
      PROVE  \E h \in Keys : /\ ParseCid(c) = Took(h, <<>>)
                            /\ \/ /\ c.prefix = "b" /\ Len(c.body) = CidLen
                                  /\ AnyCase(c.body) = CidText(h).body
                               \/ c.prefix = "u" /\ c.body = Encode(CID_PREFIX \o h, 6)
  <2> DEFINE d == IF c.prefix = "b" /\ Len(c.body) = CidLen THEN DecodeBase32(AnyCase(c.body)) ELSE Multibase(c)
  <2>1. ParseCid(c) = Then(d, LAMBDA x, rest : CidFromBytes(x))
    BY DEF ParseCid
  <2>2. d = IF c.prefix = "b" /\ Len(c.body) = CidLen THEN DecodeBase32(AnyCase(c.body))
            ELSE IF c.prefix = "b" THEN DecodeBase32(c.body)
            ELSE IF c.prefix = "u" THEN Decode(c.body, 6) ELSE Fail
    BY DEF Multibase
  <2> HIDE DEF d
  <2>3. d # Fail
    <3>1. Fail.ok = FALSE
      BY TookIs
    <3> QED BY <1>3, <2>1, <3>1 DEF Then
  <2>4. AnyCase(c.body) \in Seq(Character) /\ Len(AnyCase(c.body)) = Len(c.body)
    BY <1>3, AnyCaseIs
  <2>5. ASSUME NEW b \in Seq(Byte), d = Took(b, <<>>)
        PROVE  \E h \in Keys : ParseCid(c) = Took(h, <<>>) /\ b = CID_PREFIX \o h /\ Len(b) = 4 + KEY
    <3>1. Took(b, <<>>).ok = TRUE /\ Took(b, <<>>).v = b
      BY TookIs
    <3>2. ParseCid(c) = CidFromBytes(b)
      BY <2>1, <2>5, <3>1 DEF Then
    <3> QED BY <1>3, <3>2, CidFromBytesIs
  <2>6. CASE c.prefix = "b" /\ Len(c.body) = CidLen
    <3>1. PICK b \in Seq(Byte) : d = Took(b, <<>>) /\ AnyCase(c.body) = EncodeBase32(b)
      BY <2>2, <2>3, <2>4, <2>6, DecodeBase32Is
    <3>2. PICK h \in Keys : ParseCid(c) = Took(h, <<>>) /\ b = CID_PREFIX \o h
      BY <2>5, <3>1
    <3>3. AnyCase(c.body) = CidText(h).body
      BY <1>1, <3>1, <3>2
    <3> QED BY <2>6, <3>2, <3>3
  <2>7. CASE c.prefix = "b" /\ Len(c.body) # CidLen
    <3>1. PICK b \in Seq(Byte) : d = Took(b, <<>>) /\ c.body = EncodeBase32(b)
      BY <1>3, <2>2, <2>3, <2>7, DecodeBase32Is
    <3>2. Len(b) = 4 + KEY
      BY <2>5, <3>1
    <3>3. Len(c.body) = EncodedLen(Len(b), 5)
      BY <3>1, DecodeBase32Is
    <3> QED BY <1>0, <2>7, <3>2, <3>3
  <2>8. CASE c.prefix # "b"
    <3>1. c.prefix = "u" /\ d = Decode(c.body, 6)
      BY <2>2, <2>3, <2>8
    <3>2. PICK b \in Seq(Byte) : d = Took(b, <<>>) /\ c.body = Encode(b, 6)
      BY <1>3, <2>3, <3>1, Decoded
    <3>3. PICK h \in Keys : ParseCid(c) = Took(h, <<>>) /\ b = CID_PREFIX \o h
      BY <2>5, <3>2
    <3> QED BY <3>1, <3>2, <3>3
  <2> QED BY <2>6, <2>7, <2>8
<1> QED BY <1>2, <1>3

\* Bytes and characters are numbers.
LEMMA NumbersAre ==
    /\ \A b \in Seq(Byte) : b \in Seq(Nat)
    /\ \A t \in Seq(Character) : t \in Seq(Nat)
<1>1. Byte \subseteq Nat /\ Character \subseteq Nat
  BY ByteIs, CharacterIs, Zenon
<1>2. ASSUME NEW S, S \subseteq Nat, NEW s \in Seq(S) PROVE s \in Seq(Nat)
  <2>1. Len(s) \in Nat /\ s \in [1..Len(s) -> S]
    OBVIOUS
  <2>2. s \in [1..Len(s) -> Nat]
    BY <1>2, <2>1
  <2> QED BY <2>1, <2>2
<1> QED BY <1>1, <1>2, Zenon

\* The base64 text of a CID starts with two capital letters, unlike any base32 text.
LEMMA CidOtherLetters ==
    ASSUME NEW h \in Keys
    PROVE  LET t == Encode(CID_PREFIX \o h, 6) IN Len(t) >= 2 /\ t[1] < 26 /\ t[2] < 26
<1> DEFINE b == CID_PREFIX \o h
           t == Encode(b, 6)
           m == EncodedLen(Len(b), 6)
<1>1. b \in Seq(Byte) /\ Len(b) = 4 + KEY
  BY CidFromBytesIs
<1>2. b[1] = 1 /\ b[2] = 85
  <2>1. CID_PREFIX \in Seq(Byte) /\ Len(CID_PREFIX) = 4 /\ CID_PREFIX[1] = 1 /\ CID_PREFIX[2] = 85
    BY DEF CID_PREFIX, Byte
  <2>2. h \in Seq(Byte) /\ 1 \in 1..Len(CID_PREFIX) /\ 2 \in 1..Len(CID_PREFIX)
    BY <2>1, KeysAre
  <2>3. b[1] = CID_PREFIX[1] /\ b[2] = CID_PREFIX[2]
    <3>1. \A i \in 1..Len(CID_PREFIX) : (CID_PREFIX \o h)[i] = CID_PREFIX[i]
      BY <2>1, <2>2, ConcatIs
    <3> QED BY <2>2, <3>1
  <2> QED BY <2>1, <2>3
<1>3. KEY \in Nat /\ KEY >= 1
  BY KeysAre
<1> HIDE DEF b
<1>4. Len(b) \in Nat /\ m \in Nat /\ m >= 3
  BY <1>1, <1>3 DEF EncodedLen
<1>5. t \in Seq(Character) /\ Len(t) = m /\ t \in [1..m -> SymbolOf(6)]
      /\ \A k \in Nat : Bit(t, 6, k) = IF k < 6 * m THEN Bit(b, 8, k) ELSE 0
  BY <1>1, EncodeIs
<1> HIDE DEF m, t
<1>6. PICK x \in 0..63 : x = t[1]
  <2>1. 1 \in 1..m
    BY <1>4
  <2>2. t[1] \in SymbolOf(6) /\ SymbolOf(6) = 0..63
    BY <1>5, <2>1, ByteIs, Zenon
  <2> QED BY <2>2, Zenon
<1>7. PICK y \in 0..63 : y = t[2]
  <2>1. 2 \in 1..m
    BY <1>4
  <2>2. t[2] \in SymbolOf(6) /\ SymbolOf(6) = 0..63
    BY <1>5, <2>1, ByteIs, Zenon
  <2> QED BY <2>2, Zenon
<1>8. t \in Seq(Nat) /\ b \in Seq(Nat)
  BY <1>1, <1>5, NumbersAre, Zenon
<1>9. ASSUME NEW k \in Nat, k < 6 * m
      PROVE  k \div 6 < m /\ k \div 8 < Len(b)
             => BitOf(t[k \div 6 + 1], 6, k % 6) = BitOf(b[k \div 8 + 1], 8, k % 8)
  <2>1. 6 \in Widths /\ 8 \in Widths
    BY DEF Widths
  <2>2. Bit(t, 6, k) = IF k \div 6 < Len(t) THEN BitOf(t[k \div 6 + 1], 6, k % 6) ELSE 0
    BY <1>8, <2>1, BitIs
  <2>3. Bit(b, 8, k) = IF k \div 8 < Len(b) THEN BitOf(b[k \div 8 + 1], 8, k % 8) ELSE 0
    BY <1>8, <2>1, BitIs
  <2>4. Bit(t, 6, k) = Bit(b, 8, k)
    BY <1>5, <1>9
  <2> QED BY <1>5, <2>2, <2>3, <2>4
<1>10. (x \div 32) % 2 = 0
  <2>1. 0 < 6 * m /\ 0 \div 6 = 0 /\ 0 \div 8 = 0 /\ 0 % 6 = 0 /\ 0 % 8 = 0 /\ 0 + 1 = 1 /\ 0 < m /\ 0 < Len(b)
    BY <1>1, <1>3, <1>4
  <2>2. BitOf(t[1], 6, 0) = BitOf(b[1], 8, 0)
    BY <1>9, <2>1
  <2>3. 6 - 1 - 0 = 5 /\ 8 - 1 - 0 = 7 /\ 2^5 = 32 /\ 2^7 = 128 /\ (1 \div 128) % 2 = 0
    BY SMT
  <2> QED BY <1>2, <1>6, <2>2, <2>3 DEF BitOf
<1>11. (x \div 16) % 2 = 0
  <2>1. 1 < 6 * m /\ 1 \div 6 = 0 /\ 1 \div 8 = 0 /\ 1 % 6 = 1 /\ 1 % 8 = 1 /\ 0 + 1 = 1 /\ 0 < m /\ 0 < Len(b)
    BY <1>1, <1>3, <1>4
  <2>2. BitOf(t[1], 6, 1) = BitOf(b[1], 8, 1)
    BY <1>9, <2>1
  <2>3. 6 - 1 - 1 = 4 /\ 8 - 1 - 1 = 6 /\ 2^4 = 16 /\ 2^6 = 64 /\ (1 \div 64) % 2 = 0
    BY SMT
  <2> QED BY <1>2, <1>6, <2>2, <2>3 DEF BitOf
<1>12. (y \div 32) % 2 = 0
  <2>1. 6 < 6 * m /\ 6 \div 6 = 1 /\ 6 \div 8 = 0 /\ 6 % 6 = 0 /\ 6 % 8 = 6 /\ 0 + 1 = 1 /\ 1 + 1 = 2
        /\ 1 < m /\ 0 < Len(b)
    BY <1>1, <1>3, <1>4
  <2>2. BitOf(t[2], 6, 0) = BitOf(b[1], 8, 6)
    BY <1>9, <2>1
  <2>3. 6 - 1 - 0 = 5 /\ 8 - 1 - 6 = 1 /\ 2^5 = 32 /\ 2^1 = 2 /\ (1 \div 2) % 2 = 0
    BY SMT
  <2> QED BY <1>2, <1>7, <2>2, <2>3 DEF BitOf
<1>13. (y \div 8) % 2 = 0
  <2>1. 8 < 6 * m /\ 8 \div 6 = 1 /\ 8 \div 8 = 1 /\ 8 % 6 = 2 /\ 8 % 8 = 0 /\ 1 + 1 = 2
        /\ 1 < m /\ 1 < Len(b)
    BY <1>1, <1>3, <1>4
  <2>2. BitOf(t[2], 6, 2) = BitOf(b[2], 8, 0)
    BY <1>9, <2>1
  <2>3. 6 - 1 - 2 = 3 /\ 8 - 1 - 0 = 7 /\ 2^3 = 8 /\ 2^7 = 128 /\ (85 \div 128) % 2 = 0
    BY SMT
  <2> QED BY <1>2, <1>7, <2>2, <2>3 DEF BitOf
<1>14. x < 26
  BY <1>10, <1>11
<1>15. y < 26
  BY <1>12, <1>13
<1> QED BY <1>4, <1>5, <1>6, <1>7, <1>14, <1>15 DEF t, b

(***************************************************************************)
(* Tickets.                                                                *)
(***************************************************************************)

\* Concatenation may be read from either side.
LEMMA BytesAssociative ==
    \A a, b, c \in Seq(Byte) : (a \o b) \o c = a \o (b \o c)
  BY ConcatAssociative, SMT
\* Three parts in front of the rest.
InFront(b1, b2, b3, r) ==
    (b1 \o b2) \o b3 \in Seq(Byte) /\ ((b1 \o b2) \o b3) \o r = b1 \o (b2 \o (b3 \o r))
\* Concatenation of four parts can be grouped either way.
LEMMA ThreeInFront ==
    ASSUME NEW b1 \in Seq(Byte), NEW b2 \in Seq(Byte), NEW b3 \in Seq(Byte), NEW r \in Seq(Byte)
    PROVE  InFront(b1, b2, b3, r)
<1>1. PICK x \in Seq(Byte) : x = b1 \o b2
  BY ConcatIs
<1>2. PICK y \in Seq(Byte) : y = b3 \o r
  BY ConcatIs
<1>3. x \o b3 \in Seq(Byte)
  BY ConcatIs
<1>4. (x \o b3) \o r = x \o (b3 \o r)
  BY BytesAssociative, Zenon
<1>5. (b1 \o b2) \o y = b1 \o (b2 \o y)
  <2>1. \A c \in Seq(Byte) : (b1 \o b2) \o c = b1 \o (b2 \o c)
    BY BytesAssociative, Zenon
  <2> QED BY <2>1, Zenon
<1> QED BY <1>1, <1>2, <1>3, <1>4, <1>5, Zenon DEF InFront

\* The bytes of b are those of enc and rest, or there are more of them.
Holds(b, enc, rest) ==
    /\ b \in Seq(Byte) /\ enc \in Seq(Byte) /\ rest \in Seq(Byte)
    /\ Len(enc) + Len(rest) <= Len(b)
    /\ Len(enc) + Len(rest) = Len(b) => b = enc \o rest
\* Parts that follow each other.
LEMMA HoldsBoth ==
    ASSUME NEW b, NEW e1, NEW r1, NEW e2, NEW r2, Holds(b, e1, r1), Holds(r1, e2, r2)
    PROVE  Holds(b, e1 \o e2, r2)
<1>1. /\ b \in Seq(Byte) /\ e1 \in Seq(Byte) /\ r1 \in Seq(Byte) /\ e2 \in Seq(Byte) /\ r2 \in Seq(Byte)
  BY DEF Holds
<1>1a. Len(e1) + Len(r1) <= Len(b) /\ Len(e2) + Len(r2) <= Len(r1)
  BY DEF Holds
<1>2. /\ Len(b) \in Nat /\ Len(e1) \in Nat /\ Len(r1) \in Nat /\ Len(e2) \in Nat /\ Len(r2) \in Nat
      /\ e1 \o e2 \in Seq(Byte) /\ Len(e1 \o e2) = Len(e1) + Len(e2)
  BY <1>1, ConcatIs
<1>3. Len(e1 \o e2) + Len(r2) <= Len(b)
  BY <1>1a, <1>2
<1>4. ASSUME Len(e1 \o e2) + Len(r2) = Len(b) PROVE b = (e1 \o e2) \o r2
  <2>1. Len(e1) + Len(r1) = Len(b) /\ Len(e2) + Len(r2) = Len(r1)
    BY <1>1a, <1>2, <1>4
  <2>2. b = e1 \o r1 /\ r1 = e2 \o r2
    BY <2>1 DEF Holds
  <2>3. (e1 \o e2) \o r2 = e1 \o (e2 \o r2)
    BY <1>1, BytesAssociative, Zenon
  <2> QED BY <2>2, <2>3, Zenon
<1> QED BY <1>1, <1>2, <1>3, <1>4 DEF Holds

\* TakeBytes: the rest grows with the bytes.
LEMMA TakeBytesExtends ==
    ASSUME NEW b \in Seq(Byte), NEW n \in Nat, TakeBytes(b, n) # Fail
    PROVE  \E v \in Seq(Byte), rest \in Seq(Byte) :
             /\ TakeBytes(b, n) = Took(v, rest) /\ Len(v) = n /\ Holds(b, v, rest)
             /\ \A c \in Seq(Byte) : TakeBytes(b \o c, n) = Took(v, rest \o c)
<1> DEFINE v == SubSeq(b, 1, n)
           rest == Drop(b, n)
<1>1. /\ TakeBytes(b, n) = Took(v, rest) /\ v \in Seq(Byte) /\ Len(v) = n /\ rest \in Seq(Byte)
      /\ Len(rest) = Len(b) - n /\ b = v \o rest /\ n <= Len(b)
  BY TakeBytesIs
<1> HIDE DEF v, rest
<1>2. ASSUME NEW c \in Seq(Byte) PROVE TakeBytes(b \o c, n) = Took(v, rest \o c)
  <2>1. b \o c = v \o (rest \o c) /\ rest \o c \in Seq(Byte)
    BY <1>1, BytesAssociative, ConcatIs
  <2>2. TakeBytes(v \o (rest \o c), Len(v)) = Took(v, rest \o c)
    BY <1>1, <2>1, TakeBytesIs
  <2> QED BY <1>1, <2>1, <2>2
<1>3. Holds(b, v, rest)
  <2>1. Len(b) \in Nat
    OBVIOUS
  <2> QED BY <1>1, <2>1 DEF Holds
<1> QED BY <1>1, <1>2, <1>3

\* What is done with the result of a decoder.
LEMMA TakeLpIs ==
    ASSUME NEW b
    PROVE  /\ TakeVarint(b, 10) = Fail => TakeLp(b) = Fail
           /\ \A n, r : TakeVarint(b, 10) = Took(n, r) => TakeLp(b) = TakeBytes(r, n)
<1>1. TakeLp(b) = IF TakeVarint(b, 10).ok THEN TakeBytes(TakeVarint(b, 10).rest, TakeVarint(b, 10).v) ELSE Fail
  BY DEF TakeLp, Then
<1> QED BY <1>1, TookIs

\* A byte string with its length in front: it is read back, what follows does
\* not matter, and no fewer bytes give it.
LEMMA LpReadBack ==
    ASSUME NEW v \in Seq(Byte), Len(v) \in U16, NEW r \in Seq(Byte)
    PROVE  Lp(v) \in Seq(Byte) /\ TakeLp(Lp(v) \o r) = Took(v, r)
<1> DEFINE e == Varint(Len(v))
<1>1. v \o r \in Seq(Byte)
  BY ConcatIs
<1>2. e \in Seq(Byte) /\ TakeVarint(e \o (v \o r), 10) = Took(Len(v), v \o r)
  <2>1. 10 \in Nat /\ 10 >= 3
    OBVIOUS
  <2> QED BY <1>1, <2>1, VarintReadBack
<1> HIDE DEF e
<1>3. Lp(v) = e \o v
  BY DEF Lp, e
<1>4. Lp(v) \o r = e \o (v \o r) /\ Lp(v) \in Seq(Byte)
  BY <1>2, <1>3, BytesAssociative, ConcatIs
<1>5. TakeBytes(v \o r, Len(v)) = Took(v, r)
  BY TakeBytesIs
<1> QED BY <1>2, <1>4, <1>5, TakeLpIs

\* A byte string that was found is found whatever follows, and there are no
\* fewer bytes than it needs.
LEMMA TakeLpExtends ==
    ASSUME NEW b \in Seq(Byte), TakeLp(b) # Fail
    PROVE  \E v \in Seq(Byte), rest \in Seq(Byte) :
             /\ TakeLp(b) = Took(v, rest)
             /\ Len(v) \in U16 => Holds(b, Lp(v), rest)
             /\ \A c \in Seq(Byte) : TakeLp(b \o c) = Took(v, rest \o c)
<1>1. PICK n \in Nat, r \in Seq(Byte) :
             /\ TakeVarint(b, 10) = Took(n, r)
             /\ \A c \in Seq(Byte) : TakeVarint(b \o c, 10) = Took(n, r \o c)
  <2>1. TakeVarint(b, 10) # Fail
    BY TakeLpIs
  <2>2. TakeVarint(b, 10).ok
    BY <2>1, TakeVarintIs, TookIs
  <2> QED BY <2>2, TakeVarintExtends
<1>2. TakeBytes(r, n) # Fail
  BY <1>1, TakeLpIs
<1>3. PICK v \in Seq(Byte), rest \in Seq(Byte) :
             /\ TakeBytes(r, n) = Took(v, rest) /\ Len(v) = n /\ Holds(r, v, rest)
             /\ \A c \in Seq(Byte) : TakeBytes(r \o c, n) = Took(v, rest \o c)
  BY <1>2, TakeBytesExtends
<1>4. TakeLp(b) = Took(v, rest)
  BY <1>1, <1>3, TakeLpIs
<1>5. ASSUME NEW c \in Seq(Byte) PROVE TakeLp(b \o c) = Took(v, rest \o c)
  BY <1>1, <1>3, TakeLpIs
<1>6. ASSUME Len(v) \in U16 PROVE Holds(b, Lp(v), rest)
  <2>1. Holds(b, Varint(n), r)
    <3>1. r \in Seq(Byte) /\ Len(Varint(n)) + Len(r) <= Len(b)
          /\ (Len(Varint(n)) + Len(r) = Len(b) => b = Varint(n) \o r)
      BY <1>1, <1>3, <1>6, VarintIsShortest
    <3>2. Varint(n) \in Seq(Byte)
      <4>1. 10 \in Nat /\ 10 >= 3 /\ <<>> \in Seq(Byte)
        OBVIOUS
      <4> QED BY <1>3, <1>6, <4>1, VarintReadBack
    <3> QED BY <3>1, <3>2 DEF Holds
  <2>2. Holds(b, Varint(n) \o v, rest)
    BY <1>3, <2>1, HoldsBoth
  <2> QED BY <1>3, <2>2 DEF Lp
<1> QED BY <1>4, <1>5, <1>6

\* Numbers below 128 are one byte.
LEMMA SmallVarint ==
    ASSUME NEW n \in 0..127
    PROVE  Varint(n) = <<n>> /\ n \in U16 /\ <<n>> \in Seq(Byte)
<1>1. VarintLen(n) = 1
  BY SMT DEF VarintLen
<1> DEFINE f(i) == (Shifted(n, 128, 1)[i - 1] % 128) + (IF i < 1 THEN 128 ELSE 0)
<1>2. Varint(n) = [i \in 1..1 |-> f(i)]
  BY <1>1 DEF Varint
<1>3. f(1) = n
  <2>1. Shifted(n, 128, 1)[0] = n
    <3>1. PICK b \in Bases, l \in Nat : b = 128 /\ l = 1
      BY DEF Bases
    <3>2. n \in Nat
      BY SMT
    <3> QED BY <3>1, <3>2, ShiftedIs
  <2>2. 1 - 1 = 0 /\ ~(1 < 1)
    BY SMT
  <2>3. n % 128 = n /\ n + 0 = n
    BY SMT
  <2> QED BY <2>1, <2>2, <2>3
<1>4. Varint(n) = [i \in 1..1 |-> f(i)] /\ f(1) = n
  BY <1>2, <1>3
<1> HIDE DEF f
<1>5. \A i \in 1..1 : f(i) = n
  <2>1. \A i \in 1..1 : i = 1
    BY SMT
  <2> QED BY <1>4, <2>1, Zenon
<1>6. Varint(n) = [i \in 1..1 |-> n]
  BY <1>4, <1>5, Zenon
<1> QED BY <1>6 DEF U16, Byte

\* Addresses as they are written, and what is behind the variant.
Ips == {ip \in Seq(Byte) : Len(ip) = 4 \/ Len(ip) = 16}
\* An address is of four or of sixteen bytes, and its port is a u16.
LEMMA AddrsAre ==
    /\ \A a \in Addrs : a = [ip |-> a.ip, port |-> a.port] /\ a.ip \in Ips /\ a.port \in U16
    /\ \A ip \in Ips, port \in U16 : [ip |-> ip, port |-> port] \in Addrs
    /\ \A p \in Nat : p < 2^16 <=> p \in U16
<1>1. 2^16 = 65536
  BY SMT
<1>2. 0..(2^16 - 1) = U16 /\ \A p \in Nat : p < 2^16 <=> p \in U16
  <2>1. 2^16 - 1 = 65535
    BY SMT
  <2>3. 0..(2^16 - 1) = U16
    BY <2>1, SMT DEF U16
  <2>5. ASSUME NEW p \in Nat PROVE p < 2^16 <=> p \in U16
    <3>1. p \in U16 <=> p < 65536
      BY SMT DEF U16
    <3> QED BY <1>1, <3>1, SMT
  <2> QED BY <2>3, <2>5
<1>3. [1..4 -> Byte] \cup [1..16 -> Byte] = Ips
  <2>1. ASSUME NEW n \in Nat
        PROVE  /\ \A f \in [1..n -> Byte] : f \in Seq(Byte) /\ Len(f) = n
               /\ \A f \in Seq(Byte) : Len(f) = n => f \in [1..n -> Byte]
    OBVIOUS
  <2>2. 4 \in Nat /\ 16 \in Nat
    OBVIOUS
  <2>3. \A f \in Seq(Byte) : (Len(f) = 4 => f \in [1..4 -> Byte]) /\ (Len(f) = 16 => f \in [1..16 -> Byte])
    BY <2>1, <2>2, Zenon
  <2>4. \A f \in [1..4 -> Byte] : f \in Seq(Byte) /\ Len(f) = 4
    BY <2>1, <2>2, Zenon
  <2>5. \A f \in [1..16 -> Byte] : f \in Seq(Byte) /\ Len(f) = 16
    BY <2>1, <2>2, Zenon
  <2> QED BY <2>3, <2>4, <2>5, Zenon DEF Ips
<1>4. Addrs = [ip : Ips, port : U16]
  BY <1>2, <1>3, Zenon DEF Addrs
<1>5. \A a \in [ip : Ips, port : U16] : a = [ip |-> a.ip, port |-> a.port] /\ a.ip \in Ips /\ a.port \in U16
  OBVIOUS
<1>6. \A ip \in Ips, port \in U16 : [ip |-> ip, port |-> port] \in [ip : Ips, port : U16]
  BY Zenon
<1> QED BY <1>2, <1>4, <1>5, <1>6, Zenon

\* The steps of TakeAddr.
TakeIp(variant, r) == IF variant = 0 THEN TakeBytes(r, 4) ELSE IF variant = 1 THEN TakeBytes(r, 16) ELSE Fail
TakePort(ip, r) ==
    IF TakeVarint(r, 3).ok
    THEN IF TakeVarint(r, 3).v < 2^16
         THEN Took([ip |-> ip, port |-> TakeVarint(r, 3).v], TakeVarint(r, 3).rest) ELSE Fail
    ELSE Fail
\* TakeAddr is the variant, then the bytes of the address, then the port.
LEMMA TakeAddrIs ==
    ASSUME NEW b
    PROVE  /\ TakeVarint(b, 5) = Fail => TakeAddr(b) = Fail
           /\ \A v, r1 : TakeVarint(b, 5) = Took(v, r1) =>
                /\ TakeIp(v, r1) = Fail => TakeAddr(b) = Fail
                /\ \A ip, r2 : TakeIp(v, r1) = Took(ip, r2) => TakeAddr(b) = TakePort(ip, r2)
<1> DEFINE x == TakeVarint(b, 5)
           y == TakeIp(x.v, x.rest)
<1>1. TakeAddr(b) = IF x.ok THEN IF y.ok THEN TakePort(y.v, y.rest) ELSE Fail ELSE Fail
  BY DEF TakeAddr, Then, TakeIp, TakePort
<1>2. Fail.ok = FALSE /\ \A v, r : Took(v, r).ok = TRUE /\ Took(v, r).v = v /\ Took(v, r).rest = r
  BY TookIs
<1> HIDE DEF x
<1>3. x = Fail => TakeAddr(b) = Fail
  BY <1>1, <1>2
<1>4. ASSUME NEW v, NEW r1, x = Took(v, r1)
      PROVE  /\ TakeIp(v, r1) = Fail => TakeAddr(b) = Fail
             /\ \A ip, r2 : TakeIp(v, r1) = Took(ip, r2) => TakeAddr(b) = TakePort(ip, r2)
  <2>1. x.ok /\ y = TakeIp(v, r1)
    BY <1>2, <1>4
  <2> HIDE DEF y
  <2>2. TakeAddr(b) = IF y.ok THEN TakePort(y.v, y.rest) ELSE Fail
    BY <1>1, <2>1
  <2>3. ASSUME NEW ip, NEW r2, y = Took(ip, r2) PROVE TakeAddr(b) = TakePort(ip, r2)
    <3>1. y.ok /\ y.v = ip /\ y.rest = r2
      BY <1>2, <2>3
    <3> QED BY <2>2, <3>1
  <2>4. y = Fail => TakeAddr(b) = Fail
    BY <1>2, <2>2
  <2> QED BY <2>1, <2>3, <2>4
<1> QED BY <1>3, <1>4 DEF x

\* TakePort takes a u16 behind the address, or fails.
LEMMA TakePortIs ==
    ASSUME NEW r, NEW ip
    PROVE  /\ TakeVarint(r, 3) = Fail => TakePort(ip, r) = Fail
           /\ \A p, r2 : TakeVarint(r, 3) = Took(p, r2) =>
                TakePort(ip, r) = IF p < 2^16 THEN Took([ip |-> ip, port |-> p], r2) ELSE Fail
<1> DEFINE x == TakeVarint(r, 3)
<1>1. TakePort(ip, r) = IF x.ok THEN IF x.v < 2^16 THEN Took([ip |-> ip, port |-> x.v], x.rest) ELSE Fail ELSE Fail
  BY DEF TakePort
<1>2. Fail.ok = FALSE /\ \A v, r2 : Took(v, r2).ok = TRUE /\ Took(v, r2).v = v /\ Took(v, r2).rest = r2
  BY TookIs
<1> HIDE DEF x
<1>3. ASSUME NEW p, NEW r2, x = Took(p, r2)
      PROVE  TakePort(ip, r) = IF p < 2^16 THEN Took([ip |-> ip, port |-> p], r2) ELSE Fail
  <2>1. x.ok /\ x.v = p /\ x.rest = r2
    BY <1>2, <1>3
  <2> QED BY <1>1, <2>1
<1>4. x = Fail => TakePort(ip, r) = Fail
  BY <1>1, <1>2
<1> QED BY <1>3, <1>4 DEF x

\* The ip of an address is read back, and is found whatever follows.
VariantOf(ip) == IF Len(ip) = 4 THEN 0 ELSE 1
\* The bytes of an address are read back by its variant, and by no other.
LEMMA TakeIpIs ==
    /\ \A ip \in Ips, r \in Seq(Byte) : TakeIp(VariantOf(ip), ip \o r) = Took(ip, r)
    /\ \A v : \A b \in Seq(Byte) : TakeIp(v, b) # Fail =>
         \E ip \in Ips, rest \in Seq(Byte) :
           /\ TakeIp(v, b) = Took(ip, rest) /\ v = VariantOf(ip) /\ Holds(b, ip, rest)
           /\ \A c \in Seq(Byte) : TakeIp(v, b \o c) = Took(ip, rest \o c)
<1>1. ASSUME NEW ip \in Ips, NEW r \in Seq(Byte) PROVE TakeIp(VariantOf(ip), ip \o r) = Took(ip, r)
  <2>1. ip \in Seq(Byte) /\ (Len(ip) = 4 \/ Len(ip) = 16)
    BY DEF Ips
  <2>2. TakeBytes(ip \o r, Len(ip)) = Took(ip, r)
    BY <2>1, TakeBytesIs
  <2>3. TakeIp(VariantOf(ip), ip \o r) = TakeBytes(ip \o r, Len(ip))
    <3>1. CASE Len(ip) = 4
      BY <3>1 DEF TakeIp, VariantOf
    <3>2. CASE Len(ip) = 16
      BY <3>2 DEF TakeIp, VariantOf
    <3> QED BY <2>1, <3>1, <3>2
  <2> QED BY <2>2, <2>3
<1>2. ASSUME NEW v, NEW b \in Seq(Byte), TakeIp(v, b) # Fail
      PROVE  \E ip \in Ips, rest \in Seq(Byte) :
               /\ TakeIp(v, b) = Took(ip, rest) /\ v = VariantOf(ip) /\ Holds(b, ip, rest)
               /\ \A c \in Seq(Byte) : TakeIp(v, b \o c) = Took(ip, rest \o c)
  <2>1. PICK n \in Nat : (v = 0 /\ n = 4) \/ (v = 1 /\ n = 16)
    BY <1>2 DEF TakeIp
  <2>2. \A c : TakeIp(v, c) = TakeBytes(c, n)
    BY <2>1 DEF TakeIp
  <2>3. TakeBytes(b, n) # Fail
    BY <1>2, <2>2
  <2>4. PICK ip \in Seq(Byte), rest \in Seq(Byte) :
             /\ TakeBytes(b, n) = Took(ip, rest) /\ Len(ip) = n /\ Holds(b, ip, rest)
             /\ \A c \in Seq(Byte) : TakeBytes(b \o c, n) = Took(ip, rest \o c)
    BY <2>3, TakeBytesExtends
  <2>5. ip \in Ips /\ v = VariantOf(ip)
    <3>1. CASE v = 0 /\ n = 4
      BY <2>4, <3>1 DEF Ips, VariantOf
    <3>2. CASE v = 1 /\ n = 16
      BY <2>4, <3>2 DEF Ips, VariantOf
    <3> QED BY <2>1, <3>1, <3>2
  <2> QED BY <2>2, <2>4, <2>5
<1> QED BY <1>1, <1>2

\* The port of an address is read back, and is found whatever follows.
LEMMA TakePortExtends ==
    ASSUME NEW ip
    PROVE  /\ \A p \in U16, r \in Seq(Byte) :
                Varint(p) \in Seq(Byte) /\ TakePort(ip, Varint(p) \o r) = Took([ip |-> ip, port |-> p], r)
           /\ \A b \in Seq(Byte) : TakePort(ip, b) # Fail =>
                \E p \in U16, rest \in Seq(Byte) :
                  /\ TakePort(ip, b) = Took([ip |-> ip, port |-> p], rest) /\ Holds(b, Varint(p), rest)
                  /\ \A c \in Seq(Byte) : TakePort(ip, b \o c) = Took([ip |-> ip, port |-> p], rest \o c)
<1>0. 3 \in Nat /\ 3 >= 3 /\ <<>> \in Seq(Byte)
  OBVIOUS
<1>a. \A p \in Nat : p < 2^16 <=> p \in U16
  BY AddrsAre, Zenon
<1>b. \A p \in U16 : p \in Nat
  BY DEF U16
<1>c. \A r : /\ TakeVarint(r, 3) = Fail => TakePort(ip, r) = Fail
             /\ \A p, r2 : p \in Nat /\ TakeVarint(r, 3) = Took(p, r2) =>
                  TakePort(ip, r) = IF p \in U16 THEN Took([ip |-> ip, port |-> p], r2) ELSE Fail
  BY <1>a, TakePortIs
<1>1. ASSUME NEW p \in U16, NEW r \in Seq(Byte)
      PROVE  Varint(p) \in Seq(Byte) /\ TakePort(ip, Varint(p) \o r) = Took([ip |-> ip, port |-> p], r)
  <2>1. Varint(p) \in Seq(Byte) /\ TakeVarint(Varint(p) \o r, 3) = Took(p, r)
    BY <1>0, VarintReadBack
  <2> QED BY <1>b, <1>c, <2>1
<1>2. ASSUME NEW b \in Seq(Byte), TakePort(ip, b) # Fail
      PROVE  \E p \in U16, rest \in Seq(Byte) :
                  /\ TakePort(ip, b) = Took([ip |-> ip, port |-> p], rest) /\ Holds(b, Varint(p), rest)
                  /\ \A c \in Seq(Byte) : TakePort(ip, b \o c) = Took([ip |-> ip, port |-> p], rest \o c)
  <2>1. TakeVarint(b, 3) # Fail
    BY <1>2, <1>c
  <2>2. TakeVarint(b, 3).ok
    BY <1>0, <2>1, TakeVarintIs, TookIs
  <2>3. PICK p \in Nat, rest \in Seq(Byte) :
             /\ TakeVarint(b, 3) = Took(p, rest)
             /\ \A c \in Seq(Byte) : TakeVarint(b \o c, 3) = Took(p, rest \o c)
    BY <1>0, <2>2, TakeVarintExtends
  <2>4. p \in U16
    BY <1>2, <1>c, <2>3
  <2>5. \A c \in Seq(Byte) : TakePort(ip, b \o c) = Took([ip |-> ip, port |-> p], rest \o c)
    BY <1>c, <2>3, <2>4
  <2>6. TakePort(ip, b) = Took([ip |-> ip, port |-> p], rest)
    BY <1>c, <2>3, <2>4
  <2>7. Holds(b, Varint(p), rest)
    <3>1. rest \in Seq(Byte) /\ Len(Varint(p)) + Len(rest) <= Len(b)
          /\ (Len(Varint(p)) + Len(rest) = Len(b) => b = Varint(p) \o rest)
      BY <1>0, <2>3, <2>4, VarintIsShortest
    <3>2. Varint(p) \in Seq(Byte)
      BY <1>0, <2>4, VarintReadBack
    <3> QED BY <3>1, <3>2 DEF Holds
  <2> QED BY <2>4, <2>5, <2>6, <2>7
<1> QED BY <1>1, <1>2

\* An address is read back, found whatever follows, and needs its bytes.
LEMMA TakeAddrExtends ==
    /\ \A a \in Addrs, r \in Seq(Byte) : AddrBytes(a) \in Seq(Byte) /\ TakeAddr(AddrBytes(a) \o r) = Took(a, r)
    /\ \A b \in Seq(Byte) : TakeAddr(b) # Fail =>
         \E a \in Addrs, rest \in Seq(Byte) :
           /\ TakeAddr(b) = Took(a, rest) /\ Holds(b, AddrBytes(a), rest)
           /\ \A c \in Seq(Byte) : TakeAddr(b \o c) = Took(a, rest \o c)
<1>0. 5 \in Nat /\ 5 >= 3 /\ <<>> \in Seq(Byte)
  OBVIOUS
<1>a. \A a : AddrBytes(a) = <<VariantOf(a.ip)>> \o a.ip \o Varint(a.port)
  BY DEF AddrBytes, VariantOf
<1>b. \A ip : VariantOf(ip) \in 0..127
  BY DEF VariantOf
<1>c. \A ip : /\ Varint(VariantOf(ip)) = <<VariantOf(ip)>> /\ VariantOf(ip) \in U16
              /\ <<VariantOf(ip)>> \in Seq(Byte)
  BY <1>b, SmallVarint
<1>1. ASSUME NEW a \in Addrs, NEW r \in Seq(Byte)
      PROVE  AddrBytes(a) \in Seq(Byte) /\ TakeAddr(AddrBytes(a) \o r) = Took(a, r)
  <2>1. a = [ip |-> a.ip, port |-> a.port] /\ a.ip \in Ips /\ a.port \in U16 /\ a.ip \in Seq(Byte)
    BY AddrsAre DEF Ips
  <2>v. PICK v \in Seq(Byte) : v = <<VariantOf(a.ip)>>
    BY <1>c
  <2>p. PICK p \in Seq(Byte) : p = Varint(a.port)
    BY <2>1, TakePortExtends
  <2>2. v \in Seq(Byte) /\ p \in Seq(Byte) /\ TakePort(a.ip, p \o r) = Took(a, r)
    BY <2>1, <2>p, TakePortExtends
  <2>3. p \o r \in Seq(Byte) /\ a.ip \o (p \o r) \in Seq(Byte)
    BY <2>1, <2>2, ConcatIs
  <2>4. TakeIp(VariantOf(a.ip), a.ip \o (p \o r)) = Took(a.ip, p \o r)
    BY <2>1, <2>3, TakeIpIs
  <2>5. TakeVarint(v \o (a.ip \o (p \o r)), 5) = Took(VariantOf(a.ip), a.ip \o (p \o r))
    BY <1>0, <1>c, <2>3, <2>v, VarintReadBack
  <2>6. TakeAddr(v \o (a.ip \o (p \o r))) = Took(a, r)
    BY <2>2, <2>4, <2>5, TakeAddrIs
  <2>7. (v \o a.ip) \o p \in Seq(Byte) /\ ((v \o a.ip) \o p) \o r = v \o (a.ip \o (p \o r))
    <3>1. PICK i \in Seq(Byte) : i = a.ip
      BY <2>1
    <3>2. InFront(v, i, p, r)
      BY ThreeInFront, Zenon
    <3> QED BY <3>1, <3>2 DEF InFront
  <2>8. AddrBytes(a) = (v \o a.ip) \o p
    BY <1>a, <2>v, <2>p
  <2> QED BY <2>6, <2>7, <2>8
<1>2. ASSUME NEW b \in Seq(Byte), TakeAddr(b) # Fail
      PROVE  \E a \in Addrs, rest \in Seq(Byte) :
               /\ TakeAddr(b) = Took(a, rest) /\ Holds(b, AddrBytes(a), rest)
               /\ \A c \in Seq(Byte) : TakeAddr(b \o c) = Took(a, rest \o c)
  <2>1. TakeVarint(b, 5) # Fail
    BY <1>2, TakeAddrIs
  <2>2. TakeVarint(b, 5).ok
    BY <1>0, <2>1, TakeVarintIs, TookIs
  <2>3. PICK v \in Nat, r1 \in Seq(Byte) :
             /\ TakeVarint(b, 5) = Took(v, r1)
             /\ \A c \in Seq(Byte) : TakeVarint(b \o c, 5) = Took(v, r1 \o c)
    BY <1>0, <2>2, TakeVarintExtends
  <2>4. TakeIp(v, r1) # Fail
    BY <1>2, <2>3, TakeAddrIs
  <2>5. PICK ip \in Ips, r2 \in Seq(Byte) :
           /\ TakeIp(v, r1) = Took(ip, r2) /\ v = VariantOf(ip) /\ Holds(r1, ip, r2)
           /\ \A c \in Seq(Byte) : TakeIp(v, r1 \o c) = Took(ip, r2 \o c)
    BY <2>4, TakeIpIs
  <2>6. TakeAddr(b) = TakePort(ip, r2)
    BY <2>3, <2>5, TakeAddrIs
  <2>7. PICK p \in U16, rest \in Seq(Byte) :
                  /\ TakePort(ip, r2) = Took([ip |-> ip, port |-> p], rest) /\ Holds(r2, Varint(p), rest)
                  /\ \A c \in Seq(Byte) : TakePort(ip, r2 \o c) = Took([ip |-> ip, port |-> p], rest \o c)
    BY <1>2, <2>6, TakePortExtends
  <2> DEFINE a == [ip |-> ip, port |-> p]
  <2>8. a \in Addrs /\ a.ip = ip /\ a.port = p
    BY AddrsAre
  <2> HIDE DEF a
  <2>9. TakeAddr(b) = Took(a, rest)
    BY <2>6, <2>7 DEF a
  <2>10. ASSUME NEW c \in Seq(Byte) PROVE TakeAddr(b \o c) = Took(a, rest \o c)
    <3>1. TakeAddr(b \o c) = TakePort(ip, r2 \o c)
      BY <2>3, <2>5, TakeAddrIs
    <3> QED BY <2>7, <3>1 DEF a
  <2>11. Holds(b, AddrBytes(a), rest)
    <3>1. Holds(b, <<VariantOf(ip)>>, r1)
      <4>1. r1 \in Seq(Byte) /\ Len(Varint(v)) + Len(r1) <= Len(b)
            /\ (Len(Varint(v)) + Len(r1) = Len(b) => b = Varint(v) \o r1)
        <5>1. v \in U16
          BY <1>c, <2>5
        <5> QED BY <1>0, <2>3, <5>1, VarintIsShortest
      <4> QED BY <1>c, <2>5, <4>1 DEF Holds
    <3>2. Holds(b, <<VariantOf(ip)>> \o ip, r2)
      BY <2>5, <3>1, HoldsBoth
    <3>3. Holds(b, (<<VariantOf(ip)>> \o ip) \o Varint(p), rest)
      BY <2>7, <3>2, HoldsBoth
    <3> QED BY <1>a, <2>8, <3>3
  <2> QED BY <2>8, <2>9, <2>10, <2>11
<1> QED BY <1>1, <1>2

\* The steps of TicketFromBytes.
AfterAddr(hash, peer, addr, r) ==
    IF TakeBytes(r, KEY).ok
    THEN Took([hash |-> hash, peer |-> peer, addr |-> addr, token |-> TakeBytes(r, KEY).v], TakeBytes(r, KEY).rest)
    ELSE Fail
AfterPeer(hash, peer, r) ==
    IF peer \notin PublicKeys THEN Fail
    ELSE IF TakeAddr(r).ok THEN AfterAddr(hash, peer, TakeAddr(r).v, TakeAddr(r).rest) ELSE Fail
AfterHash(hash, r) ==
    IF Len(hash) # KEY THEN Fail
    ELSE IF TakeLp(r).ok THEN AfterPeer(hash, TakeLp(r).v, TakeLp(r).rest) ELSE Fail
\* TicketFromBytes goes through them.
LEMMA TicketFromBytesIs ==
    \A b : TicketFromBytes(b) = IF TakeLp(b).ok THEN AfterHash(TakeLp(b).v, TakeLp(b).rest) ELSE Fail
<1>1. \A hash, peer, addr, r :
        Then(TakeBytes(r, KEY), LAMBDA token, r4 :
             Took([hash |-> hash, peer |-> peer, addr |-> addr, token |-> token], r4))
        = AfterAddr(hash, peer, addr, r)
  BY DEF Then, AfterAddr
<1> QED BY DEF TicketFromBytes, Then, AfterAddr, AfterPeer, AfterHash

\* What each step does with what it is given.
LEMMA AfterIs ==
    /\ \A b : TakeLp(b) = Fail => TicketFromBytes(b) = Fail
    /\ \A b, v, r : TakeLp(b) = Took(v, r) => TicketFromBytes(b) = AfterHash(v, r)
  BY TicketFromBytesIs, TookIs

\* The hash must have KEY bytes.
LEMMA AfterHashIs ==
    /\ \A h, b : TakeLp(b) = Fail \/ Len(h) # KEY => AfterHash(h, b) = Fail
    /\ \A h, b, v, r : Len(h) = KEY /\ TakeLp(b) = Took(v, r) => AfterHash(h, b) = AfterPeer(h, v, r)
  BY TookIs DEF AfterHash

\* The peer must be a public key.
LEMMA AfterPeerIs ==
    /\ \A h, p, b : TakeAddr(b) = Fail \/ p \notin PublicKeys => AfterPeer(h, p, b) = Fail
    /\ \A h, p, b, v, r : p \in PublicKeys /\ TakeAddr(b) = Took(v, r) => AfterPeer(h, p, b) = AfterAddr(h, p, v, r)
  BY TookIs DEF AfterPeer

\* The token is the last part.
LEMMA AfterAddrIs ==
    /\ \A h, p, a, b : TakeBytes(b, KEY) = Fail => AfterAddr(h, p, a, b) = Fail
    /\ \A h, p, a, b, v, r : TakeBytes(b, KEY) = Took(v, r) =>
         AfterAddr(h, p, a, b) = Took([hash |-> h, peer |-> p, addr |-> a, token |-> v], r)
  BY TookIs DEF AfterAddr

\* Tickets.
Tickets == [hash : Keys, peer : PublicKeys, addr : Addrs, token : Keys]

\* A ticket is read back.
LEMMA TicketReadBack ==
    ASSUME NEW t \in Tickets
    PROVE  TicketBytes(t) \in Seq(Byte) /\ TicketFromBytes(TicketBytes(t)) = Took(t, <<>>)
<1>1. /\ t = [hash |-> t.hash, peer |-> t.peer, addr |-> t.addr, token |-> t.token]
      /\ t.hash \in Keys /\ t.peer \in PublicKeys /\ t.addr \in Addrs /\ t.token \in Keys
  BY DEF Tickets
<1>2. /\ t.hash \in Seq(Byte) /\ t.peer \in Seq(Byte) /\ t.token \in Seq(Byte)
      /\ Len(t.hash) = KEY /\ Len(t.peer) = KEY /\ Len(t.token) = KEY /\ KEY \in U16
  BY <1>1, KeysAre
<1>e. <<>> \in Seq(Byte)
  OBVIOUS
<1>h. PICK h \in Seq(Byte) : h = Lp(t.hash)
  BY <1>2, <1>e, LpReadBack
<1>p. PICK p \in Seq(Byte) : p = Lp(t.peer)
  BY <1>2, <1>e, LpReadBack
<1>a. PICK a \in Seq(Byte) : a = AddrBytes(t.addr)
  BY <1>1, <1>e, TakeAddrExtends
<1>k. PICK k \in Seq(Byte) : k = t.token
  BY <1>2
<1>3. TakeBytes(k, KEY) = Took(k, <<>>)
  <2>1. TakeBytes(k \o <<>>, Len(k)) = Took(k, <<>>)
    BY <1>e, TakeBytesIs
  <2>2. k \o <<>> = k
    OBVIOUS
  <2> QED BY <1>2, <1>k, <2>1, <2>2
<1>4. TakeAddr(a \o k) = Took(t.addr, k)
  BY <1>1, <1>a, TakeAddrExtends
<1>5. a \o k \in Seq(Byte) /\ p \o (a \o k) \in Seq(Byte) /\ h \o (p \o (a \o k)) \in Seq(Byte)
  BY ConcatIs
<1>6. TakeLp(p \o (a \o k)) = Took(t.peer, a \o k)
  BY <1>2, <1>5, <1>p, LpReadBack
<1>7. TakeLp(h \o (p \o (a \o k))) = Took(t.hash, p \o (a \o k))
  BY <1>2, <1>5, <1>h, LpReadBack
<1>8. TicketFromBytes(h \o (p \o (a \o k))) = Took(t, <<>>)
  <2>1. TicketFromBytes(h \o (p \o (a \o k))) = AfterHash(t.hash, p \o (a \o k))
    BY <1>7, AfterIs
  <2>2. AfterHash(t.hash, p \o (a \o k)) = AfterPeer(t.hash, t.peer, a \o k)
    BY <1>2, <1>6, AfterHashIs
  <2>3. AfterPeer(t.hash, t.peer, a \o k) = AfterAddr(t.hash, t.peer, t.addr, k)
    BY <1>1, <1>4, AfterPeerIs
  <2>4. AfterAddr(t.hash, t.peer, t.addr, k)
        = Took([hash |-> t.hash, peer |-> t.peer, addr |-> t.addr, token |-> k], <<>>)
    BY <1>3, AfterAddrIs
  <2>5. [hash |-> t.hash, peer |-> t.peer, addr |-> t.addr, token |-> k] = t
    BY <1>1, <1>k, Zenon
  <2> QED BY <2>1, <2>2, <2>3, <2>4, <2>5, Zenon
<1>9. ((h \o p) \o a) \o k = h \o (p \o (a \o k))
  <2>1. InFront(h, p, a, k)
    BY ThreeInFront, Zenon
  <2> QED BY <2>1 DEF InFront
<1>10. TicketBytes(t) = ((h \o p) \o a) \o k
  BY <1>h, <1>p, <1>a, <1>k DEF TicketBytes
<1> QED BY <1>5, <1>8, <1>9, <1>10

\* A ticket that was found is found whatever follows, and needs its bytes.
LEMMA TicketExtends ==
    ASSUME NEW b \in Seq(Byte), TicketFromBytes(b) # Fail
    PROVE  \E t \in Tickets, rest \in Seq(Byte) :
             /\ TicketFromBytes(b) = Took(t, rest) /\ Holds(b, TicketBytes(t), rest)
             /\ \A c \in Seq(Byte) : TicketFromBytes(b \o c) = Took(t, rest \o c)
<1>1. TakeLp(b) # Fail
  BY AfterIs
<1>2. PICK hash \in Seq(Byte), r1 \in Seq(Byte) :
             /\ TakeLp(b) = Took(hash, r1)
             /\ Len(hash) \in U16 => Holds(b, Lp(hash), r1)
             /\ \A c \in Seq(Byte) : TakeLp(b \o c) = Took(hash, r1 \o c)
  BY <1>1, TakeLpExtends
<1>3. TicketFromBytes(b) = AfterHash(hash, r1)
  BY <1>2, AfterIs
<1>4. TakeLp(r1) # Fail /\ Len(hash) = KEY
  BY <1>3, AfterHashIs
<1>5. PICK peer \in Seq(Byte), r2 \in Seq(Byte) :
             /\ TakeLp(r1) = Took(peer, r2)
             /\ Len(peer) \in U16 => Holds(r1, Lp(peer), r2)
             /\ \A c \in Seq(Byte) : TakeLp(r1 \o c) = Took(peer, r2 \o c)
  BY <1>4, TakeLpExtends
<1>6. AfterHash(hash, r1) = AfterPeer(hash, peer, r2)
  BY <1>4, <1>5, AfterHashIs
<1>7. TakeAddr(r2) # Fail /\ peer \in PublicKeys
  BY <1>3, <1>6, AfterPeerIs
<1>8. PICK addr \in Addrs, r3 \in Seq(Byte) :
           /\ TakeAddr(r2) = Took(addr, r3) /\ Holds(r2, AddrBytes(addr), r3)
           /\ \A c \in Seq(Byte) : TakeAddr(r2 \o c) = Took(addr, r3 \o c)
  BY <1>7, TakeAddrExtends
<1>9. AfterPeer(hash, peer, r2) = AfterAddr(hash, peer, addr, r3)
  BY <1>7, <1>8, AfterPeerIs
<1>10. TakeBytes(r3, KEY) # Fail
  BY <1>3, <1>6, <1>9, AfterAddrIs
<1>11. PICK token \in Seq(Byte), rest \in Seq(Byte) :
             /\ TakeBytes(r3, KEY) = Took(token, rest) /\ Len(token) = KEY /\ Holds(r3, token, rest)
             /\ \A c \in Seq(Byte) : TakeBytes(r3 \o c, KEY) = Took(token, rest \o c)
  BY <1>10, KeysAre, TakeBytesExtends
<1> DEFINE t == [hash |-> hash, peer |-> peer, addr |-> addr, token |-> token]
<1>12. hash \in Keys /\ token \in Keys /\ Len(hash) \in U16 /\ Len(peer) \in U16
  BY <1>4, <1>7, <1>11, KeysAre
<1>13. t \in Tickets /\ t.hash = hash /\ t.peer = peer /\ t.addr = addr /\ t.token = token
  BY <1>7, <1>12 DEF Tickets
<1>14. TicketBytes(t) = ((Lp(hash) \o Lp(peer)) \o AddrBytes(addr)) \o token
  BY <1>13 DEF TicketBytes
<1>15. AfterAddr(hash, peer, addr, r3) = Took(t, rest)
  BY <1>11, AfterAddrIs
<1> HIDE DEF t
<1>16. Holds(b, TicketBytes(t), rest)
  <2>1. Holds(b, Lp(hash) \o Lp(peer), r2)
    BY <1>2, <1>5, <1>12, HoldsBoth
  <2>2. Holds(b, (Lp(hash) \o Lp(peer)) \o AddrBytes(addr), r3)
    BY <1>8, <2>1, HoldsBoth
  <2>3. Holds(b, ((Lp(hash) \o Lp(peer)) \o AddrBytes(addr)) \o token, rest)
    BY <1>11, <2>2, HoldsBoth
  <2> QED BY <1>14, <2>3, Zenon
<1>17. ASSUME NEW c \in Seq(Byte) PROVE TicketFromBytes(b \o c) = Took(t, rest \o c)
  <2>1. TicketFromBytes(b \o c) = AfterHash(hash, r1 \o c)
    BY <1>2, AfterIs
  <2>2. AfterHash(hash, r1 \o c) = AfterPeer(hash, peer, r2 \o c)
    BY <1>4, <1>5, AfterHashIs
  <2>3. AfterPeer(hash, peer, r2 \o c) = AfterAddr(hash, peer, addr, r3 \o c)
    BY <1>7, <1>8, AfterPeerIs
  <2>4. AfterAddr(hash, peer, addr, r3 \o c) = Took(t, rest \o c)
    BY <1>11, AfterAddrIs DEF t
  <2> QED BY <2>1, <2>2, <2>3, <2>4, Zenon
<1>18. TicketFromBytes(b) = Took(t, rest)
  BY <1>3, <1>6, <1>9, <1>15, Zenon
<1> QED BY <1>13, <1>16, <1>17, <1>18, Zenon

\* The text of a ticket is read back; what is accepted is the text of the
\* bytes that are decoded.
LEMMA ParseTicketIs ==
    /\ \A t \in Tickets : TicketText(t) \in Seq(Character) /\ ParseTicket(TicketText(t)) = Took(t, <<>>)
    /\ \A given \in Seq(Character) : ParseTicket(given) # Fail =>
         \E b \in Seq(Byte) : /\ given = Encode(b, 6) /\ Len(given) = EncodedLen(Len(b), 6)
                              /\ ParseTicket(given) = TicketFromBytes(b)
<1>1. ASSUME NEW t \in Tickets
      PROVE  TicketText(t) \in Seq(Character) /\ ParseTicket(TicketText(t)) = Took(t, <<>>)
  <2>1. PICK b \in Seq(Byte) : b = TicketBytes(t) /\ TicketFromBytes(b) = Took(t, <<>>)
    BY TicketReadBack
  <2>2. TicketText(t) = Encode(b, 6)
    BY <2>1 DEF TicketText
  <2>3. Encode(b, 6) \in Seq(Character) /\ Decode(Encode(b, 6), 6) = Took(b, <<>>)
    BY EncodeIs, DecodeEncode
  <2>4. Took(b, <<>>).ok = TRUE /\ Took(b, <<>>).v = b
    BY TookIs
  <2>5. ParseTicket(TicketText(t)) = TicketFromBytes(b)
    BY <2>2, <2>3, <2>4 DEF ParseTicket, Then
  <2> QED BY <2>1, <2>2, <2>3, <2>5
<1>2. ASSUME NEW t \in Seq(Character), ParseTicket(t) # Fail
      PROVE  \E b \in Seq(Byte) : /\ t = Encode(b, 6) /\ Len(t) = EncodedLen(Len(b), 6)
                                  /\ ParseTicket(t) = TicketFromBytes(b)
  <2>1. Decode(t, 6) # Fail
    <3>1. Fail.ok = FALSE
      BY TookIs
    <3> QED BY <1>2, <3>1 DEF ParseTicket, Then
  <2>2. PICK b \in Seq(Byte) : Decode(t, 6) = Took(b, <<>>) /\ t = Encode(b, 6) /\ Len(t) = EncodedLen(Len(b), 6)
    BY <2>1, Decoded
  <2>3. Took(b, <<>>).ok = TRUE /\ Took(b, <<>>).v = b
    BY TookIs
  <2>4. ParseTicket(t) = TicketFromBytes(b)
    BY <2>2, <2>3 DEF ParseTicket, Then
  <2> QED BY <2>2, <2>4
<1> QED BY <1>1, <1>2

\* More bytes have no shorter encoding.
LEMMA EncodedLenGrows ==
    /\ \A l, m \in Nat : EncodedLen(l, 6) < EncodedLen(m, 6) => l < m
    /\ \A l, m \in Nat : EncodedLen(l, 6) = EncodedLen(m, 6) => l = m
<1>1. ASSUME NEW l \in Nat, NEW m \in Nat, l >= m PROVE EncodedLen(l, 6) >= EncodedLen(m, 6)
  BY <1>1, SMT DEF EncodedLen
<1>2. \A l \in Nat : EncodedLen(l, 6) \in Nat /\ DecodedLen(EncodedLen(l, 6), 6) = l
  BY Lengths
<1>3. \A l, m \in Nat : EncodedLen(l, 6) < EncodedLen(m, 6) => l < m
  BY <1>1, <1>2
<1>4. \A l, m \in Nat : EncodedLen(l, 6) = EncodedLen(m, 6) => l = m
  BY <1>2
<1> QED BY <1>3, <1>4

\* The bytes of a text that lost its end are the first of the bytes.
LEMMA EncodedFront ==
    ASSUME NEW a \in Seq(Byte), NEW b \in Seq(Byte), NEW i \in Nat, i < Len(Encode(b, 6)),
           Encode(a, 6) = SubSeq(Encode(b, 6), 1, i)
    PROVE  \E c \in Seq(Byte) : b = a \o c /\ Len(c) > 0
<1> DEFINE s == Encode(b, 6)
           t == Encode(a, 6)
           l == Len(a)
           m == Len(b)
<1>0. l \in Nat /\ m \in Nat
  OBVIOUS
<1>1. /\ s \in Seq(Character) /\ Len(s) = EncodedLen(m, 6)
      /\ \A k \in Nat : Bit(s, 6, k) = IF k < 6 * Len(s) THEN Bit(b, 8, k) ELSE 0
  BY EncodeIs
<1>2. /\ t \in Seq(Character) /\ Len(t) = EncodedLen(l, 6)
      /\ \A k \in Nat : Bit(t, 6, k) = IF k < 6 * Len(t) THEN Bit(a, 8, k) ELSE 0
  BY EncodeIs
<1> HIDE DEF s, t
<1>3. t = SubSeq(s, 1, i) /\ i \in 0..Len(s) /\ i < Len(s) /\ Len(s) \in Nat
  BY <1>1 DEF s, t
<1>4. Len(t) = i /\ \A j \in 1..i : t[j] = s[j]
  BY <1>1, <1>3, SplitAt
<1>5. l < m /\ 8 * l <= 6 * i
  <2> HIDE DEF l, m
  <2>1. l < m
    BY <1>0, <1>1, <1>2, <1>3, <1>4, EncodedLenGrows
  <2>2. 8 * l <= 6 * EncodedLen(l, 6)
    BY <1>0, Lengths
  <2> QED BY <1>2, <1>4, <2>1, <2>2
<1>6. 6 \in Widths /\ 8 \in Widths /\ s \in Seq(Nat) /\ t \in Seq(Nat) /\ a \in Seq(Nat) /\ b \in Seq(Nat)
  BY <1>1, <1>2, NumbersAre DEF Widths
<1> DEFINE x == SubSeq(b, 1, l)
           c == Drop(b, l)
<1>7. /\ x \in Seq(Byte) /\ Len(x) = l /\ (\A j \in 1..l : x[j] = b[j])
      /\ c \in Seq(Byte) /\ Len(c) = m - l /\ b = x \o c
  <2>1. l \in 0..Len(b)
    BY <1>0, <1>5
  <2> QED BY <2>1, SplitAt
<1> HIDE DEF x, c
<1>8. ASSUME NEW k \in Nat, k < 8 * l PROVE Bit(a, 8, k) = Bit(x, 8, k)
  <2>1. k < 6 * i
    BY <1>0, <1>3, <1>5, <1>8
  <2>2. k < 6 * Len(t) /\ k < 6 * Len(s)
    BY <1>3, <1>4, <2>1
  <2>3. Bit(t, 6, k) = Bit(a, 8, k) /\ Bit(s, 6, k) = Bit(b, 8, k)
    BY <1>1, <1>2, <2>2
  <2>4. Bit(t, 6, k) = Bit(s, 6, k)
    <3>1. /\ k \div 6 \in Nat /\ k \div 6 < Len(t) /\ k \div 6 < Len(s)
          /\ Bit(t, 6, k) = BitOf(t[k \div 6 + 1], 6, k % 6)
          /\ Bit(s, 6, k) = BitOf(s[k \div 6 + 1], 6, k % 6)
      BY <1>6, <2>2, BitIs
    <3>2. k \div 6 + 1 \in 1..i
      BY <1>3, <1>4, <3>1
    <3> QED BY <1>4, <3>1, <3>2
  <2>5. Bit(x, 8, k) = Bit(b, 8, k)
    <3>0. x \in Seq(Nat) /\ k < 8 * Len(x) /\ k < 8 * Len(b)
      BY <1>0, <1>5, <1>7, <1>8, NumbersAre
    <3>1. /\ k \div 8 \in Nat /\ k \div 8 < Len(x)
          /\ Bit(x, 8, k) = BitOf(x[k \div 8 + 1], 8, k % 8)
          /\ Bit(b, 8, k) = BitOf(b[k \div 8 + 1], 8, k % 8)
      BY <1>6, <3>0, BitIs
    <3>2. k \div 8 + 1 \in 1..l
      BY <1>0, <1>7, <3>1
    <3> QED BY <1>7, <3>1, <3>2
  <2> QED BY <2>3, <2>4, <2>5
<1>9. a \in [1..l -> SymbolOf(8)] /\ x \in [1..l -> SymbolOf(8)]
  BY <1>7, ByteIs
<1> HIDE DEF l, m
<1>10. a = x
  BY <1>0, <1>6, <1>8, <1>9, SameBits
<1>11. Len(c) > 0
  BY <1>0, <1>5, <1>7
<1> QED BY <1>7, <1>10, <1>11

\* The text of a ticket that lost its end is refused.
LEMMA TicketCutRefused ==
    ASSUME NEW t \in Tickets, NEW i \in Nat, i < Len(TicketText(t))
    PROVE  ParseTicket(SubSeq(TicketText(t), 1, i)) = Fail
<1> DEFINE cut == SubSeq(TicketText(t), 1, i)
<1> SUFFICES ASSUME ParseTicket(cut) # Fail PROVE FALSE
  OBVIOUS
<1>1. PICK b \in Seq(Byte) : b = TicketBytes(t) /\ TicketFromBytes(b) = Took(t, <<>>)
  BY TicketReadBack
<1>2. TicketText(t) = Encode(b, 6)
  BY <1>1 DEF TicketText
<1>3. cut \in Seq(Character)
  <2>1. TicketText(t) \in Seq(Character)
    BY ParseTicketIs
  <2>2. i \in 0..Len(TicketText(t))
    BY <2>1
  <2> QED BY <2>1, <2>2, SplitAt
<1> HIDE DEF cut
<1>4. PICK a \in Seq(Byte) : cut = Encode(a, 6) /\ ParseTicket(cut) = TicketFromBytes(a)
  BY <1>3, ParseTicketIs
<1>5. PICK c \in Seq(Byte) : b = a \o c /\ Len(c) > 0
  <2>1. i < Len(Encode(b, 6)) /\ Encode(a, 6) = SubSeq(Encode(b, 6), 1, i)
    BY <1>2, <1>4 DEF cut
  <2> QED BY <2>1, EncodedFront
<1>6. PICK u \in Tickets, rest \in Seq(Byte) : \A d \in Seq(Byte) : TicketFromBytes(a \o d) = Took(u, rest \o d)
  BY <1>4, TicketExtends
<1>7. Took(t, <<>>) = Took(u, rest \o c)
  <2>1. TicketFromBytes(a \o c) = Took(u, rest \o c)
    BY <1>6, Zenon
  <2> QED BY <1>1, <1>5, <2>1, SMT
<1>8. rest \o c = <<>>
  <2>1. PICK q : q = rest \o c
    OBVIOUS
  <2>2. Took(t, <<>>) = Took(u, q)
    BY <1>7, <2>1
  <2>3. q = <<>>
    BY <2>2, TookIs
  <2> QED BY <2>1, <2>3
<1>9. Len(rest \o c) = Len(rest) + Len(c) /\ Len(rest) \in Nat /\ Len(c) \in Nat
  BY ConcatIs
<1> QED BY <1>5, <1>8, <1>9

\* A text of the same length that is taken for the ticket is its text.
LEMMA TicketChangedIsSeen ==
    ASSUME NEW t \in Tickets, NEW given \in Seq(Character), NEW rest,
           Len(given) = Len(TicketText(t)), ParseTicket(given) = Took(t, rest)
    PROVE  given = TicketText(t)
<1>1. PICK b \in Seq(Byte) : b = TicketBytes(t)
  BY TicketReadBack
<1>2. TicketText(t) = Encode(b, 6)
  BY <1>1 DEF TicketText
<1>3. PICK a \in Seq(Byte) : /\ given = Encode(a, 6) /\ Len(given) = EncodedLen(Len(a), 6)
                             /\ ParseTicket(given) = TicketFromBytes(a)
  BY ParseTicketIs, TookIs
<1>4. Len(a) = Len(b)
  <2>1. Len(Encode(b, 6)) = EncodedLen(Len(b), 6)
    BY EncodeIs
  <2>2. Len(a) \in Nat /\ Len(b) \in Nat
    OBVIOUS
  <2> QED BY <1>2, <1>3, <2>1, <2>2, EncodedLenGrows
<1>5. PICK u \in Tickets, r \in Seq(Byte) : TicketFromBytes(a) = Took(u, r) /\ Holds(a, TicketBytes(u), r)
  BY <1>3, TicketExtends, TookIs
<1>6. u = t
  BY <1>3, <1>5, TookIs
<1>7. Holds(a, b, r)
  BY <1>1, <1>5, <1>6
<1>8. Len(r) = 0 /\ a = b \o r
  <2>1. Len(r) \in Nat /\ Len(b) \in Nat /\ Len(b) + Len(r) <= Len(a)
    BY <1>7 DEF Holds
  <2>2. Len(r) = 0
    BY <1>4, <2>1
  <2> QED BY <1>4, <1>7, <2>1, <2>2 DEF Holds
<1>9. a = b
  BY <1>8
<1> QED BY <1>2, <1>3, <1>9

(***************************************************************************)
(* The messages.                                                           *)
(***************************************************************************)

\* A number of up to 63 bits is written in the bytes of its length.
LEMMA VarintEnds ==
    ASSUME NEW n \in Nat, VarintLen(n) \in 1..10
    PROVE  Varint(n) \in Seq(Byte) /\ Len(Varint(n)) = VarintLen(n) /\ EndsAt(Varint(n), 10, VarintLen(n))
<1> DEFINE l == VarintLen(n)
           low(i) == Shifted(n, 128, l)[i - 1] % 128
           w == Varint(n)
<1>1. \A i \in 0..l : Shifted(n, 128, l)[i] \in Nat
  <2>1. PICK b \in Bases : b = 128
    BY DEF Bases
  <2>2. l \in Nat
    OBVIOUS
  <2>3. Shifted(n, b, l) \in [0..l -> Nat]
    BY <2>2, ShiftedIs, Zenon
  <2> QED BY <2>1, <2>3
<1>2. w = [i \in 1..l |-> low(i) + (IF i < l THEN 128 ELSE 0)]
  BY DEF Varint
<1>3. l \in 1..10
  OBVIOUS
<1> HIDE DEF l
<1>4. ASSUME NEW i \in 1..l PROVE low(i) \in 0..127
  <2>1. i - 1 \in 0..l
    BY <1>3
  <2>2. ASSUME NEW x \in Nat PROVE x % 128 \in 0..127
    OBVIOUS
  <2> QED BY <1>1, <2>1, <2>2
<1> HIDE DEF low, w
<1>5. ASSUME NEW i \in 1..l
      PROVE  w[i] \in Byte /\ (i < l => ~(w[i] < 128)) /\ (i = l => w[i] < 128)
  <2>1. w[i] = low(i) + (IF i < l THEN 128 ELSE 0) /\ low(i) \in 0..127
    BY <1>2, <1>4
  <2> QED BY <1>3, <2>1 DEF Byte
<1>6. w \in [1..l -> Byte]
  BY <1>2, <1>5
<1>7. w \in Seq(Byte) /\ Len(w) = l
  BY <1>3, <1>6
<1>8. EndsAt(w, 10, l)
  <2>1. l \in 1..Len(w) /\ l <= 10 /\ w[l] < 128
    BY <1>3, <1>5, <1>7
  <2>2. \A i \in 1..(l - 1) : ~(w[i] < 128)
    BY <1>3, <1>5
  <2> QED BY <2>1, <2>2 DEF EndsAt
<1> QED BY <1>7, <1>8 DEF l, w

\* The handshake is read back.
LEMMA HandshakeReadBack ==
    ASSUME NEW token \in Keys
    PROVE  /\ HandshakeMsg(token) \in Seq(Byte) /\ Len(HandshakeMsg(token)) = KEY + 1
           /\ HandshakeFrom(HandshakeMsg(token)) = Took([version |-> VERSION, token |-> token], <<>>)
<1>1. token \in Seq(Byte) /\ Len(token) = KEY /\ KEY \in Nat
  BY KeysAre
<1>2. Varint(VERSION) = <<1>> /\ 1 \in U16 /\ <<1>> \in Seq(Byte)
  BY SmallVarint DEF VERSION
<1>3. TakeVarint(<<1>> \o token, 10) = Took(1, token)
  <2>1. 10 \in Nat /\ 10 >= 3
    OBVIOUS
  <2>2. Varint(1) = <<1>>
    BY <1>2 DEF VERSION
  <2> QED BY <1>1, <1>2, <2>1, <2>2, VarintReadBack
<1>4. TakeBytes(token, KEY) = Took(token, <<>>)
  <2>1. TakeBytes(token \o <<>>, Len(token)) = Took(token, <<>>)
    <3>1. <<>> \in Seq(Byte)
      OBVIOUS
    <3> QED BY <1>1, <3>1, TakeBytesIs
  <2>2. token \o <<>> = token
    BY <1>1
  <2> QED BY <1>1, <2>1, <2>2
<1>5. HandshakeMsg(token) = <<1>> \o token
  BY <1>2 DEF HandshakeMsg
<1>6. HandshakeFrom(HandshakeMsg(token)) = Took([version |-> 1, token |-> token], <<>>)
  <2>1. /\ Took(1, token).ok = TRUE /\ Took(1, token).v = 1 /\ Took(1, token).rest = token
        /\ Took(token, <<>>).ok = TRUE /\ Took(token, <<>>).v = token /\ Took(token, <<>>).rest = <<>>
    BY TookIs
  <2> QED BY <1>3, <1>4, <1>5, <2>1 DEF HandshakeFrom, Then
<1>7. HandshakeMsg(token) \in Seq(Byte) /\ Len(HandshakeMsg(token)) = KEY + 1
  <2>1. <<1>> \o token \in Seq(Byte) /\ Len(<<1>> \o token) = Len(<<1>>) + Len(token)
    BY <1>1, <1>2, ConcatIs
  <2>2. Len(<<1>>) = 1
    OBVIOUS
  <2> QED BY <1>1, <1>5, <2>1, <2>2
<1> QED BY <1>6, <1>7 DEF VERSION

\* The request is read back.
LEMMA RequestReadBack ==
    ASSUME NEW hash \in Keys
    PROVE  /\ RequestMsg(hash) \in Seq(Byte) /\ Len(RequestMsg(hash)) = KEY + 2
           /\ RequestFrom(RequestMsg(hash)) = Took([id |-> 1, name |-> hash], <<>>)
<1>1. hash \in Seq(Byte) /\ Len(hash) = KEY /\ KEY \in 1..127 /\ KEY \in U16
  BY KeysAre
<1>2. Varint(1) = <<1>> /\ 1 \in U16 /\ <<1>> \in Seq(Byte)
  BY SmallVarint
<1>3. PICK p \in Seq(Byte) : p = Lp(hash) /\ TakeLp(p) = Took(hash, <<>>) /\ Len(p) = KEY + 1
  <2>1. <<>> \in Seq(Byte)
    OBVIOUS
  <2>2. Lp(hash) \in Seq(Byte) /\ TakeLp(Lp(hash) \o <<>>) = Took(hash, <<>>)
    BY <1>1, <2>1, LpReadBack
  <2>3. Lp(hash) \o <<>> = Lp(hash)
    <3>1. \A b \in Seq(Byte) : b \o <<>> = b
      OBVIOUS
    <3> QED BY <2>2, <3>1
  <2>4. Varint(KEY) = <<KEY>> /\ <<KEY>> \in Seq(Byte)
    <3>1. KEY \in 0..127
      BY <1>1
    <3> QED BY <3>1, SmallVarint
  <2>5. Lp(hash) = <<KEY>> \o hash
    BY <1>1, <2>4 DEF Lp
  <2>6. Len(<<KEY>> \o hash) = Len(<<KEY>>) + Len(hash) /\ Len(<<KEY>>) = 1
    BY <1>1, <2>4, ConcatIs
  <2>7. Len(Lp(hash)) = KEY + 1
    BY <1>1, <2>5, <2>6
  <2>8. TakeLp(Lp(hash)) = Took(hash, <<>>) /\ Lp(hash) \in Seq(Byte)
    BY <2>2, <2>3
  <2> QED BY <2>7, <2>8
<1>4. TakeVarint(<<1>> \o p, 10) = Took(1, p)
  <2>1. 10 \in Nat /\ 10 >= 3
    OBVIOUS
  <2> QED BY <1>2, <2>1, VarintReadBack
<1>5. RequestMsg(hash) = <<1>> \o p
  BY <1>2, <1>3 DEF RequestMsg
<1>6. RequestFrom(RequestMsg(hash)) = Took([id |-> 1, name |-> hash], <<>>)
  <2>1. /\ Took(1, p).ok = TRUE /\ Took(1, p).v = 1 /\ Took(1, p).rest = p
        /\ Took(hash, <<>>).ok = TRUE /\ Took(hash, <<>>).v = hash /\ Took(hash, <<>>).rest = <<>>
    BY TookIs
  <2> QED BY <1>1, <1>3, <1>4, <1>5, <2>1 DEF RequestFrom, Then
<1>7. RequestMsg(hash) \in Seq(Byte) /\ Len(RequestMsg(hash)) = KEY + 2
  <2>1. <<1>> \o p \in Seq(Byte) /\ Len(<<1>> \o p) = Len(<<1>>) + Len(p)
    BY <1>2, ConcatIs
  <2>2. Len(<<1>>) = 1
    OBVIOUS
  <2> QED BY <1>1, <1>3, <1>5, <2>1, <2>2
<1> QED BY <1>6, <1>7

\* The response is read back: found, if the hash is that of the provider's collection.
LEMMA ResponseReadBack ==
    ASSUME NEW hash, listener.id \in ProviderIds
    PROVE  /\ ResponseMsg(1, hash) \in Seq(Byte) /\ Len(ResponseMsg(1, hash)) <= 12
           /\ ResponseFrom(ResponseMsg(1, hash)) = Took(IF hash = Own.hash THEN "found" ELSE "notfound", <<>>)
<1>1. /\ Varint(1) = <<1>> /\ 1 \in U16 /\ <<1>> \in Seq(Byte)
      /\ Varint(2) = <<2>> /\ 2 \in U16 /\ <<2>> \in Seq(Byte)
      /\ Varint(0) = <<0>> /\ 0 \in U16 /\ <<0>> \in Seq(Byte)
  BY SmallVarint
<1>2. 10 \in Nat /\ 10 >= 3 /\ 5 \in Nat /\ 5 >= 3 /\ <<>> \in Seq(Byte)
  OBVIOUS
<1>3. Own.size \in Nat /\ VarintLen(Own.size) \in 1..10
  BY SessionAssumption DEF Own
<1>4. PICK v \in Seq(Byte) : v = Varint(Own.size) /\ Len(v) <= 10
                             /\ TakeVarint(v, 10) = Took(Value(v, Len(v)), <<>>)
  <2>1. PICK v \in Seq(Byte) : v = Varint(Own.size) /\ Len(v) \in 1..10 /\ EndsAt(v, 10, Len(v))
    BY <1>3, VarintEnds
  <2>2. TakeVarint(v, 10) = Took(Value(v, Len(v)), Drop(v, Len(v)))
    BY <1>2, <2>1, TakeVarintIs
  <2>3. Drop(v, Len(v)) = <<>>
    <3>1. Len(v) \in 0..Len(v) /\ Len(v) - Len(v) = 0
      OBVIOUS
    <3>2. Drop(v, Len(v)) \in Seq(Byte) /\ Len(Drop(v, Len(v))) = 0
      BY <3>1, SplitAt
    <3>3. \A b \in Seq(Byte) : Len(b) = 0 => b = <<>>
      OBVIOUS
    <3> QED BY <3>2, <3>3
  <2>4. TakeVarint(v, 10) = Took(Value(v, Len(v)), <<>>)
    BY <2>2, <2>3
  <2>5. Len(v) <= 10
    <3>1. \A k \in 1..10 : k <= 10
      OBVIOUS
    <3> QED BY <2>1, <3>1, Zenon
  <2> QED BY <2>1, <2>4, <2>5
<1> DEFINE sum == Value(v, Len(v))
           body == IF hash = Own.hash THEN <<2>> \o v ELSE <<0>>
<1>5. ResponseMsg(1, hash) = <<1>> \o body
  BY <1>1, <1>4 DEF ResponseMsg
<1>6. body \in Seq(Byte) /\ Len(body) <= 11
  <2>1. <<2>> \o v \in Seq(Byte) /\ Len(<<2>> \o v) = Len(<<2>>) + Len(v) /\ Len(<<2>>) = 1 /\ Len(<<0>>) = 1
    BY <1>1, ConcatIs
  <2>2. Len(v) \in Nat
    OBVIOUS
  <2> QED BY <1>1, <1>4, <2>1, <2>2
<1>7. TakeVarint(body, 5) = IF hash = Own.hash THEN Took(2, v) ELSE Took(0, <<>>)
  <2>1. TakeVarint(<<2>> \o v, 5) = Took(2, v)
    BY <1>1, <1>2, VarintReadBack
  <2>2. TakeVarint(<<0>> \o <<>>, 5) = Took(0, <<>>)
    BY <1>1, <1>2, VarintReadBack
  <2>3. <<0>> \o <<>> = <<0>>
    OBVIOUS
  <2> QED BY <2>1, <2>2, <2>3
<1> HIDE DEF sum, body
<1>8. TakeVarint(<<1>> \o body, 10) = Took(1, body)
  BY <1>1, <1>2, <1>6, VarintReadBack
<1>9. <<1>> \o body \in Seq(Byte) /\ Len(<<1>> \o body) <= 12
  <2>1. <<1>> \o body \in Seq(Byte) /\ Len(<<1>> \o body) = Len(<<1>>) + Len(body) /\ Len(<<1>>) = 1
    BY <1>1, <1>6, ConcatIs
  <2>2. Len(body) \in Nat
    BY <1>6
  <2> QED BY <1>6, <2>1, <2>2
<1> DEFINE after(r2) == IF TakeVarint(r2, 10).ok THEN Took("found", TakeVarint(r2, 10).rest) ELSE Fail
           next(r) == IF TakeVarint(r, 5).ok
                      THEN IF TakeVarint(r, 5).v = 2 THEN after(TakeVarint(r, 5).rest)
                           ELSE IF TakeVarint(r, 5).v < 2 THEN Took("notfound", TakeVarint(r, 5).rest) ELSE Fail
                      ELSE Fail
<1>10. \A b : ResponseFrom(b) = IF TakeVarint(b, 10).ok THEN next(TakeVarint(b, 10).rest) ELSE Fail
  BY DEF ResponseFrom, Then
<1>11. ResponseFrom(<<1>> \o body) = next(body)
  <2> HIDE DEF next
  <2>1. Took(1, body).ok = TRUE /\ Took(1, body).rest = body
    BY TookIs
  <2> QED BY <1>8, <1>10, <2>1
<1>12. CASE hash = Own.hash
  <2>1. TakeVarint(body, 5) = Took(2, v) /\ TakeVarint(v, 10) = Took(sum, <<>>)
    BY <1>4, <1>7, <1>12 DEF sum
  <2>2. /\ Took(2, v).ok = TRUE /\ Took(2, v).v = 2 /\ Took(2, v).rest = v
        /\ Took(sum, <<>>).ok = TRUE /\ Took(sum, <<>>).rest = <<>>
    BY TookIs
  <2>3. next(body) = after(v)
    BY <2>1, <2>2
  <2>4. after(v) = Took("found", <<>>)
    BY <2>1, <2>2
  <2> QED BY <1>5, <1>9, <1>11, <1>12, <2>3, <2>4
<1>13. CASE hash # Own.hash
  <2>1. TakeVarint(body, 5) = Took(0, <<>>)
    BY <1>7, <1>13
  <2>2. Took(0, <<>>).ok = TRUE /\ Took(0, <<>>).v = 0 /\ Took(0, <<>>).rest = <<>> /\ 0 # 2 /\ 0 < 2
    BY TookIs
  <2>3. next(body) = Took("notfound", <<>>)
    BY <2>1, <2>2
  <2> QED BY <1>5, <1>9, <1>11, <1>13, <2>3
<1> QED BY <1>12, <1>13

(***************************************************************************)
(* Reading messages off a stream.                                          *)
(***************************************************************************)

\* What write_lp puts on the stream: the length and the message.
LEMMA WrittenIs ==
    ASSUME NEW msg \in Seq(Byte), Len(msg) <= MAX_MESSAGE_SIZE
    PROVE  /\ Written(msg) \in Seq(Byte) /\ Len(Written(msg)) = PREFIX + Len(msg)
           /\ \A i \in 1..PREFIX : Written(msg)[i] = LittleEndian(Len(msg))[i]
           /\ \A i \in 1..Len(msg) : Written(msg)[PREFIX + i] = msg[i]
           /\ LittleEndian(Len(msg)) \in [1..PREFIX -> Byte] /\ Number(LittleEndian(Len(msg)), 256) = Len(msg)
<1>1. Len(msg) \in 0..MAX_MESSAGE_SIZE /\ PREFIX \in Nat
  BY FramingAssumption
<1>2. LittleEndian(Len(msg)) \in [1..PREFIX -> Byte] /\ Number(LittleEndian(Len(msg)), 256) = Len(msg)
  BY <1>1, PrefixReadBack
<1>3. PICK e \in [1..PREFIX -> Byte] : e = LittleEndian(Len(msg))
  BY <1>2
<1>4. e \in Seq(Byte) /\ Len(e) = PREFIX
  BY <1>1, <1>3
<1>5. Written(msg) = e \o msg
  BY <1>3 DEF Written
<1>6. /\ e \o msg \in Seq(Byte) /\ Len(e \o msg) = Len(e) + Len(msg)
      /\ \A i \in 1..Len(e) : (e \o msg)[i] = e[i]
      /\ \A i \in 1..Len(msg) : (e \o msg)[Len(e) + i] = msg[i]
  BY <1>4, ConcatIs
<1> QED BY <1>2, <1>3, <1>4, <1>5, <1>6

\* The stream carries msg from base on, as far as it goes.
Carries(msg, base) ==
    \A i \in 1..(PREFIX + Len(msg)) : base + i <= Len(bytes) => bytes[base + i] = Written(msg)[i]
\* Where the reader is with it, and what it holds.
Frame(msg, base) ==
    /\ bytes \in Seq(Byte) /\ rd \in 0..Len(bytes) /\ Carries(msg, base)
    /\ \/ rpc = "prefix" /\ rd = base /\ buf = <<>>
       \/ /\ rpc = "body" /\ size = Len(msg) /\ limit = size - Len(buf) /\ Len(buf) <= size
          /\ buf \in Seq(Byte) /\ \A i \in 1..Len(buf) : buf[i] = msg[i]
          /\ rd = base + PREFIX + Len(buf)
       \/ rpc = "message" /\ size = Len(msg) /\ buf = msg /\ rd = base + PREFIX + size
       \/ rpc \in {"none", "panicked"} /\ Len(bytes) < base + PREFIX + Len(msg)

\* read_prefix, read_lp and read_lp_data: each step of the reader leaves it at
\* its place in the message, however many bytes a read returns.
LEMMA FrameStep ==
    ASSUME NEW msg \in Seq(Byte), Len(msg) <= MAX_MESSAGE_SIZE, NEW base \in Nat,
           Frame(msg, base), ReadStep
    PROVE  Frame(msg, base)' /\ bytes' = bytes
<1>0. /\ Len(msg) \in Nat /\ PREFIX \in Nat /\ bytes \in Seq(Byte) /\ Len(bytes) \in Nat /\ rd \in 0..Len(bytes)
      /\ \A i \in 1..(PREFIX + Len(msg)) : base + i <= Len(bytes) => bytes[base + i] = Written(msg)[i]
  <2>1. bytes \in Seq(Byte) /\ rd \in 0..Len(bytes) /\ Carries(msg, base)
    BY Zenon DEF Frame
  <2>2. \A i \in 1..(PREFIX + Len(msg)) : base + i <= Len(bytes) => bytes[base + i] = Written(msg)[i]
    BY <2>1, Zenon DEF Carries
  <2>3. Len(msg) \in Nat /\ Len(bytes) \in Nat /\ PREFIX \in Nat
    BY <2>1, FramingAssumption
  <2> QED BY <2>1, <2>2, <2>3
<1>1. CASE ReadPrefix
  <2>1. /\ rpc = "prefix" /\ Len(bytes) - rd >= PREFIX /\ bytes' = bytes /\ buf' = buf /\ rpc' = "body"
        /\ rd' = rd + PREFIX /\ limit' = size' /\ size' = Number(SubSeq(bytes, rd + 1, rd + PREFIX), 256)
    BY <1>1 DEF ReadPrefix, Left
  <2>2. rd = base /\ buf = <<>>
    BY <2>1 DEF Frame
  <2>3. PICK q : q = SubSeq(bytes, rd + 1, rd + PREFIX)
    OBVIOUS
  <2>4. q = [i \in 1..PREFIX |-> bytes[base + i]]
    <3>1. q \in Seq(Byte) /\ Len(q) = PREFIX /\ \A i \in 1..PREFIX : q[i] = bytes[rd + i]
      BY <1>0, <2>1, <2>3
    <3> QED BY <1>0, <2>2, <3>1
  <2>5. LittleEndian(Len(msg)) \in [1..PREFIX -> Byte] /\ Number(LittleEndian(Len(msg)), 256) = Len(msg)
        /\ \A i \in 1..PREFIX : Written(msg)[i] = LittleEndian(Len(msg))[i]
    BY WrittenIs
  <2>6. PICK e \in [1..PREFIX -> Byte] :
          e = LittleEndian(Len(msg)) /\ \A i \in 1..PREFIX : Written(msg)[i] = e[i]
    BY <2>5
  <2>7. ASSUME NEW i \in 1..PREFIX PROVE bytes[base + i] = e[i]
    <3>1. i \in 1..(PREFIX + Len(msg)) /\ base + i <= Len(bytes)
      BY <1>0, <2>1, <2>2
    <3> QED BY <1>0, <2>6, <3>1
  <2>8. q = e
    BY <2>4, <2>6, <2>7
  <2>9. size' = Len(msg)
    BY <2>1, <2>3, <2>5, <2>6, <2>8, Zenon
  <2>10. rd' \in 0..Len(bytes)
    BY <1>0, <2>1
  <2>11. Carries(msg, base)'
    BY <1>0, <2>1 DEF Carries
  <2>12. buf' = <<>> /\ Len(buf') = 0 /\ buf' \in Seq(Byte) /\ rd' = base + PREFIX + Len(buf')
         /\ limit' = size' - Len(buf') /\ Len(buf') <= size'
    BY <1>0, <2>1, <2>2, <2>9
  <2> QED BY <1>0, <2>1, <2>9, <2>10, <2>11, <2>12 DEF Frame
<1>2. CASE PrefixEnds
  <2>1. rpc = "prefix" /\ Len(bytes) - rd < PREFIX /\ rd' = Len(bytes) /\ rpc' = "none" /\ bytes' = bytes
    BY <1>2 DEF PrefixEnds, Left
  <2>2. rd = base
    BY <2>1 DEF Frame
  <2>3. rd' \in 0..Len(bytes) /\ Len(bytes) < base + PREFIX + Len(msg)
    BY <1>0, <2>1, <2>2
  <2>4. Carries(msg, base)'
    BY <1>0, <2>1 DEF Carries
  <2> QED BY <1>0, <2>1, <2>3, <2>4 DEF Frame
<1>3. ASSUME NEW n \in 1..Left, ReadBuf(n) PROVE Frame(msg, base)' /\ bytes' = bytes
  <2>1. /\ rpc = "body" /\ n <= limit /\ n <= Len(bytes) - rd /\ bytes' = bytes /\ size' = size /\ rpc' = rpc
        /\ rd' = rd + n /\ limit' = limit - n /\ buf' = buf \o SubSeq(bytes, rd + 1, rd + n)
        /\ n \in Int /\ n >= 1
    <3>1. Left \in Int
      BY <1>0 DEF Left
    <3> QED BY <1>3, <3>1 DEF ReadBuf, Left
  <2>2. /\ size = Len(msg) /\ limit = size - Len(buf) /\ Len(buf) <= size /\ buf \in Seq(Byte)
        /\ rd = base + PREFIX + Len(buf) /\ Len(buf) \in Nat
        /\ \A i \in 1..Len(buf) : buf[i] = msg[i]
    BY <2>1 DEF Frame
  <2>3. PICK q : q = SubSeq(bytes, rd + 1, rd + n)
    OBVIOUS
  <2>4. q \in Seq(Byte) /\ Len(q) = n /\ \A i \in 1..n : q[i] = bytes[rd + i]
    BY <1>0, <2>1, <2>3
  <2>5. ASSUME NEW i \in 1..n PROVE q[i] = msg[Len(buf) + i]
    <3> DEFINE k == PREFIX + (Len(buf) + i)
    <3>1. k \in 1..(PREFIX + Len(msg)) /\ base + k <= Len(bytes) /\ base + k = rd + i /\ i \in Nat
          /\ Len(buf) + i \in 1..Len(msg)
      BY <1>0, <2>1, <2>2
    <3> HIDE DEF k
    <3>2. bytes[rd + i] = Written(msg)[k]
      BY <1>0, <3>1
    <3>3. Written(msg)[PREFIX + (Len(buf) + i)] = msg[Len(buf) + i]
      BY <3>1, WrittenIs
    <3> QED BY <2>4, <3>2, <3>3 DEF k
  <2>6. /\ buf' \in Seq(Byte) /\ Len(buf') = Len(buf) + n
        /\ \A i \in 1..Len(buf) : buf'[i] = buf[i]
        /\ \A i \in 1..n : buf'[Len(buf) + i] = q[i]
    <3>1. PICK b \in Seq(Byte) : b = buf
      BY <2>2
    <3>2. buf' = b \o q
      BY <2>1, <2>3, <3>1, Zenon
    <3>3. /\ b \o q \in Seq(Byte) /\ Len(b \o q) = Len(b) + Len(q)
          /\ \A i \in 1..Len(b) : (b \o q)[i] = b[i]
          /\ \A i \in 1..Len(q) : (b \o q)[Len(b) + i] = q[i]
      BY <2>4, ConcatIs
    <3> QED BY <2>4, <3>1, <3>2, <3>3
  <2>7. ASSUME NEW i \in 1..Len(buf') PROVE buf'[i] = msg[i]
    <3>1. CASE i <= Len(buf)
      BY <2>1, <2>2, <2>6, <3>1
    <3>2. CASE ~(i <= Len(buf))
      <4>1. i - Len(buf) \in 1..n /\ Len(buf) + (i - Len(buf)) = i
        BY <2>1, <2>2, <2>6, <3>2
      <4> QED BY <2>5, <2>6, <4>1
    <3> QED BY <3>1, <3>2
  <2>8. rd' \in 0..Len(bytes) /\ rd' = base + PREFIX + Len(buf') /\ limit' = size' - Len(buf') /\ Len(buf') <= size'
    BY <1>0, <2>1, <2>2, <2>6
  <2>9. Carries(msg, base)'
    BY <1>0, <2>1 DEF Carries
  <2> QED BY <1>0, <2>1, <2>2, <2>6, <2>7, <2>8, <2>9 DEF Frame
<1>4. CASE LoopEnds
  <2>1. /\ rpc = "body" /\ (limit = 0 \/ Len(bytes) - rd = 0) /\ bytes' = bytes /\ rd' = rd /\ size' = size
        /\ buf' = buf /\ rpc' = IF Len(buf) >= size THEN "message" ELSE "panicked"
    BY <1>4 DEF LoopEnds, Left
  <2>2. /\ size = Len(msg) /\ limit = size - Len(buf) /\ Len(buf) <= size /\ buf \in Seq(Byte)
        /\ rd = base + PREFIX + Len(buf) /\ Len(buf) \in Nat
        /\ \A i \in 1..Len(buf) : buf[i] = msg[i]
    BY <2>1 DEF Frame
  <2>3. Carries(msg, base)'
    BY <1>0, <2>1 DEF Carries
  <2>4. CASE Len(buf) >= size
    <3>1. Len(buf) = Len(msg)
      BY <1>0, <2>2, <2>4
    <3>2. buf = msg
      BY <2>2, <3>1
    <3>3. rd = base + PREFIX + size /\ rpc' = "message"
      BY <2>1, <2>2, <2>4, <3>1
    <3> QED BY <1>0, <2>1, <2>2, <2>3, <3>2, <3>3 DEF Frame
  <2>5. CASE ~(Len(buf) >= size)
    <3>1. Len(bytes) < base + PREFIX + Len(msg)
      BY <1>0, <2>1, <2>2, <2>5
    <3> QED BY <1>0, <2>1, <2>3, <2>5, <3>1 DEF Frame
  <2> QED BY <2>4, <2>5
<1> QED BY <1>1, <1>2, <1>3, <1>4 DEF ReadStep

\* A reader that is done with a message has read it, and its buffer is empty
\* behind it; one that has found the end of the stream was sent too little.
LEMMA FrameEnd ==
    ASSUME NEW msg \in Seq(Byte), NEW base \in Nat, Frame(msg, base)
    PROVE  /\ rpc = "message" => /\ Message = msg /\ Drop(buf, size) = <<>> /\ rd = base + PREFIX + Len(msg)
                                 /\ rd <= Len(bytes)
           /\ rpc \in {"none", "panicked"} => Len(bytes) < base + PREFIX + Len(msg)
<1>1. ASSUME rpc = "message"
      PROVE  Message = msg /\ Drop(buf, size) = <<>> /\ rd = base + PREFIX + Len(msg) /\ rd <= Len(bytes)
  <2>1. size = Len(msg) /\ buf = msg /\ rd = base + PREFIX + size /\ rd \in 0..Len(bytes)
        /\ Len(bytes) \in Nat
    BY <1>1 DEF Frame
  <2>2. SubSeq(msg, 1, Len(msg)) = msg
    OBVIOUS
  <2>3. Drop(msg, Len(msg)) = <<>>
    <3>1. Len(msg) \in 0..Len(msg) /\ Len(msg) - Len(msg) = 0
      OBVIOUS
    <3>2. Drop(msg, Len(msg)) \in Seq(Byte) /\ Len(Drop(msg, Len(msg))) = 0
      BY <3>1, SplitAt
    <3>3. \A b \in Seq(Byte) : Len(b) = 0 => b = <<>>
      OBVIOUS
    <3> QED BY <3>2, <3>3
  <2> QED BY <2>1, <2>2, <2>3 DEF Message
<1> QED BY <1>1 DEF Frame

(***************************************************************************)
(* The text on its way.                                                    *)
(***************************************************************************)

\* A damaged text has one symbol changed, or has lost its end, or has one
\* symbol too many.
LEMMA DamagedIs ==
    ASSUME NEW s \in Seq(Character), NEW t \in Damaged(s)
    PROVE  /\ t \in Seq(Character)
           /\ \/ Len(t) = Len(s) /\ \E i \in 1..Len(s) : \A j \in 1..Len(s) : j # i => t[j] = s[j]
              \/ \E i \in Nat : i < Len(s) /\ t = SubSeq(s, 1, i) /\ Len(t) = i
              \/ Len(t) = Len(s) + 1 /\ \A j \in 1..Len(s) : t[j] = s[j]
<1>0. Len(s) \in Nat /\ s \in [1..Len(s) -> Character]
  OBVIOUS
<1>1. ASSUME NEW c \in Symbols PROVE c \in Character
  BY SessionAssumption DEF Character
<1>2. ASSUME NEW i \in 1..Len(s), NEW c \in Symbols, t = [s EXCEPT ![i] = c]
      PROVE  t \in Seq(Character) /\ Len(t) = Len(s) /\ \A j \in 1..Len(s) : j # i => t[j] = s[j]
  <2>1. t \in [1..Len(s) -> Character]
    BY <1>0, <1>1, <1>2
  <2> QED BY <1>0, <1>2, <2>1
<1>3. ASSUME NEW i \in 0..(Len(s) - 1), t = SubSeq(s, 1, i)
      PROVE  t \in Seq(Character) /\ i \in Nat /\ i < Len(s) /\ Len(t) = i
  <2>1. i \in 0..Len(s) /\ i \in Nat /\ i < Len(s)
    BY <1>0
  <2> QED BY <1>3, <2>1, SplitAt
<1>4. ASSUME NEW c \in Symbols, t = Append(s, c)
      PROVE  t \in Seq(Character) /\ Len(t) = Len(s) + 1 /\ \A j \in 1..Len(s) : t[j] = s[j]
  BY <1>0, <1>1, <1>4
<1> QED BY <1>2, <1>3, <1>4 DEF Damaged

\* The arguments of get are three texts, each parsed by itself.
LEMMA ParseGetIs ==
    /\ \/ ParseCid(text.hash) = Fail \/ ParsePeer(text.peer) = Fail \/ ParseKey(text.token) = Fail
       => ParseGet = Fail
    /\ \A hash, r1, peer, r2, token, r3 :
         /\ ParseCid(text.hash) = Took(hash, r1) /\ ParsePeer(text.peer) = Took(peer, r2)
         /\ ParseKey(text.token) = Took(token, r3)
         => ParseGet = Took([hash |-> hash, peer |-> peer, addr |-> issued.addr, token |-> token], <<>>)
<1> DEFINE third(hash, peer) ==
             IF ParseKey(text.token).ok
             THEN Took([hash |-> hash, peer |-> peer, addr |-> issued.addr, token |-> ParseKey(text.token).v], <<>>)
             ELSE Fail
           second(hash) == IF ParsePeer(text.peer).ok THEN third(hash, ParsePeer(text.peer).v) ELSE Fail
<1>1. ParseGet = IF ParseCid(text.hash).ok THEN second(ParseCid(text.hash).v) ELSE Fail
  BY DEF ParseGet, Then
<1> QED BY <1>1, TookIs

\* What a provider hands out: one text, or three.
TicketOf(i) == [hash |-> Providers[i].hash, peer |-> Providers[i].key,
                addr |-> Providers[i].addr, token |-> Providers[i].token]
Given(t) == [hash |-> CidText(t.hash), peer |-> KeyText(t.peer), token |-> KeyText(t.token)]

\* The text is the one that was handed out, or one part of it is damaged.
HandedOut == issuer \in ProviderIds /\ issued = TicketOf(issuer)
TextIs ==
    IF form = "ticket"
    THEN IF damaged THEN text \in Damaged(TicketText(issued)) ELSE text = TicketText(issued)
    ELSE IF damaged
         THEN \/ \E t \in Damaged(CidText(issued.hash).body), p \in {"b", "u", "x"} :
                     text = [Given(issued) EXCEPT !.hash = [prefix |-> p, body |-> t]]
              \/ \E t \in Damaged(KeyText(issued.peer)) : text = [Given(issued) EXCEPT !.peer = t]
              \/ \E t \in Damaged(KeyText(issued.token)) : text = [Given(issued) EXCEPT !.token = t]
         ELSE text = Given(issued)
\* Before it is handed out nobody but a provider listens.
TextOK ==
    /\ damaged \in BOOLEAN /\ form \in {"ticket", "get"}
    /\ IF pc = "start" THEN ~damaged /\ listener.kind # "other" ELSE HandedOut /\ TextIs

\* What a provider hands out is a ticket.
LEMMA TicketOfIs ==
    ASSUME HandedOut
    PROVE  /\ issued \in Tickets
           /\ issued.hash \in Keys /\ issued.peer \in PublicKeys /\ issued.peer \in Keys
           /\ issued.addr \in Addrs /\ issued.token \in Keys
           /\ issued.hash = Providers[issuer].hash /\ issued.peer = Providers[issuer].key
           /\ issued.addr = Providers[issuer].addr /\ issued.token = Providers[issuer].token
<1>1. /\ Providers[issuer].key \in PublicKeys /\ Providers[issuer].token \in Keys
      /\ Providers[issuer].hash \in Keys /\ Providers[issuer].addr \in Addrs
  BY SessionAssumption DEF HandedOut
<1>2. /\ issued.hash = Providers[issuer].hash /\ issued.peer = Providers[issuer].key
      /\ issued.addr = Providers[issuer].addr /\ issued.token = Providers[issuer].token
  BY DEF HandedOut, TicketOf
<1>3. issued \in Tickets
  BY <1>1 DEF HandedOut, TicketOf, Tickets
<1> QED BY <1>1, <1>2, <1>3, KeysAre

\* The parts of the arguments of get.
LEMMA GivenIs ==
    ASSUME HandedOut, TextIs, form = "get"
    PROVE  /\ text.hash.body \in Seq(Character) /\ text.peer \in Seq(Character) /\ text.token \in Seq(Character)
           /\ ~damaged => /\ text.hash = CidText(issued.hash) /\ text.peer = KeyText(issued.peer)
                          /\ text.token = KeyText(issued.token)
           /\ damaged => \/ /\ text.hash.body \in Damaged(CidText(issued.hash).body)
                            /\ text.hash = [prefix |-> text.hash.prefix, body |-> text.hash.body]
                            /\ text.peer = KeyText(issued.peer) /\ text.token = KeyText(issued.token)
                         \/ text.hash = CidText(issued.hash)
<1>0. /\ issued.hash \in Keys /\ issued.peer \in PublicKeys /\ issued.peer \in Keys /\ issued.token \in Keys
      /\ form # "ticket"
  BY TicketOfIs
<1>1. PICK g : g = Given(issued)
  OBVIOUS
<1>2. PICK h, p, t : /\ h = CidText(issued.hash) /\ p = KeyText(issued.peer) /\ t = KeyText(issued.token)
                     /\ h.body \in Seq(Character) /\ p \in Seq(Character) /\ t \in Seq(Character)
  BY <1>0, ParseKeyIs, ParseCidIs
<1>3. g = [hash |-> h, peer |-> p, token |-> t]
  BY <1>1, <1>2 DEF Given
<1>4. CASE ~damaged
  BY <1>0, <1>1, <1>2, <1>3, <1>4 DEF TextIs
<1>5. ASSUME damaged, NEW d \in Damaged(h.body), NEW x \in {"b", "u", "x"},
             text = [g EXCEPT !.hash = [prefix |-> x, body |-> d]]
      PROVE  /\ text.hash.body = d /\ text.hash.prefix = x /\ text.hash = [prefix |-> x, body |-> d]
             /\ text.peer = p /\ text.token = t /\ d \in Seq(Character)
  BY <1>2, <1>3, <1>5, DamagedIs
<1>6. ASSUME damaged, NEW d \in Damaged(p), text = [g EXCEPT !.peer = d]
      PROVE  text.hash = h /\ text.peer = d /\ text.token = t /\ d \in Seq(Character)
  BY <1>2, <1>3, <1>6, DamagedIs
<1>7. ASSUME damaged, NEW d \in Damaged(t), text = [g EXCEPT !.token = d]
      PROVE  text.hash = h /\ text.peer = p /\ text.token = d /\ d \in Seq(Character)
  BY <1>2, <1>3, <1>7, DamagedIs
<1>8. CASE damaged
  <2>1. \/ \E d \in Damaged(h.body), x \in {"b", "u", "x"} : text = [g EXCEPT !.hash = [prefix |-> x, body |-> d]]
        \/ \E d \in Damaged(p) : text = [g EXCEPT !.peer = d]
        \/ \E d \in Damaged(t) : text = [g EXCEPT !.token = d]
    BY <1>0, <1>1, <1>2, <1>8 DEF TextIs
  <2> QED BY <1>2, <1>5, <1>6, <1>7, <1>8, <2>1
<1> QED BY <1>4, <1>8

\* The texts as they were handed out give the ticket back.
LEMMA UndamagedParses ==
    ASSUME HandedOut, TextIs, form \in {"ticket", "get"}, ~damaged
    PROVE  ParseArgs = Took(issued, <<>>)
<1>1. CASE form = "ticket"
  <2>1. text = TicketText(issued) /\ issued \in Tickets
    BY <1>1, TicketOfIs DEF TextIs
  <2>2. ParseTicket(TicketText(issued)) = Took(issued, <<>>)
    BY <2>1, ParseTicketIs
  <2> QED BY <1>1, <2>1, <2>2 DEF ParseArgs
<1>2. CASE form = "get"
  <2>1. text.hash = CidText(issued.hash) /\ text.peer = KeyText(issued.peer) /\ text.token = KeyText(issued.token)
    BY <1>2, GivenIs
  <2>2. issued \in Tickets /\ issued.hash \in Keys /\ issued.peer \in PublicKeys /\ issued.token \in Keys
    BY TicketOfIs
  <2>3. /\ ParseCid(text.hash) = Took(issued.hash, <<>>) /\ ParsePeer(text.peer) = Took(issued.peer, <<>>)
        /\ ParseKey(text.token) = Took(issued.token, <<>>)
    BY <2>1, <2>2, ParseKeyIs, ParseCidIs
  <2>4. ParseGet = Took([hash |-> issued.hash, peer |-> issued.peer, addr |-> issued.addr,
                         token |-> issued.token], <<>>)
    BY <2>3, ParseGetIs, Zenon
  <2>5. issued = [hash |-> issued.hash, peer |-> issued.peer, addr |-> issued.addr, token |-> issued.token]
    BY <2>2 DEF Tickets
  <2>6. form # "ticket"
    BY <1>2
  <2> QED BY <2>4, <2>5, <2>6 DEF ParseArgs
<1> QED BY <1>1, <1>2

\* Each of the arguments of get that were parsed is the only text of its value.
LEMMA GetParsed ==
    ASSUME HandedOut, TextIs, form = "get", ParseGet # Fail
    PROVE  \E hash \in Keys, peer \in PublicKeys, token \in Keys :
             /\ ParseGet = Took([hash |-> hash, peer |-> peer, addr |-> issued.addr, token |-> token], <<>>)
             /\ ParseCid(text.hash) = Took(hash, <<>>)
             /\ text.peer = KeyText(peer) /\ text.token = KeyText(token)
<1>1. text.hash.body \in Seq(Character) /\ text.peer \in Seq(Character) /\ text.token \in Seq(Character)
  BY GivenIs
<1>2. ParseCid(text.hash) # Fail /\ ParsePeer(text.peer) # Fail /\ ParseKey(text.token) # Fail
  BY ParseGetIs
<1>3. PICK hash \in Keys : ParseCid(text.hash) = Took(hash, <<>>)
  BY <1>1, <1>2, ParseCidIs
<1>4. PICK peer \in PublicKeys : ParsePeer(text.peer) = Took(peer, <<>>) /\ text.peer = KeyText(peer)
  BY <1>1, <1>2, ParseKeyIs
<1>5. PICK token \in Keys : ParseKey(text.token) = Took(token, <<>>) /\ text.token = KeyText(token)
  BY <1>1, <1>2, ParseKeyIs
<1>6. ParseGet = Took([hash |-> hash, peer |-> peer, addr |-> issued.addr, token |-> token], <<>>)
  BY <1>3, <1>4, <1>5, ParseGetIs, Zenon
<1> QED BY <1>3, <1>4, <1>5, <1>6

\* A parsed text names a hash, a peer, an address and a token.
LEMMA ParsedIs ==
    ASSUME HandedOut, TextIs, form \in {"ticket", "get"}, ParseArgs.ok
    PROVE  \E t \in Tickets, rest \in Seq(Byte) : ParseArgs = Took(t, rest)
<1>1. CASE form = "ticket"
  <2>1. text \in Seq(Character)
    <3>1. issued \in Tickets
      BY TicketOfIs
    <3>2. PICK s \in Seq(Character) : s = TicketText(issued)
      BY <3>1, ParseTicketIs
    <3>3. text = s \/ text \in Damaged(s)
      BY <1>1, <3>2 DEF TextIs
    <3> QED BY <3>3, DamagedIs
  <2>2. ParseArgs = ParseTicket(text) /\ ParseTicket(text) # Fail
    BY <1>1, TookIs DEF ParseArgs
  <2>3. PICK b \in Seq(Byte) : ParseTicket(text) = TicketFromBytes(b)
    BY <2>1, <2>2, ParseTicketIs
  <2>4. PICK t \in Tickets, rest \in Seq(Byte) : TicketFromBytes(b) = Took(t, rest)
    BY <2>2, <2>3, TicketExtends
  <2> QED BY <2>2, <2>3, <2>4
<1>2. CASE form = "get"
  <2>1. ParseArgs = ParseGet /\ ParseGet # Fail
    <3>1. form # "ticket"
      BY <1>2
    <3> QED BY <3>1, TookIs DEF ParseArgs
  <2>2. PICK hash \in Keys, peer \in PublicKeys, token \in Keys :
          ParseGet = Took([hash |-> hash, peer |-> peer, addr |-> issued.addr, token |-> token], <<>>)
    BY <1>2, <2>1, GetParsed
  <2>3. issued.addr \in Addrs
    BY TicketOfIs
  <2>4. [hash |-> hash, peer |-> peer, addr |-> issued.addr, token |-> token] \in Tickets
    BY <2>3 DEF Tickets
  <2>5. <<>> \in Seq(Byte)
    OBVIOUS
  <2> QED BY <2>1, <2>2, <2>4, <2>5
<1> QED BY <1>1, <1>2

\* Of the damaged CIDs only those of full length and with the prefix b are
\* parsed: the other prefix needs letters that no CID has.
LEMMA CidDamaged ==
    ASSUME NEW h \in Keys, NEW c, c.body \in Damaged(CidText(h).body), ParseCid(c) # Fail
    PROVE  c.prefix = "b" /\ Len(c.body) = CidLen
           /\ \E g \in Keys : ParseCid(c) = Took(g, <<>>) /\ AnyCase(c.body) = CidText(g).body
<1>1. PICK s \in Seq(Character) : s = CidText(h).body /\ Len(s) = CidLen /\ \A i \in 1..CidLen : s[i] >= 26
  BY ParseCidIs
<1>2. PICK t \in Seq(Character) : t = c.body /\ t \in Damaged(s)
  <2>1. c.body \in Damaged(s)
    BY <1>1
  <2> QED BY <2>1, DamagedIs
<1>3. PICK g \in Keys :
         /\ ParseCid(c) = Took(g, <<>>)
         /\ \/ c.prefix = "b" /\ Len(t) = CidLen /\ AnyCase(t) = CidText(g).body
            \/ c.prefix = "u" /\ t = Encode(CID_PREFIX \o g, 6)
  <2>1. c.body \in Seq(Character)
    BY <1>2
  <2> QED BY <1>2, <2>1, ParseCidIs
<1>4. t # Encode(CID_PREFIX \o g, 6)
  <2> SUFFICES ASSUME t = Encode(CID_PREFIX \o g, 6) PROVE FALSE
    OBVIOUS
  <2>1. Len(t) >= 2 /\ t[1] < 26 /\ t[2] < 26
    BY CidOtherLetters
  <2>2. CidLen \in Nat /\ CidLen >= 2
    <3>1. KEY \in 1..127 /\ CidLen = (8 * (4 + KEY) + 4) \div 5
      BY KeysAre DEF CidLen, CID_PREFIX
    <3> QED BY <3>1
  <2>3. s[1] >= 26 /\ s[2] >= 26 /\ s[1] \in Nat /\ s[2] \in Nat /\ 1 \in 1..Len(s) /\ 2 \in 1..Len(s)
    <3>1. 1 \in 1..Len(s) /\ 2 \in 1..Len(s)
      BY <1>1, <2>2
    <3>2. \A x \in Character : x \in Nat
      BY CharacterIs
    <3> QED BY <1>1, <3>1, <3>2
  <2>4. s[1] # t[1] /\ s[2] # t[2]
    <3>1. t[1] \in Nat /\ t[2] \in Nat
      <4>1. \A x \in Character : x \in Nat
        BY CharacterIs
      <4> QED BY <2>1, <4>1
    <3> QED BY <2>1, <2>3, <3>1
  <2>5. CASE \E i \in 1..Len(s) : \A j \in 1..Len(s) : j # i => t[j] = s[j]
    BY <2>3, <2>4, <2>5
  <2>6. ASSUME NEW i \in Nat, i < Len(s), t = SubSeq(s, 1, i), Len(t) = i PROVE FALSE
    <3>1. i \in 0..Len(s) /\ 1 \in 1..i
      BY <2>1, <2>6
    <3>2. t[1] = s[1]
      BY <2>6, <3>1, SplitAt
    <3> QED BY <2>4, <3>2
  <2>7. CASE \A j \in 1..Len(s) : t[j] = s[j]
    BY <2>3, <2>4, <2>7
  <2> QED BY <1>2, <2>5, <2>6, <2>7, DamagedIs
<1> QED BY <1>2, <1>3, <1>4

\* What is seen of a damaged ticket that is parsed.
LEMMA TicketDamage ==
    ASSUME HandedOut, TextIs, form = "ticket", damaged, ParseArgs.ok
    PROVE  LET sent == TicketText(issued) IN
           Len(text) >= Len(sent) /\ (ParseArgs.v = issued => IsPrefix(sent, text))
<1>1. issued \in Tickets
  BY TicketOfIs
<1>2. PICK sent \in Seq(Character) : sent = TicketText(issued)
  BY <1>1, ParseTicketIs
<1>3. text \in Damaged(sent)
  BY <1>2 DEF TextIs
<1>4. PICK t \in Seq(Character) : t = text
  BY <1>3, DamagedIs
<1>5. PICK v, rest : ParseTicket(t) = Took(v, rest)
  <2>1. PICK v \in Tickets, rest \in Seq(Byte) : ParseArgs = Took(v, rest)
    BY ParsedIs
  <2> QED BY <1>4, <2>1 DEF ParseArgs
<1>6. ParseArgs.v = v /\ ParseTicket(t) # Fail
  BY <1>4, <1>5, TookIs DEF ParseArgs
<1>7. \/ Len(t) = Len(sent)
      \/ Len(t) = Len(sent) + 1 /\ \A j \in 1..Len(sent) : t[j] = sent[j]
  <2>1. ASSUME NEW i \in Nat, i < Len(sent), t = SubSeq(sent, 1, i) PROVE FALSE
    BY <1>1, <1>2, <1>6, <2>1, TicketCutRefused
  <2> QED BY <1>3, <1>4, <2>1, DamagedIs
<1>8. Len(t) \in Nat /\ Len(sent) \in Nat
  OBVIOUS
<1>9. CASE Len(t) = Len(sent)
  <2>1. v = issued => t = sent
    BY <1>1, <1>2, <1>5, <1>9, TicketChangedIsSeen
  <2>2. v = issued => IsPrefix(sent, t)
    BY <1>8, <1>9, <2>1 DEF IsPrefix
  <2> QED BY <1>2, <1>4, <1>6, <1>8, <1>9, <2>2
<1>10. CASE Len(t) = Len(sent) + 1 /\ \A j \in 1..Len(sent) : t[j] = sent[j]
  <2>1. Len(sent) \in 0..Len(t) /\ Len(sent) \in 0..Len(sent) /\ Len(sent) <= Len(t)
    BY <1>8, <1>10
  <2>2. /\ SubSeq(t, 1, Len(sent)) \in Seq(Character) /\ Len(SubSeq(t, 1, Len(sent))) = Len(sent)
        /\ \A j \in 1..Len(sent) : SubSeq(t, 1, Len(sent))[j] = t[j]
    BY <2>1, SplitAt
  <2>3. SubSeq(sent, 1, Len(sent)) = sent
    OBVIOUS
  <2>4. SubSeq(t, 1, Len(sent)) = sent
    <3>1. PICK q \in Seq(Character) : q = SubSeq(t, 1, Len(sent))
      BY <2>2
    <3>2. Len(q) = Len(sent) /\ \A j \in 1..Len(sent) : q[j] = sent[j]
      BY <1>10, <2>2, <3>1
    <3>3. q = sent
      BY <3>2
    <3> QED BY <3>1, <3>3
  <2>5. IsPrefix(sent, t)
    BY <2>1, <2>3, <2>4 DEF IsPrefix
  <2> QED BY <1>2, <1>4, <1>8, <1>10, <2>1, <2>5
<1> QED BY <1>7, <1>9, <1>10

\* What is seen of damaged arguments of get that are parsed.
LEMMA GetDamage ==
    ASSUME HandedOut, TextIs, form = "get", damaged, ParseArgs.ok
    PROVE  /\ Len(text.hash.body) = CidLen
           /\ Len(text.peer) = Len(KeyText(issued.peer))
           /\ Len(text.token) = Len(KeyText(issued.token))
           /\ ParseArgs.v = issued =>
                /\ text.peer = KeyText(issued.peer) /\ text.token = KeyText(issued.token)
                /\ [text.hash EXCEPT !.body = AnyCase(text.hash.body)] = CidText(issued.hash)
<1>1. ParseArgs = ParseGet /\ ParseGet # Fail
  <2>1. form # "ticket"
    OBVIOUS
  <2> QED BY <2>1, TookIs DEF ParseArgs
<1>2. PICK hash \in Keys, peer \in PublicKeys, token \in Keys :
             /\ ParseGet = Took([hash |-> hash, peer |-> peer, addr |-> issued.addr, token |-> token], <<>>)
             /\ ParseCid(text.hash) = Took(hash, <<>>)
             /\ text.peer = KeyText(peer) /\ text.token = KeyText(token)
  BY <1>1, GetParsed
<1>3. issued.hash \in Keys /\ issued.peer \in Keys /\ issued.token \in Keys /\ peer \in Keys
  BY KeysAre, TicketOfIs
<1>4. ParseArgs.v = issued => hash = issued.hash /\ peer = issued.peer /\ token = issued.token
  <2>1. ParseArgs.v = [hash |-> hash, peer |-> peer, addr |-> issued.addr, token |-> token]
    BY <1>1, <1>2, TookIs
  <2> QED BY <2>1
<1>5. Len(text.peer) = Len(KeyText(issued.peer)) /\ Len(text.token) = Len(KeyText(issued.token))
  <2>1. \A b \in Keys : Len(KeyText(b)) = EncodedLen(KEY, 6)
    BY ParseKeyIs
  <2> QED BY <1>2, <1>3, <2>1, Zenon
<1>6. Len(text.hash.body) = CidLen /\ (hash = issued.hash =>
        [text.hash EXCEPT !.body = AnyCase(text.hash.body)] = CidText(issued.hash))
  <2> DEFINE s == CidText(issued.hash).body
  <2>1. /\ CidText(issued.hash) = [prefix |-> "b", body |-> s]
        /\ s \in Seq(Character) /\ Len(s) = CidLen /\ \A i \in 1..CidLen : s[i] >= 26
    <3>1. CidText(issued.hash) = [prefix |-> "b", body |-> s]
      BY DEF CidText
    <3> QED BY <1>3, <3>1, ParseCidIs
  <2>2. AnyCase(s) = s
    BY <2>1, AnyCaseIs
  <2>3. CASE text.hash = CidText(issued.hash)
    <3> HIDE DEF s
    <3>1. text.hash = [prefix |-> "b", body |-> s] /\ text.hash.body = s
      BY <2>1, <2>3
    <3> QED BY <2>1, <2>2, <3>1
  <2>4. CASE text.hash.body \in Damaged(s) /\ text.hash = [prefix |-> text.hash.prefix, body |-> text.hash.body]
    <3>1. ParseCid(text.hash) # Fail
      BY <1>2, TookIs
    <3>2. PICK g \in Keys : /\ text.hash.prefix = "b" /\ Len(text.hash.body) = CidLen
                            /\ ParseCid(text.hash) = Took(g, <<>>)
                            /\ AnyCase(text.hash.body) = CidText(g).body
      BY <1>3, <2>4, <3>1, CidDamaged
    <3>3. g = hash
      BY <1>2, <3>2, TookIs
    <3> HIDE DEF s
    <3>4. PICK body, a : body = text.hash.body /\ a = AnyCase(text.hash.body)
      OBVIOUS
    <3>5. text.hash = [prefix |-> "b", body |-> body]
      BY <2>4, <3>2, <3>4
    <3>6. [text.hash EXCEPT !.body = a] = [prefix |-> "b", body |-> a]
      BY <3>5
    <3>7. hash = issued.hash => a = s
      BY <3>2, <3>3, <3>4 DEF s
    <3> QED BY <2>1, <3>2, <3>4, <3>6, <3>7
  <2> QED BY <2>3, <2>4, GivenIs
<1> QED BY <1>2, <1>4, <1>5, <1>6

\* The text changes only when it is issued and when it is damaged.
LEMMA TextStep ==
    ASSUME ListenerOK, TextOK, [Next]_vars
    PROVE  TextOK'
<1>1. CASE Issue
  <2>1. /\ listener # None /\ pc = "start" /\ pc' = "text" /\ form' = form /\ damaged' = damaged
        /\ issuer' = listener.id
        /\ issued' = [hash |-> Own.hash, peer |-> Own.key, addr |-> Own.addr, token |-> Own.token]
        /\ text' = IF form = "ticket" THEN TicketText(issued')
                   ELSE [hash |-> CidText(Own.hash), peer |-> KeyText(Own.key), token |-> KeyText(Own.token)]
    BY <1>1 DEF Issue
  <2>a. ~damaged /\ form \in {"ticket", "get"} /\ listener.kind # "other"
    BY <2>1 DEF TextOK
  <2>2. listener.id \in ProviderIds /\ Own = Providers[listener.id]
    BY <2>1, <2>a, ListenerIs
  <2>3. PICK own : own = Own
    OBVIOUS
  <2>4. issuer' \in ProviderIds /\ issued' = TicketOf(issuer') /\ issued'.hash = own.hash
        /\ issued'.peer = own.key /\ issued'.token = own.token
    BY <2>1, <2>2, <2>3 DEF TicketOf
  <2>5. HandedOut'
    BY <2>4 DEF HandedOut, ProviderIds, TicketOf
  <2>6. TextIs'
    <3>1. text' = IF form' = "ticket" THEN TicketText(issued') ELSE Given(issued')
      BY <2>1, <2>3, <2>4 DEF Given
    <3>2. ~damaged'
      BY <2>1, <2>a
    <3> QED BY <3>1, <3>2, Zenon DEF TextIs
  <2> QED BY <2>1, <2>a, <2>5, <2>6 DEF TextOK
<1>2. CASE Damage
  <2>1. pc = "text" /\ ~damaged /\ damaged' = TRUE /\ form' = form /\ issued' = issued /\ issuer' = issuer
        /\ pc' = pc /\ HandedOut /\ TextIs /\ form \in {"ticket", "get"}
    BY <1>2 DEF Damage, TextOK
  <2>2. HandedOut'
    BY <2>1 DEF HandedOut, ProviderIds, TicketOf
  <2>3. CASE form = "ticket"
    <3>1. form # "get" /\ text = TicketText(issued)
      BY <2>1, <2>3 DEF TextIs
    <3>2. text' \in Damaged(text)
      BY <1>2, <3>1 DEF Damage
    <3>3. text' \in Damaged(TicketText(issued))
      BY <3>1, <3>2
    <3>4. TextIs'
      BY <2>1, <2>3, <3>3 DEF TextIs
    <3> QED BY <2>1, <2>2, <3>4 DEF TextOK
  <2>4. CASE form = "get"
    <3>1. form # "ticket" /\ text = Given(issued) /\ text.hash = CidText(issued.hash)
          /\ text.peer = KeyText(issued.peer) /\ text.token = KeyText(issued.token)
      BY <2>1, <2>4, GivenIs DEF TextIs
    <3>2. \/ \E t \in Damaged(text.hash.body), p \in {"b", "u", "x"} :
                text' = [text EXCEPT !.hash = [prefix |-> p, body |-> t]]
          \/ \E t \in Damaged(text.peer) : text' = [text EXCEPT !.peer = t]
          \/ \E t \in Damaged(text.token) : text' = [text EXCEPT !.token = t]
      BY <1>2, <3>1 DEF Damage
    <3>3. \/ \E t \in Damaged(CidText(issued.hash).body), p \in {"b", "u", "x"} :
                text' = [Given(issued) EXCEPT !.hash = [prefix |-> p, body |-> t]]
          \/ \E t \in Damaged(KeyText(issued.peer)) : text' = [Given(issued) EXCEPT !.peer = t]
          \/ \E t \in Damaged(KeyText(issued.token)) : text' = [Given(issued) EXCEPT !.token = t]
      BY <3>1, <3>2
    <3>4. TextIs'
      <4>1. form' # "ticket" /\ damaged' = TRUE /\ issued' = issued
        BY <2>1, <3>1
      <4>2. \/ \E t \in Damaged(CidText(issued'.hash).body), p \in {"b", "u", "x"} :
                  text' = [Given(issued') EXCEPT !.hash = [prefix |-> p, body |-> t]]
            \/ \E t \in Damaged(KeyText(issued'.peer)) : text' = [Given(issued') EXCEPT !.peer = t]
            \/ \E t \in Damaged(KeyText(issued'.token)) : text' = [Given(issued') EXCEPT !.token = t]
        BY <3>3, <4>1
      <4> QED BY <4>1, <4>2, Zenon DEF TextIs
    <3> QED BY <2>1, <2>2, <3>4 DEF TextOK
  <2> QED BY <2>1, <2>3, <2>4
<1>3. CASE /\ issued' = issued /\ issuer' = issuer /\ form' = form /\ text' = text /\ damaged' = damaged
           /\ (pc' = "start" <=> pc = "start") /\ (pc = "start" => listener' = listener \/ listener'.kind = "provider")
  <2>1. HandedOut' <=> HandedOut
    BY <1>3 DEF HandedOut, ProviderIds, TicketOf
  <2>2. TextIs' <=> TextIs
    BY <1>3 DEF TextIs, Damaged, Given
  <2> QED BY <1>3, <2>1, <2>2 DEF TextOK
<1>4. \/ Issue \/ Damage
      \/ /\ issued' = issued /\ issuer' = issuer /\ form' = form /\ text' = text /\ damaged' = damaged
         /\ (pc' = "start" <=> pc = "start") /\ (pc = "start" => listener' = listener \/ listener'.kind = "provider")
  <2>1. CASE UNCHANGED vars
    BY <2>1 DEF vars, sessionVars
  <2>2. ASSUME NEW i \in ProviderIds, Listen(i)
        PROVE  UNCHANGED <<issued, issuer, form, text, damaged, pc>> /\ listener'.kind = "provider"
    BY <2>2 DEF Listen
  <2>3. ASSUME NEW o \in OtherServers, ListenOther(o)
        PROVE  UNCHANGED <<issued, issuer, form, text, damaged, pc>> /\ pc # "start"
    BY <2>3 DEF ListenOther
  <2>4. CASE StopListening
    BY <2>4 DEF StopListening
  <2>5. CASE ParseText
    BY <2>5 DEF ParseText
  <2>6. CASE Connect
    BY <2>6 DEF Connect
  <2>7. CASE NoConnection
    BY <2>7 DEF NoConnection
  <2>8. ASSUME NEW c \in OtherClients, NEW n \in Cuts, OtherClient(c, n)
        PROVE  UNCHANGED <<issued, issuer, form, text, damaged>> /\ pc # "start" /\ pc' # "start"
    BY <2>8 DEF OtherClient
  <2>9. CASE Read
    BY <2>9 DEF Read, sessionVars
  <2>10. CASE HandshakeRead
    BY <2>10 DEF HandshakeRead, Reading, OnlyFrames
  <2>11. CASE RequestRead
    BY <2>11 DEF RequestRead, Reading, OnlyFrames
  <2>12. CASE ResponseRead
    <3>1. ASSUME NEW b PROVE ~(ResponseFrom(b).ok /\ ResponseFrom(b).v = "start")
      BY TookIs DEF ResponseFrom, Then
    <3> QED BY <2>12, <3>1 DEF ResponseRead, Reading, OnlyFrames
  <2>13. CASE ReadEnds
    BY <2>13 DEF ReadEnds, OnlyFrames
  <2> QED BY <2>1, <2>2, <2>3, <2>4, <2>5, <2>6, <2>7, <2>8, <2>9, <2>10, <2>11, <2>12, <2>13 DEF Next
<1> QED BY <1>1, <1>2, <1>3, <1>4

(***************************************************************************)
(* The session.                                                            *)
(***************************************************************************)

\* The getter has parsed the text it was given.
Parsed == ParseArgs.ok /\ parsed = ParseArgs.v
ParsedOK ==
    /\ pc \in {"start", "text", "badtext"} => parsed = None
    /\ parsed = None \/ Parsed
    /\ pc \in {"connect", "reading", "found", "notfound", "elsewhere", "lost", "panicked"} => Parsed
    /\ pc = "badtext" => damaged

\* What is parsed is a ticket; of an undamaged text it is the one handed out.
LEMMA ParsedTicket ==
    ASSUME TextOK, Parsed, pc # "start"
    PROVE  /\ parsed \in Tickets /\ parsed.token \in Keys /\ parsed.hash \in Keys
           /\ ~damaged => parsed = issued
<1>1. HandedOut /\ TextIs /\ form \in {"ticket", "get"} /\ ParseArgs.ok /\ parsed = ParseArgs.v
  BY DEF TextOK, Parsed
<1>2. PICK t \in Tickets, rest \in Seq(Byte) : ParseArgs = Took(t, rest)
  BY <1>1, ParsedIs
<1>3. parsed = t
  BY <1>1, <1>2, TookIs
<1>4. ASSUME ~damaged PROVE parsed = issued
  <2>1. ParseArgs = Took(issued, <<>>)
    BY <1>1, <1>4, UndamagedParses
  <2> QED BY <1>1, <2>1, TookIs
<1>5. t.token \in Keys /\ t.hash \in Keys
  BY DEF Tickets
<1> QED BY <1>3, <1>4, <1>5

\* What a response can say.
LEMMA ResponseSays ==
    ASSUME NEW b
    PROVE  ResponseFrom(b).ok => ResponseFrom(b).v \in {"found", "notfound"}
  BY TookIs DEF ResponseFrom, Then

\* Parsing, and the steps after it.
LEMMA ParsedStep ==
    ASSUME TextOK, ParsedOK, [Next]_vars
    PROVE  ParsedOK'
<1> DEFINE Late == {"connect", "reading", "found", "notfound", "elsewhere", "lost", "panicked"}
<1>1. CASE Issue
  BY <1>1 DEF Issue, ParsedOK
<1>2. CASE Damage
  BY <1>2 DEF Damage, ParsedOK
<1>3. ASSUME UNCHANGED <<form, text, issued>> PROVE ParseArgs' = ParseArgs
  <2> DEFINE third(hash, peer, t, a) ==
               IF ParseKey(t.token).ok
               THEN Took([hash |-> hash, peer |-> peer, addr |-> a, token |-> ParseKey(t.token).v], <<>>)
               ELSE Fail
             second(hash, t, a) == IF ParsePeer(t.peer).ok THEN third(hash, ParsePeer(t.peer).v, t, a) ELSE Fail
             get(t, a) == IF ParseCid(t.hash).ok THEN second(ParseCid(t.hash).v, t, a) ELSE Fail
  <2>1. ParseGet = get(text, issued.addr)
    BY DEF ParseGet, Then
  <2>2. ParseGet' = get(text', issued'.addr)
    BY DEF ParseGet, Then
  <2> HIDE DEF get
  <2> QED BY <1>3, <2>1, <2>2 DEF ParseArgs
<1>4. CASE ParseText
  <2>1. /\ pc = "text" /\ UNCHANGED <<form, text, issued, damaged>>
        /\ \/ ParseArgs.ok /\ parsed' = ParseArgs.v /\ pc' = "connect"
           \/ ~ParseArgs.ok /\ pc' = "badtext" /\ parsed' = parsed
    BY <1>4 DEF ParseText
  <2>2. ParseArgs' = ParseArgs /\ parsed = None
    BY <1>3, <2>1 DEF ParsedOK
  <2>3. CASE ParseArgs.ok
    <3>1. pc' = "connect" /\ parsed' = ParseArgs.v
      BY <2>1, <2>3
    <3>2. Parsed'
      BY <2>2, <2>3, <3>1 DEF Parsed
    <3> QED BY <3>1, <3>2 DEF ParsedOK
  <2>4. CASE ~ParseArgs.ok
    <3>1. HandedOut /\ TextIs /\ form \in {"ticket", "get"}
      BY <2>1 DEF TextOK
    <3>2. damaged
      BY <2>4, <3>1, UndamagedParses, TookIs
    <3>3. pc' = "badtext" /\ parsed' = None /\ damaged' = damaged
      BY <2>1, <2>2, <2>4
    <3>4. None' = None
      BY DEF None
    <3> QED BY <3>2, <3>3, <3>4 DEF ParsedOK
  <2> QED BY <2>3, <2>4
<1>5. ASSUME NEW c \in OtherClients, NEW n \in Cuts, OtherClient(c, n) PROVE ParsedOK'
  <2>1. /\ pc = "text" /\ UNCHANGED <<form, text, issued, damaged>> /\ ~damaged
        /\ \/ pc' = "reading" /\ parsed' = issued
           \/ pc' = "refused" /\ parsed' = parsed
    BY <1>5 DEF OtherClient
  <2>2. HandedOut /\ TextIs /\ form \in {"ticket", "get"} /\ parsed = None
    BY <2>1 DEF TextOK, ParsedOK
  <2>3. ParseArgs' = Took(issued, <<>>)
    BY <1>3, <2>1, <2>2, UndamagedParses
  <2>4. parsed' = issued => Parsed'
    BY <2>3, TookIs DEF Parsed
  <2>5. None' = None
    BY DEF None
  <2> QED BY <2>1, <2>2, <2>4, <2>5 DEF ParsedOK
<1>6. CASE /\ UNCHANGED <<form, text, issued, damaged, parsed>>
           /\ pc' = pc \/ (pc \in Late /\ pc' \in Late \cup {"refused"})
  <2>1. ParseArgs' = ParseArgs /\ None' = None
    BY <1>3, <1>6 DEF None
  <2>2. Parsed' <=> Parsed
    BY <1>6, <2>1 DEF Parsed
  <2> QED BY <1>6, <2>1, <2>2 DEF ParsedOK
<1>7. \/ Issue \/ Damage \/ ParseText
      \/ \E c \in OtherClients, n \in Cuts : OtherClient(c, n)
      \/ /\ UNCHANGED <<form, text, issued, damaged, parsed>>
         /\ pc' = pc \/ (pc \in Late /\ pc' \in Late \cup {"refused"})
  <2>1. CASE UNCHANGED vars
    BY <2>1 DEF vars, sessionVars
  <2>2. ASSUME NEW i \in ProviderIds, Listen(i)
        PROVE  UNCHANGED <<issued, form, text, damaged, parsed, pc>>
    BY <2>2 DEF Listen
  <2>3. ASSUME NEW o \in OtherServers, ListenOther(o)
        PROVE  UNCHANGED <<issued, form, text, damaged, parsed, pc>>
    BY <2>3 DEF ListenOther
  <2>4. CASE StopListening
    BY <2>4 DEF StopListening
  <2>5. CASE Connect
    BY <2>5 DEF Connect
  <2>6. CASE NoConnection
    BY <2>6 DEF NoConnection
  <2>7. CASE Read
    BY <2>7 DEF Read, sessionVars
  <2>8. CASE HandshakeRead
    BY <2>8 DEF HandshakeRead, Reading, OnlyFrames
  <2>9. CASE RequestRead
    BY <2>9 DEF RequestRead, Reading, OnlyFrames
  <2>10. CASE ResponseRead
    BY <2>10, ResponseSays DEF ResponseRead, Reading, OnlyFrames
  <2>11. CASE ReadEnds
    BY <2>11 DEF ReadEnds, OnlyFrames
  <2> QED BY <2>1, <2>2, <2>3, <2>4, <2>5, <2>6, <2>7, <2>8, <2>9, <2>10, <2>11 DEF Next
<1> QED BY <1>1, <1>2, <1>4, <1>5, <1>6, <1>7

\* A text that was damaged on its way is refused, or is seen to be another,
\* except for the case of a CID and what follows a ticket (FromStr of Ticket,
\* PeerId, Hash and Blake3Cid).
THEOREM SessionDamageIsSeen == Spec => []DamageIsSeen
<1>1. Init => ListenerOK /\ TextOK /\ ParsedOK
  <2>1. None.kind = "none"
    BY DEF None
  <2> QED BY <2>1 DEF Init, ListenerOK, TextOK, ParsedOK
<1>2. (ListenerOK /\ TextOK /\ ParsedOK) /\ [Next]_vars => (ListenerOK /\ TextOK /\ ParsedOK)'
  BY ListenerStep, TextStep, ParsedStep
<1>3. (ListenerOK /\ TextOK /\ ParsedOK) => DamageIsSeen
  <2> SUFFICES ASSUME TextOK, ParsedOK, damaged, parsed # None
               PROVE  DamageIsSeen
    BY DEF DamageIsSeen
  <2>1. Parsed /\ pc # "start"
    BY DEF ParsedOK
  <2>2. HandedOut /\ TextIs /\ form \in {"ticket", "get"} /\ ParseArgs.ok /\ parsed = ParseArgs.v
    BY <2>1 DEF Parsed, TextOK
  <2>3. CASE form = "ticket"
    BY <2>2, <2>3, TicketDamage DEF DamageIsSeen
  <2>4. CASE form = "get"
    <3>1. form # "ticket"
      BY <2>4
    <3> QED BY <2>2, <2>4, <3>1, GetDamage, Zenon DEF DamageIsSeen
  <2> QED BY <2>2, <2>3, <2>4
<1> QED BY <1>1, <1>2, <1>3, PTL DEF Spec

\* Where the request follows the handshake.
Second == PREFIX + KEY + 1
WholeUpload == 2 * PREFIX + 2 * KEY + 3

\* What the getter sends: the handshake, and the request behind it.
LEMMA UploadIs ==
    ASSUME NEW token \in Keys, NEW hash \in Keys
    PROVE  LET u == Upload(token, hash) IN
           /\ u \in Seq(Byte) /\ Len(u) = WholeUpload
           /\ Written(HandshakeMsg(token)) \in Seq(Byte) /\ Len(Written(HandshakeMsg(token))) = Second
           /\ Written(RequestMsg(hash)) \in Seq(Byte) /\ Len(Written(RequestMsg(hash))) = WholeUpload - Second
           /\ \A i \in 1..Second : u[i] = Written(HandshakeMsg(token))[i]
           /\ \A i \in 1..(WholeUpload - Second) : u[Second + i] = Written(RequestMsg(hash))[i]
           /\ Sendable(HandshakeMsg(token)) /\ Sendable(RequestMsg(hash))
<1>1. /\ PREFIX \in Nat /\ KEY \in Nat /\ MAX_MESSAGE_SIZE \in Nat
      /\ KEY + 2 < MAX_MESSAGE_SIZE
  BY FramingAssumption, SessionAssumption, KeysAre
<1>2. PICK h, r : /\ h = HandshakeMsg(token) /\ h \in Seq(Byte) /\ Len(h) = KEY + 1
                  /\ r = RequestMsg(hash) /\ r \in Seq(Byte) /\ Len(r) = KEY + 2
  BY HandshakeReadBack, RequestReadBack
<1>3. Len(h) <= MAX_MESSAGE_SIZE /\ Len(r) <= MAX_MESSAGE_SIZE
  BY <1>1, <1>2
<1>4. PICK a, b : /\ a = Written(h) /\ a \in Seq(Byte) /\ Len(a) = PREFIX + Len(h)
                  /\ b = Written(r) /\ b \in Seq(Byte) /\ Len(b) = PREFIX + Len(r)
  <2>1. h \in Seq(Byte) /\ r \in Seq(Byte)
    BY <1>2
  <2>2. Written(h) \in Seq(Byte) /\ Len(Written(h)) = PREFIX + Len(h)
    BY <1>3, <2>1, WrittenIs
  <2>3. Written(r) \in Seq(Byte) /\ Len(Written(r)) = PREFIX + Len(r)
    BY <1>3, <2>1, WrittenIs
  <2> QED BY <2>2, <2>3
<1>5. Len(a) = Second /\ Len(b) = WholeUpload - Second /\ Second + Len(b) = WholeUpload
  BY <1>1, <1>2, <1>4 DEF Second, WholeUpload
<1>6. /\ a \o b \in Seq(Byte) /\ Len(a \o b) = Len(a) + Len(b)
      /\ \A i \in 1..Len(a) : (a \o b)[i] = a[i]
      /\ \A i \in 1..Len(b) : (a \o b)[Len(a) + i] = b[i]
  BY <1>4, ConcatIs
<1>7. Upload(token, hash) = a \o b
  BY <1>2, <1>4 DEF Upload
<1>8. Sendable(h) /\ Sendable(r)
  BY <1>1, <1>2 DEF Sendable, CanWrite
<1>9. PICK u : u = Upload(token, hash) /\ u = a \o b
  BY <1>7
<1>10. /\ u \in Seq(Byte) /\ Len(u) = WholeUpload
       /\ \A i \in 1..Second : u[i] = a[i]
       /\ \A i \in 1..(WholeUpload - Second) : u[Second + i] = b[i]
  BY <1>5, <1>6, <1>9
<1>11. a = Written(HandshakeMsg(token)) /\ b = Written(RequestMsg(hash))
       /\ Sendable(HandshakeMsg(token)) /\ Sendable(RequestMsg(hash))
  BY <1>2, <1>4, <1>8
<1> HIDE DEF Second, WholeUpload
<1> QED BY <1>4, <1>5, <1>9, <1>10, <1>11, Zenon

\* A stream that carries as much of both as it carries at all.
LEMMA StreamStarts ==
    ASSUME NEW token \in Keys, NEW hash \in Keys,
           \/ bytes' = Upload(token, hash)
           \/ \E n \in Cuts : bytes' = SubSeq(Append(Upload(token, hash), 0), 1, n),
           rd' = 0, buf' = <<>>, rpc' = "prefix"
    PROVE  Frame(HandshakeMsg(token), 0)' /\ Carries(RequestMsg(hash), Second)'
<1>1. PICK u : /\ u = Upload(token, hash) /\ u \in Seq(Byte) /\ Len(u) = WholeUpload
               /\ \A i \in 1..Second : u[i] = Written(HandshakeMsg(token))[i]
               /\ \A i \in 1..(WholeUpload - Second) : u[Second + i] = Written(RequestMsg(hash))[i]
  BY UploadIs
<1>2. PREFIX \in Nat /\ KEY \in Nat /\ Second = PREFIX + KEY + 1 /\ WholeUpload = 2 * PREFIX + 2 * KEY + 3
  BY FramingAssumption, KeysAre DEF Second, WholeUpload
<1>3. PICK b : /\ b = bytes' /\ b \in Seq(Byte) /\ Len(b) <= WholeUpload + 1
               /\ \A i \in 1..WholeUpload : i <= Len(b) => b[i] = u[i]
  <2>1. CASE bytes' = u
    BY <1>1, <1>2, <2>1
  <2>2. ASSUME NEW n \in Cuts, bytes' = SubSeq(Append(u, 0), 1, n)
        PROVE  bytes' \in Seq(Byte) /\ Len(bytes') <= WholeUpload + 1
               /\ \A i \in 1..WholeUpload : i <= Len(bytes') => bytes'[i] = u[i]
    <3>1. n \in 0..(WholeUpload + 1)
      BY <1>2, SessionAssumption
    <3>2. PICK a : a = Append(u, 0) /\ a \in Seq(Byte) /\ Len(a) = WholeUpload + 1
                   /\ \A i \in 1..WholeUpload : a[i] = u[i]
      <4>1. 0 \in Byte
        BY DEF Byte
      <4>2. Append(u, 0) \in Seq(Byte) /\ Len(Append(u, 0)) = Len(u) + 1
            /\ \A i \in 1..Len(u) : Append(u, 0)[i] = u[i]
        BY <1>1, <4>1
      <4> QED BY <1>1, <4>2
    <3>3. n \in 0..Len(a)
      BY <3>1, <3>2
    <3>4. PICK q : /\ q = SubSeq(a, 1, n) /\ q \in Seq(Byte) /\ Len(q) = n /\ \A i \in 1..n : q[i] = a[i]
      <4>1. a \in Seq(Byte)
        BY <3>2
      <4>2. SubSeq(a, 1, n) \in Seq(Byte) /\ Len(SubSeq(a, 1, n)) = n /\ \A i \in 1..n : SubSeq(a, 1, n)[i] = a[i]
        BY <3>3, <4>1, SplitAt, Zenon
      <4> QED BY <4>2, Zenon
    <3>5. bytes' = q
      BY <2>2, <3>2, <3>4
    <3> QED BY <1>2, <3>1, <3>2, <3>4, <3>5
  <2> QED BY <1>1, <2>1, <2>2
<1>4. PICK h, r : h = HandshakeMsg(token) /\ Len(h) = KEY + 1 /\ r = RequestMsg(hash) /\ Len(r) = KEY + 2
  BY HandshakeReadBack, RequestReadBack
<1>5. ASSUME NEW i \in 1..(PREFIX + Len(h)), 0 + i <= Len(b) PROVE b[0 + i] = Written(h)[i]
  <2>1. i \in 1..Second /\ i \in 1..WholeUpload /\ 0 + i = i
    BY <1>2, <1>4
  <2> QED BY <1>1, <1>3, <1>4, <1>5, <2>1
<1>6. ASSUME NEW i \in 1..(PREFIX + Len(r)), Second + i <= Len(b) PROVE b[Second + i] = Written(r)[i]
  <2>1. i \in 1..(WholeUpload - Second) /\ Second + i \in 1..WholeUpload
    BY <1>2, <1>4
  <2> QED BY <1>1, <1>3, <1>4, <1>6, <2>1
<1>7. Carries(h, 0)' /\ Carries(r, Second)'
  BY <1>3, <1>5, <1>6 DEF Carries, Second
<1>8. rd' \in 0..Len(bytes')
  BY <1>3
<1> QED BY <1>3, <1>4, <1>7, <1>8 DEF Frame

\* The messages of a session are short enough to be read.
LEMMA MessagesFit ==
    ASSUME NEW token \in Keys, NEW hash \in Keys
    PROVE  /\ HandshakeMsg(token) \in Seq(Byte) /\ Len(HandshakeMsg(token)) <= MAX_MESSAGE_SIZE
           /\ RequestMsg(hash) \in Seq(Byte) /\ Len(RequestMsg(hash)) <= MAX_MESSAGE_SIZE
           /\ listener.id \in ProviderIds =>
                /\ ResponseMsg(1, hash) \in Seq(Byte) /\ Len(ResponseMsg(1, hash)) <= MAX_MESSAGE_SIZE
           /\ PREFIX + Len(HandshakeMsg(token)) = Second
           /\ Second + PREFIX + Len(RequestMsg(hash)) = WholeUpload
           /\ Second \in Nat /\ WholeUpload \in Nat
<1>1. PREFIX \in Nat /\ KEY \in Nat /\ MAX_MESSAGE_SIZE \in Nat /\ MAX_MESSAGE_SIZE > 12 /\ MAX_MESSAGE_SIZE > KEY + 2
  BY FramingAssumption, SessionAssumption, KeysAre
<1>2. /\ HandshakeMsg(token) \in Seq(Byte) /\ Len(HandshakeMsg(token)) = KEY + 1
      /\ RequestMsg(hash) \in Seq(Byte) /\ Len(RequestMsg(hash)) = KEY + 2
  BY HandshakeReadBack, RequestReadBack
<1>3. ASSUME listener.id \in ProviderIds
      PROVE  ResponseMsg(1, hash) \in Seq(Byte) /\ Len(ResponseMsg(1, hash)) <= MAX_MESSAGE_SIZE
  <2>1. ResponseMsg(1, hash) \in Seq(Byte) /\ Len(ResponseMsg(1, hash)) <= 12
    BY <1>3, ResponseReadBack
  <2>2. Len(ResponseMsg(1, hash)) \in Nat
    BY <2>1
  <2> QED BY <1>1, <2>1, <2>2
<1> QED BY <1>1, <1>2, <1>3 DEF Second, WholeUpload

\* The certificate of a build of this program proves the identity it was made
\* for, and no other.
LEMMA GeneratedProves ==
    ASSUME NEW identity, NEW certKey, NEW host
    PROVE  Proves(<<Generate(identity, certKey)>>, [scheme |-> "ECDSA_NISTP256_SHA256", by |-> certKey], host)
             <=> host = identity
<1> DEFINE ext == Extension(TRUE, "ok", identity, identity, <<"P256", certKey>>)
           c == Generate(identity, certKey)
           dss == [scheme |-> "ECDSA_NISTP256_SHA256", by |-> certKey]
           p2p == {i \in 1..Len(c.exts) : c.exts[i].oid = "p2p"}
<1>1. /\ ext.oid = "p2p" /\ ext.critical = TRUE /\ ext.form = "ok" /\ ext.host = identity /\ ext.by = identity
      /\ ext.over = <<"P256", certKey>>
  BY DEF Extension
<1>2. /\ c.der = TRUE /\ c.valid = TRUE /\ c.keyType = "P256" /\ c.kind = "P256"
      /\ c.alg = "ECDSA_SHA256" /\ c.subject = certKey /\ c.signer = certKey /\ c.exts = <<ext>>
  BY DEF Generate
<1>3. dss.scheme = "ECDSA_NISTP256_SHA256" /\ dss.by = certKey
  OBVIOUS
<1> HIDE DEF ext, c, dss
<1>0. KeyProves(c, dss.scheme) /\ Spki(c) = <<"P256", certKey>>
  BY <1>2, <1>3 DEF KeyProves, Spki
<1>4. Len(c.exts) = 1 /\ c.exts[1] = ext /\ 1..1 = {1}
  BY <1>2
<1>5. p2p = {1}
  BY <1>1, <1>4
<1>6. Len(<<c>>) = 1 /\ <<c>>[1] = c
  OBVIOUS
<1>7. \A i \in 1..Len(c.exts) : i = 1
  BY <1>4
<1>8. Proves(<<c>>, dss, host) <=>
        /\ c.der /\ c.valid
        /\ KeyProves(c, dss.scheme)
        /\ c.signer = c.subject /\ dss.by = c.subject
        /\ \E i \in p2p : /\ p2p = {i}
                          /\ c.exts[i].form = "ok"
                          /\ c.exts[i].host = host /\ c.exts[i].by = host
                          /\ c.exts[i].over = Spki(c)
        /\ \A i \in 1..Len(c.exts) : c.exts[i].critical => i \in p2p
  <2>1. PICK chain : chain = <<c>>
    OBVIOUS
  <2>2. Len(chain) = 1 /\ chain[1] = c
    BY <1>6, <2>1
  <2> QED BY <2>1, <2>2 DEF Proves
<1> HIDE DEF p2p
<1>9. (\E i \in p2p : /\ p2p = {i} /\ c.exts[i].form = "ok"
                      /\ c.exts[i].host = host /\ c.exts[i].by = host /\ c.exts[i].over = Spki(c))
        <=> host = identity
  BY <1>0, <1>1, <1>4, <1>5
<1>10. \A i \in 1..Len(c.exts) : c.exts[i].critical => i \in p2p
  BY <1>5, <1>7
<1> QED BY <1>0, <1>2, <1>3, <1>8, <1>9, <1>10 DEF c, dss

\* Where the reader is in the messages, on both sides of the stream.
AtMessage ==
    /\ stage \in {"handshake", "request", "response"}
    /\ stage = "handshake" => Frame(HandshakeMsg(parsed.token), 0) /\ Carries(RequestMsg(parsed.hash), Second)
    /\ stage = "request" => Frame(RequestMsg(parsed.hash), Second)
    /\ stage = "response" =>
         Frame(ResponseMsg(1, parsed.hash), 0) /\ Len(bytes) = PREFIX + Len(ResponseMsg(1, parsed.hash))
    /\ stage # "handshake" => Own.token = parsed.token
    /\ stage # "response" /\ tls.kind = "server" => Len(bytes) = WholeUpload
\* Who is spoken to, what is read, and what the answer says.
Spoken ==
    /\ listener.kind = "provider" /\ tls.kind \in {"server", "client"}
    /\ tls.kind = "server" => Own.key = parsed.peer
ReadingOK ==
    /\ pc \in {"start", "text", "connect"} => stage = "handshake" /\ rd = 0 /\ buf = <<>>
    /\ pc \in {"reading", "found", "notfound"} => Spoken
    /\ pc \in {"found", "notfound"} => Own.token = parsed.token /\ (pc = "found" <=> Own.hash = parsed.hash)
    /\ pc = "reading" => AtMessage

\* The getter speaks to the peer of its ticket only.
LEMMA ConnectSpeaks ==
    ASSUME ListenerOK, Connect
    PROVE  /\ UNCHANGED <<listener, parsed, stage, rd, buf>> /\ pc = "connect"
           /\ \/ /\ pc' = "reading" /\ rpc' = "prefix" /\ bytes' = Upload(parsed.token, parsed.hash)
                 /\ tls'.kind = "server" /\ listener.kind = "provider" /\ Own.key = parsed.peer
              \/ /\ pc' \in {"elsewhere", "refused"}
                 /\ tls'.kind = "server"
                 /\ listener.kind = "provider" /\ parsed.token \in Keys /\ parsed.hash \in Keys =>
                      pc' = "refused" /\ Own.key # parsed.peer
<1> DEFINE ok == ServerVerified(Chain, Dss, parsed.peer)
           go == ok /\ listener.kind = "provider" /\ ClientVerified(GetterChain, GetterDss)
                    /\ Sendable(HandshakeMsg(parsed.token)) /\ Sendable(RequestMsg(parsed.hash))
<1>1. /\ UNCHANGED <<listener, parsed, stage, rd, buf>> /\ pc = "connect" /\ listener # None
      /\ tls' = [kind |-> "server", chain |-> Chain, dss |-> Dss, peer |-> parsed.peer, ok |-> ok]
      /\ IF go THEN pc' = "reading" /\ rpc' = "prefix" /\ bytes' = Upload(parsed.token, parsed.hash)
               ELSE pc' = IF ok THEN "elsewhere" ELSE "refused"
  BY DEF Connect, Reachable
<1>2. tls'.kind = "server"
  BY <1>1
<1>3. ok <=> Proves(Chain, Dss, parsed.peer)
  BY <1>1, ChainOfListener, VerifiedIs
<1>4. listener.kind = "provider" => (ok <=> parsed.peer = Own.key)
  <2> SUFFICES ASSUME listener.kind = "provider" PROVE ok <=> parsed.peer = Own.key
    OBVIOUS
  <2>1. Chain = <<Generate(Own.key, Own.certKey)>> /\ Dss = [scheme |-> "ECDSA_NISTP256_SHA256", by |-> Own.certKey]
    BY DEF Chain, Dss
  <2> HIDE DEF ok
  <2> QED BY <1>3, <2>1, GeneratedProves
<1>5. ClientVerified(GetterChain, GetterDss)
  <2>1. Proves(GetterChain, GetterDss, "getter")
    BY GeneratedProves DEF GetterChain, GetterDss
  <2>2. IsChain(GetterChain)
    BY GeneratedChain DEF GetterChain
  <2>3. 1 \in DOMAIN GetterChain /\ 1 \in DOMAIN GetterChain[1].exts /\ GetterChain[1].exts[1].host = "getter"
    <3>1. PICK g : g = Generate("getter", "getter cert")
      OBVIOUS
    <3>2. GetterChain = <<g>>
      BY <3>1 DEF GetterChain
    <3>3. g.exts = <<Extension(TRUE, "ok", "getter", "getter", <<"P256", "getter cert">>)>>
      BY <3>1 DEF Generate
    <3>4. Extension(TRUE, "ok", "getter", "getter", <<"P256", "getter cert">>).host = "getter"
      BY DEF Extension
    <3>5. PICK x : x = Extension(TRUE, "ok", "getter", "getter", <<"P256", "getter cert">>) /\ x.host = "getter"
      BY <3>4
    <3>6. g.exts = <<x>>
      BY <3>3, <3>5
    <3>7. 1 \in DOMAIN <<g>> /\ <<g>>[1] = g /\ 1 \in DOMAIN <<x>> /\ <<x>>[1] = x
      OBVIOUS
    <3> QED BY <3>2, <3>5, <3>6, <3>7, Zenon
  <2> QED BY <2>1, <2>2, <2>3, VerifiedIs
<1>6. parsed.token \in Keys /\ parsed.hash \in Keys =>
        Sendable(HandshakeMsg(parsed.token)) /\ Sendable(RequestMsg(parsed.hash))
  BY UploadIs
<1> HIDE DEF ok
<1>7. CASE go
  BY <1>1, <1>2, <1>4, <1>7
<1>8. CASE ~go
  BY <1>1, <1>2, <1>4, <1>5, <1>6, <1>8
<1> QED BY <1>7, <1>8

\* What the parties do while pc is "reading", one step at a time.
LEMMA ReadingStep ==
    ASSUME ListenerOK, TextOK, ParsedOK, ReadingOK, [Next]_vars
    PROVE  ReadingOK'
<1>l. listener.kind = "provider" => listener.id \in ProviderIds
  BY ListenerIs
<1>t. pc \in {"connect", "reading"} => parsed.token \in Keys /\ parsed.hash \in Keys
  <2> SUFFICES ASSUME pc \in {"connect", "reading"} PROVE parsed.token \in Keys /\ parsed.hash \in Keys
    OBVIOUS
  <2>1. Parsed /\ pc # "start"
    BY DEF ParsedOK
  <2> QED BY <2>1, ParsedTicket
\* The messages as constants: what holds of them does not change in the step.
<1> DEFINE Talk(token, hash, h, r, s) ==
               /\ token = parsed.token /\ hash = parsed.hash
               /\ h = HandshakeMsg(token) /\ r = RequestMsg(hash) /\ s = ResponseMsg(1, hash)
               /\ Len(h) <= MAX_MESSAGE_SIZE /\ Len(r) <= MAX_MESSAGE_SIZE /\ Len(s) <= MAX_MESSAGE_SIZE
               /\ PREFIX + Len(h) = Second /\ Second + PREFIX + Len(r) = WholeUpload /\ Second \in Nat
               /\ HandshakeFrom(h) = Took([version |-> VERSION, token |-> token], <<>>)
               /\ RequestFrom(r) = Took([id |-> 1, name |-> hash], <<>>)
               /\ ResponseFrom(s) = Took(IF hash = Own.hash THEN "found" ELSE "notfound", <<>>)
<1>m. ASSUME pc = "reading"
      PROVE  \E token \in Keys, hash \in Keys, h \in Seq(Byte), r \in Seq(Byte), s \in Seq(Byte) :
               Talk(token, hash, h, r, s)
  <2>1. PICK token \in Keys, hash \in Keys : token = parsed.token /\ hash = parsed.hash
    BY <1>m, <1>t
  <2>2. listener.id \in ProviderIds
    BY <1>l, <1>m DEF ReadingOK, Spoken
  <2>3. /\ HandshakeFrom(HandshakeMsg(token)) = Took([version |-> VERSION, token |-> token], <<>>)
        /\ RequestFrom(RequestMsg(hash)) = Took([id |-> 1, name |-> hash], <<>>)
        /\ ResponseFrom(ResponseMsg(1, hash)) = Took(IF hash = Own.hash THEN "found" ELSE "notfound", <<>>)
    BY <2>2, HandshakeReadBack, RequestReadBack, ResponseReadBack
  <2>4. /\ HandshakeMsg(token) \in Seq(Byte) /\ Len(HandshakeMsg(token)) <= MAX_MESSAGE_SIZE
        /\ RequestMsg(hash) \in Seq(Byte) /\ Len(RequestMsg(hash)) <= MAX_MESSAGE_SIZE
        /\ ResponseMsg(1, hash) \in Seq(Byte) /\ Len(ResponseMsg(1, hash)) <= MAX_MESSAGE_SIZE
        /\ PREFIX + Len(HandshakeMsg(token)) = Second
        /\ Second + PREFIX + Len(RequestMsg(hash)) = WholeUpload /\ Second \in Nat
    BY <2>2, MessagesFit
  <2> QED BY <2>1, <2>3, <2>4, Zenon
<1> HIDE DEF Talk
<1>s. ASSUME UNCHANGED <<listener, parsed, tls>>
      PROVE  /\ (Spoken' <=> Spoken) /\ Own' = Own
             /\ HandshakeMsg(parsed.token)' = HandshakeMsg(parsed.token)
             /\ RequestMsg(parsed.hash)' = RequestMsg(parsed.hash)
             /\ ResponseMsg(1, parsed.hash)' = ResponseMsg(1, parsed.hash)
  BY <1>s DEF Spoken, Own, ResponseMsg
<1>1. CASE UNCHANGED vars
  BY <1>1 DEF vars, sessionVars, frameVars, ReadingOK, AtMessage, Spoken, Own, Frame, Carries, ResponseMsg
<1>2. CASE /\ pc \in {"start", "text"} /\ pc' \in {"start", "text", "connect", "badtext"}
           /\ UNCHANGED <<stage, rd, buf>>
  BY <1>2 DEF ReadingOK
<1>3. CASE Connect
  <2>1. CASE pc' = "reading"
    <3>1. /\ UNCHANGED <<listener, parsed, stage, rd, buf>> /\ pc = "connect"
          /\ rpc' = "prefix" /\ bytes' = Upload(parsed.token, parsed.hash)
          /\ tls'.kind = "server" /\ listener.kind = "provider" /\ Own.key = parsed.peer
      BY <1>3, <2>1, ConnectSpeaks
    <3>2. stage' = "handshake" /\ rd' = 0 /\ buf' = <<>>
      BY <3>1 DEF ReadingOK
    <3>3. PICK token \in Keys, hash \in Keys : token = parsed.token /\ hash = parsed.hash
      BY <1>t, <3>1
    <3>4. Frame(HandshakeMsg(token), 0)' /\ Carries(RequestMsg(hash), Second)'
      BY <3>1, <3>2, <3>3, StreamStarts
    <3>5. Len(bytes') = WholeUpload
      BY <3>1, <3>3, UploadIs
    <3>6. Spoken'
      BY <3>1 DEF Spoken, Own
    <3>7. AtMessage'
      BY <3>1, <3>2, <3>3, <3>4, <3>5 DEF AtMessage
    <3> QED BY <2>1, <3>6, <3>7 DEF ReadingOK
  <2>2. CASE pc' # "reading"
    <3>1. pc' \in {"elsewhere", "refused"}
      BY <1>3, <2>2, ConnectSpeaks
    <3> QED BY <3>1 DEF ReadingOK
  <2> QED BY <2>1, <2>2
<1>4. CASE NoConnection
  BY <1>4 DEF NoConnection, ReadingOK
<1>5. ASSUME NEW c \in OtherClients, NEW n \in Cuts, OtherClient(c, n) PROVE ReadingOK'
  <2>1. /\ pc = "text" /\ listener.kind = "provider" /\ tls'.kind = "client" /\ UNCHANGED <<listener, stage, rd, buf>>
        /\ \/ /\ pc' = "reading" /\ rpc' = "prefix" /\ parsed' = issued
              /\ bytes' = SubSeq(Append(Upload(issued.token, issued.hash), 0), 1, n)
           \/ pc' = "refused"
    BY <1>5 DEF OtherClient
  <2>2. CASE pc' = "refused"
    BY <2>2 DEF ReadingOK
  <2>3. CASE pc' = "reading"
    <3>1. stage' = "handshake" /\ rd' = 0 /\ buf' = <<>>
      BY <2>1 DEF ReadingOK
    <3>2. HandedOut
      BY <2>1 DEF TextOK
    <3>3. PICK token \in Keys, hash \in Keys : token = issued.token /\ hash = issued.hash
      BY <3>2, TicketOfIs
    <3>4. Frame(HandshakeMsg(token), 0)' /\ Carries(RequestMsg(hash), Second)'
      <4>1. rpc' = "prefix" /\ \E k \in Cuts : bytes' = SubSeq(Append(Upload(token, hash), 0), 1, k)
        BY <2>1, <2>3, <3>3
      <4> QED BY <3>1, <4>1, StreamStarts
    <3>5. parsed'.token = token /\ parsed'.hash = hash
      BY <2>1, <2>3, <3>3
    <3>6. tls'.kind # "server"
      BY <2>1
    <3>7. Spoken'
      BY <2>1, <3>6 DEF Spoken
    <3>8. AtMessage'
      BY <3>1, <3>4, <3>5, <3>6 DEF AtMessage
    <3> QED BY <2>3, <3>7, <3>8 DEF ReadingOK
  <2> QED BY <2>1, <2>2, <2>3
<1>6. CASE Read
  <2>1. /\ pc = "reading" /\ ReadStep /\ pc' = pc /\ stage' = stage
        /\ UNCHANGED <<listener, parsed, tls>>
    BY <1>6 DEF Read, sessionVars
  <2>2. Spoken /\ AtMessage
    BY <2>1 DEF ReadingOK
  <2>m. PICK token \in Keys, hash \in Keys, h \in Seq(Byte), r \in Seq(Byte), s \in Seq(Byte) :
               Talk(token, hash, h, r, s)
    BY <1>m, <2>1, Zenon
  <2>3. /\ token = parsed.token /\ hash = parsed.hash
        /\ h = HandshakeMsg(token) /\ r = RequestMsg(hash) /\ s = ResponseMsg(1, hash)
        /\ Len(h) <= MAX_MESSAGE_SIZE /\ Len(r) <= MAX_MESSAGE_SIZE
        /\ Len(s) <= MAX_MESSAGE_SIZE /\ Second \in Nat
    BY <2>m, Zenon DEF Talk
  <2>4. /\ HandshakeMsg(parsed.token)' = h /\ RequestMsg(parsed.hash)' = r /\ ResponseMsg(1, parsed.hash)' = s
        /\ HandshakeMsg(parsed.token) = h /\ RequestMsg(parsed.hash) = r /\ ResponseMsg(1, parsed.hash) = s
        /\ Own' = Own /\ Spoken'
    BY <1>s, <2>1, <2>2, <2>3
  <2>5. CASE stage = "handshake"
    <3>1. Frame(h, 0) /\ Carries(r, Second) /\ 0 \in Nat
      BY <2>2, <2>4, <2>5 DEF AtMessage
    <3>2. Frame(h, 0)' /\ bytes' = bytes
      BY <2>1, <2>3, <3>1, FrameStep
    <3>3. Carries(r, Second)'
      BY <3>1, <3>2 DEF Carries, Second
    <3>4. AtMessage'
      BY <2>1, <2>2, <2>4, <2>5, <3>2, <3>3 DEF AtMessage
    <3> QED BY <2>1, <2>4, <3>4 DEF ReadingOK
  <2>6. CASE stage = "request"
    <3>1. Frame(r, Second)
      BY <2>2, <2>4, <2>6 DEF AtMessage
    <3>2. Frame(r, Second)' /\ bytes' = bytes
      <4>1. PICK k \in Nat : k = Second
        BY <2>3
      <4>2. Frame(r, k)' /\ bytes' = bytes
        BY <2>1, <2>3, <3>1, <4>1, FrameStep
      <4> QED BY <4>1, <4>2 DEF Second
    <3>3. AtMessage'
      BY <2>1, <2>2, <2>4, <2>6, <3>2 DEF AtMessage
    <3> QED BY <2>1, <2>4, <3>3 DEF ReadingOK
  <2>7. CASE stage = "response"
    <3>1. Frame(s, 0) /\ Len(bytes) = PREFIX + Len(s) /\ 0 \in Nat
      BY <2>2, <2>4, <2>7 DEF AtMessage
    <3>2. Frame(s, 0)' /\ bytes' = bytes
      BY <2>1, <2>3, <3>1, FrameStep
    <3>3. AtMessage'
      BY <2>1, <2>2, <2>4, <2>7, <3>1, <3>2 DEF AtMessage
    <3> QED BY <2>1, <2>4, <3>3 DEF ReadingOK
  <2> QED BY <2>2, <2>5, <2>6, <2>7 DEF AtMessage
<1>7. CASE HandshakeRead
  <2>1. /\ pc = "reading" /\ stage = "handshake" /\ rpc = "message" /\ UNCHANGED <<listener, parsed, tls, bytes, rd>>
        /\ \/ /\ Accepted(HandshakeFrom(Message)) /\ stage' = "request" /\ rpc' = "prefix"
              /\ buf' = Drop(buf, size) /\ pc' = pc
           \/ pc' = "refused"
    BY <1>7 DEF HandshakeRead, Reading, OnlyFrames
  <2>2. Spoken /\ AtMessage
    BY <2>1 DEF ReadingOK
  <2>3. CASE pc' = "refused"
    BY <2>3 DEF ReadingOK
  <2>4. CASE pc' = "reading"
    <3>m. PICK token \in Keys, hash \in Keys, h \in Seq(Byte), r \in Seq(Byte), s \in Seq(Byte) :
               Talk(token, hash, h, r, s)
      BY <1>m, <2>1, Zenon
    <3>1. /\ token = parsed.token /\ hash = parsed.hash
          /\ h = HandshakeMsg(token) /\ r = RequestMsg(hash)
          /\ PREFIX + Len(h) = Second /\ Second \in Nat
          /\ HandshakeFrom(h) = Took([version |-> VERSION, token |-> token], <<>>)
      BY <3>m, Zenon DEF Talk
    <3>2. /\ RequestMsg(parsed.hash)' = r /\ Own' = Own /\ Spoken'
      BY <1>s, <2>1, <2>2, <3>1
    <3>3. Frame(h, 0) /\ Carries(r, Second) /\ 0 \in Nat
      BY <2>1, <2>2, <3>1 DEF AtMessage
    <3>4. Message = h /\ Drop(buf, size) = <<>> /\ rd = Second /\ rd <= Len(bytes) /\ bytes \in Seq(Byte)
      <4>1. rd = 0 + PREFIX + Len(h) /\ PREFIX \in Nat /\ Len(h) \in Nat
        BY <2>1, <3>1, <3>3, FrameEnd, FramingAssumption
      <4>2. rd = PREFIX + Len(h)
        BY <4>1
      <4> QED BY <2>1, <3>1, <3>3, <4>2, FrameEnd DEF Frame
    <3>5. token = Own.token
      <4>1. Accepted(HandshakeFrom(h))
        BY <2>1, <2>4, <3>4
      <4>2. HandshakeFrom(h).v = [version |-> VERSION, token |-> token]
        BY <3>1, TookIs
      <4>3. [version |-> VERSION, token |-> token] = [version |-> VERSION, token |-> Own.token]
        BY <4>1, <4>2 DEF Accepted
      <4> QED BY <4>3
    <3>6. stage' = "request" /\ rpc' = "prefix" /\ buf' = <<>> /\ bytes' = bytes /\ rd' = Second
      BY <2>1, <2>4, <3>4
    <3>7. Carries(r, Second)' /\ rd' \in 0..Len(bytes')
      BY <3>1, <3>3, <3>4, <3>6 DEF Carries, Second
    <3>8. Frame(r, Second)'
      BY <3>4, <3>6, <3>7 DEF Frame, Second
    <3>9. parsed' = parsed /\ tls' = tls /\ Own'.token = parsed'.token
      BY <2>1, <3>1, <3>2, <3>5
    <3>10. AtMessage'
      BY <2>1, <2>2, <3>2, <3>6, <3>8, <3>9 DEF AtMessage
    <3> QED BY <2>4, <3>2, <3>10 DEF ReadingOK
  <2> QED BY <2>1, <2>3, <2>4
<1>8. CASE RequestRead
  <2>1. /\ pc = "reading" /\ stage = "request" /\ rpc = "message" /\ UNCHANGED <<listener, parsed, tls>>
        /\ \/ /\ stage' = "response" /\ rpc' = "prefix" /\ pc' = pc /\ rd' = 0 /\ buf' = <<>>
              /\ bytes' = Written(ResponseMsg(RequestFrom(Message).v.id, RequestFrom(Message).v.name))
           \/ pc' = "refused"
    BY <1>8 DEF RequestRead, Reading, OnlyFrames
  <2>2. Spoken /\ AtMessage
    BY <2>1 DEF ReadingOK
  <2>3. CASE pc' = "refused"
    BY <2>3 DEF ReadingOK
  <2>4. CASE pc' = "reading"
    <3>m. PICK token \in Keys, hash \in Keys, h \in Seq(Byte), r \in Seq(Byte), s \in Seq(Byte) :
               Talk(token, hash, h, r, s)
      BY <1>m, <2>1, Zenon
    <3>1. /\ hash = parsed.hash
          /\ r = RequestMsg(hash) /\ s = ResponseMsg(1, hash) /\ Len(s) <= MAX_MESSAGE_SIZE
          /\ Second \in Nat
          /\ RequestFrom(r) = Took([id |-> 1, name |-> hash], <<>>)
      BY <3>m, Zenon DEF Talk
    <3>2. ResponseMsg(1, parsed.hash)' = s /\ Own' = Own /\ Spoken'
      BY <1>s, <2>1, <2>2, <3>1
    <3>3. Frame(r, Second)
      BY <2>1, <2>2, <3>1 DEF AtMessage
    <3>4. Message = r
      BY <2>1, <3>1, <3>3, FrameEnd
    <3>5. RequestFrom(Message).v.id = 1 /\ RequestFrom(Message).v.name = hash
      <4>1. RequestFrom(Message).v = [id |-> 1, name |-> hash]
        BY <3>1, <3>4, TookIs
      <4> QED BY <4>1
    <3>6. bytes' = Written(s) /\ rd' = 0 /\ buf' = <<>> /\ rpc' = "prefix" /\ stage' = "response"
      BY <2>1, <2>4, <3>1, <3>5
    <3>7. PICK w \in Seq(Byte) : w = Written(s) /\ Len(w) = PREFIX + Len(s)
      BY <3>1, WrittenIs
    <3>8. Carries(s, 0)'
      <4>1. \A i \in 1..(PREFIX + Len(s)) : 0 + i = i
        BY FramingAssumption
      <4> QED BY <3>6, <4>1 DEF Carries
    <3>9. Frame(s, 0)'
      <4>1. bytes' \in Seq(Byte) /\ rd' \in 0..Len(bytes')
        BY <3>6, <3>7
      <4> QED BY <3>6, <3>8, <4>1 DEF Frame
    <3>10. Len(bytes') = PREFIX + Len(s)
      BY <3>6, <3>7
    <3>11. Own'.token = parsed'.token
      BY <2>1, <2>2, <3>2 DEF AtMessage
    <3>12. AtMessage'
      BY <3>2, <3>6, <3>9, <3>10, <3>11 DEF AtMessage
    <3> QED BY <2>4, <3>2, <3>12 DEF ReadingOK
  <2> QED BY <2>1, <2>3, <2>4
<1>9. CASE ResponseRead
  <2>1. /\ pc = "reading" /\ stage = "response" /\ rpc = "message" /\ UNCHANGED <<listener, parsed, tls>>
        /\ pc' = IF ResponseFrom(Message).ok THEN ResponseFrom(Message).v ELSE "refused"
    BY <1>9 DEF ResponseRead, Reading, OnlyFrames
  <2>2. Spoken /\ AtMessage
    BY <2>1 DEF ReadingOK
  <2>m. PICK token \in Keys, hash \in Keys, h \in Seq(Byte), r \in Seq(Byte), s \in Seq(Byte) :
               Talk(token, hash, h, r, s)
    BY <1>m, <2>1, Zenon
  <2>3. /\ hash = parsed.hash /\ s = ResponseMsg(1, hash)
        /\ ResponseFrom(s) = Took(IF hash = Own.hash THEN "found" ELSE "notfound", <<>>)
    BY <2>m, Zenon DEF Talk
  <2>4. Frame(s, 0) /\ 0 \in Nat
    BY <2>1, <2>2, <2>3 DEF AtMessage
  <2>5. Message = s
    BY <2>1, <2>4, FrameEnd
  <2>6. pc' = IF hash = Own.hash THEN "found" ELSE "notfound"
    BY <2>1, <2>3, <2>5, TookIs
  <2>7. Own' = Own /\ Spoken' /\ Own.token = parsed.token
    BY <1>s, <2>1, <2>2 DEF AtMessage
  <2>8. Own'.token = parsed'.token /\ (pc' = "found" <=> Own'.hash = parsed'.hash)
    BY <2>1, <2>3, <2>6, <2>7
  <2>9. pc' \in {"found", "notfound"}
    BY <2>6
  <2> QED BY <2>7, <2>8, <2>9 DEF ReadingOK
<1>10. CASE ReadEnds
  BY <1>10 DEF ReadEnds, ReadingOK
<1>11. \/ UNCHANGED vars \/ Connect \/ NoConnection \/ (\E c \in OtherClients, n \in Cuts : OtherClient(c, n))
       \/ Read \/ HandshakeRead \/ RequestRead \/ ResponseRead \/ ReadEnds
       \/ /\ pc \in {"start", "text"} /\ pc' \in {"start", "text", "connect", "badtext"}
          /\ UNCHANGED <<stage, rd, buf>>
  <2>1. ASSUME NEW i \in ProviderIds, Listen(i)
        PROVE  pc \in {"start", "text"} /\ pc' = pc /\ UNCHANGED <<stage, rd, buf>>
    BY <2>1 DEF Listen, frameVars
  <2>2. ASSUME NEW o \in OtherServers, ListenOther(o)
        PROVE  pc = "text" /\ pc' = pc /\ UNCHANGED <<stage, rd, buf>>
    BY <2>2 DEF ListenOther, frameVars
  <2>3. CASE StopListening
    BY <2>3 DEF StopListening, frameVars
  <2>4. CASE Issue
    BY <2>4 DEF Issue, frameVars
  <2>5. Damage => pc = "text" /\ pc' = pc /\ UNCHANGED <<stage, rd, buf>>
    BY DEF Damage, frameVars
  <2>6. CASE ParseText
    BY <2>6 DEF ParseText, frameVars
  <2> QED BY <2>1, <2>2, <2>3, <2>4, <2>5, <2>6 DEF Next
<1> QED BY <1>1, <1>2, <1>3, <1>4, <1>5, <1>6, <1>7, <1>8, <1>9, <1>10, <1>11

\* The inductive invariant of a session.
SessionInv == ListenerOK /\ TextOK /\ ParsedOK /\ ReadingOK

\* It holds in every state.
LEMMA SessionInvHolds == Spec => []SessionInv
<1>1. Init => SessionInv
  <2>1. None.kind = "none"
    BY DEF None
  <2> QED BY <2>1 DEF Init, FramingInit, SessionInv, ListenerOK, TextOK, ParsedOK, ReadingOK
<1>2. SessionInv /\ [Next]_vars => SessionInv'
  BY ListenerStep, TextStep, ParsedStep, ReadingStep DEF SessionInv
<1> QED BY <1>1, <1>2, PTL DEF Spec

\* However the stream is cut into reads, the reader hands on the messages as
\* they were written, in their order (read_lp, read_lp_data, handle_stream).
THEOREM SessionMessagesAsWritten == Spec => []MessagesAsWritten
<1>1. SessionInv => MessagesAsWritten
  <2> SUFFICES ASSUME SessionInv, pc = "reading", rpc = "message"
               PROVE  Message = CASE stage = "handshake" -> HandshakeMsg(parsed.token)
                                  [] stage = "request" -> RequestMsg(parsed.hash)
                                  [] OTHER -> ResponseMsg(1, parsed.hash)
    BY DEF MessagesAsWritten
  <2>1. Spoken /\ AtMessage /\ Parsed /\ TextOK /\ ListenerOK
    BY DEF SessionInv, ReadingOK, ParsedOK
  <2>2. PICK token \in Keys, hash \in Keys : token = parsed.token /\ hash = parsed.hash
    BY <2>1, ParsedTicket
  <2>3. listener.id \in ProviderIds
    BY <2>1, ListenerIs DEF Spoken
  <2>4. PICK h \in Seq(Byte), r \in Seq(Byte), s \in Seq(Byte) :
               h = HandshakeMsg(token) /\ r = RequestMsg(hash) /\ s = ResponseMsg(1, hash)
    BY <2>3, HandshakeReadBack, RequestReadBack, ResponseReadBack
  <2>5. PICK k \in Nat : k = Second
    BY MessagesFit, <2>2
  <2>6. CASE stage = "handshake"
    <3>1. Frame(h, 0) /\ 0 \in Nat
      BY <2>1, <2>2, <2>4, <2>6 DEF AtMessage
    <3>2. Message = h
      BY <3>1, FrameEnd
    <3> QED BY <2>2, <2>4, <2>6, <3>2
  <2>7. CASE stage = "request"
    <3>1. Frame(r, k)
      BY <2>1, <2>2, <2>4, <2>5, <2>7 DEF AtMessage
    <3>2. Message = r /\ stage # "handshake"
      BY <2>7, <3>1, FrameEnd
    <3> QED BY <2>2, <2>4, <2>7, <3>2
  <2>8. CASE stage = "response"
    <3>1. Frame(s, 0) /\ 0 \in Nat
      BY <2>1, <2>2, <2>4, <2>8 DEF AtMessage
    <3>2. Message = s /\ stage # "handshake" /\ stage # "request"
      BY <2>8, <3>1, FrameEnd
    <3> QED BY <2>2, <2>4, <2>8, <3>2
  <2> QED BY <2>1, <2>6, <2>7, <2>8 DEF AtMessage
<1> QED BY <1>1, SessionInvHolds, PTL

\* A getter is answered only by the provider its ticket names, about the hash
\* in it, whatever happened to the text (verify_server_cert, read_handshake).
THEOREM SessionAnsweredAsNamed == Spec => []AnsweredAsNamed
<1>1. SessionInv => AnsweredAsNamed
  <2> SUFFICES ASSUME SessionInv, pc \in {"found", "notfound"}
               PROVE  /\ Own.token = parsed.token
                      /\ tls.kind = "server" => Own.key = parsed.peer
                      /\ pc = "found" <=> Own.hash = parsed.hash
                      /\ ~damaged => parsed = issued
    BY DEF AnsweredAsNamed
  <2>1. Parsed /\ TextOK /\ pc # "start"
    BY DEF SessionInv, ParsedOK
  <2>2. ~damaged => parsed = issued
    BY <2>1, ParsedTicket
  <2> QED BY <2>2 DEF SessionInv, ReadingOK, Spoken
<1> QED BY <1>1, SessionInvHolds, PTL

\* The provider that made a text is what the text says.
LEMMA Genuine ==
    ASSUME SessionInv, Parsed, pc # "start", ~damaged, listener.kind = "provider", listener.id = issuer
    PROVE  /\ parsed.token \in Keys /\ parsed.hash \in Keys /\ listener # None /\ listener.addr = parsed.addr
           /\ Own.token = parsed.token /\ Own.key = parsed.peer /\ Own.hash = parsed.hash
<1>1. HandedOut /\ TextOK /\ ListenerOK
  BY DEF SessionInv, TextOK
<1>2. parsed = issued /\ parsed.token \in Keys /\ parsed.hash \in Keys
  BY <1>1, ParsedTicket
<1>3. /\ issued.hash = Providers[issuer].hash /\ issued.peer = Providers[issuer].key
      /\ issued.addr = Providers[issuer].addr /\ issued.token = Providers[issuer].token
  BY <1>1, TicketOfIs
<1>4. Own = Providers[issuer] /\ listener # None /\ listener.addr = Own.addr
  BY <1>1, ListenerIs
<1> QED BY <1>2, <1>3, <1>4

\* With the text as it was handed out and the provider that made it at its
\* address, a getter is answered with the collection (get, handle_connection).
THEOREM SessionRefusalHasCause == Spec => []RefusalHasCause
<1> DEFINE Cause == \/ damaged \/ tls.kind = "client"
                    \/ listener.kind # "provider" \/ listener.id # issuer
           Bad == {"refused", "elsewhere", "lost", "panicked", "notfound"}
<1>1. Init => RefusalHasCause
  BY DEF Init, RefusalHasCause
<1>2. SessionInv /\ RefusalHasCause /\ [Next]_vars => RefusalHasCause'
  <2> SUFFICES ASSUME SessionInv, RefusalHasCause, [Next]_vars PROVE RefusalHasCause'
    OBVIOUS
  <2>i. ListenerOK /\ TextOK /\ ParsedOK /\ ReadingOK /\ ParsedOK'
    BY ParsedStep DEF SessionInv
  <2>b. pc' = "badtext" => damaged'
    BY <2>i DEF ParsedOK
  <2>p. pc \in {"connect", "reading"} => Parsed /\ pc # "start"
    BY <2>i DEF ParsedOK
  <2>u. ASSUME UNCHANGED <<damaged, tls, listener, issuer>> PROVE Cause' <=> Cause
    BY <2>u
  <2>r. pc' \notin Bad \/ Cause' => RefusalHasCause'
    BY <2>b DEF RefusalHasCause
  <2> HIDE DEF Cause
  <2>c. Cause <=> \/ damaged \/ tls.kind = "client"
                  \/ listener.kind # "provider" \/ listener.id # issuer
    BY DEF Cause
  <2>d. Cause' <=> \/ damaged' \/ tls'.kind = "client"
                   \/ listener'.kind # "provider" \/ listener'.id # issuer'
    BY DEF Cause
  <2>1. CASE UNCHANGED vars
    BY <2>1 DEF vars, sessionVars, RefusalHasCause
  <2>2. CASE Connect
    <3> SUFFICES ASSUME ~Cause', pc' \in Bad PROVE FALSE
      BY <2>r
    <3>1. UNCHANGED <<damaged, listener, issuer, parsed>> /\ pc = "connect"
      BY <2>2 DEF Connect
    <3>2. ~damaged /\ listener.kind = "provider" /\ listener.id = issuer
      BY <2>d, <3>1
    <3>3. Own.key = parsed.peer /\ parsed.token \in Keys /\ parsed.hash \in Keys
      BY <2>p, <3>1, <3>2, Genuine
    <3> QED BY <2>2, <2>i, <3>2, <3>3, ConnectSpeaks
  <2>3. CASE NoConnection
    <3> SUFFICES ASSUME ~Cause' PROVE FALSE
      BY <2>r
    <3>1. UNCHANGED <<damaged, listener, issuer, parsed>> /\ pc = "connect" /\ ~Reachable
      BY <2>3 DEF NoConnection
    <3>2. ~damaged /\ listener.kind = "provider" /\ listener.id = issuer
      BY <2>d, <3>1
    <3>3. listener # None /\ listener.addr = parsed.addr
      BY <2>p, <3>1, <3>2, Genuine
    <3> QED BY <3>1, <3>3 DEF Reachable
  <2>4. ASSUME NEW c \in OtherClients, NEW n \in Cuts, OtherClient(c, n) PROVE RefusalHasCause'
    <3>1. tls'.kind = "client"
      BY <2>4 DEF OtherClient
    <3> QED BY <2>d, <2>r, <3>1
  <2>5. CASE Read
    <3>1. pc' = "reading"
      BY <2>5 DEF Read, sessionVars
    <3> QED BY <2>r, <3>1
  <2>6. CASE HandshakeRead \/ RequestRead \/ ResponseRead \/ ReadEnds
    <3> SUFFICES ASSUME ~Cause', pc' \in Bad PROVE FALSE
      BY <2>r
    <3>1. pc = "reading" /\ UNCHANGED <<damaged, tls, listener, issuer, parsed>>
      BY <2>6 DEF HandshakeRead, RequestRead, ResponseRead, ReadEnds, Reading, OnlyFrames
    <3>2. ~damaged /\ tls.kind # "client" /\ listener.kind = "provider" /\ listener.id = issuer
      BY <2>d, <3>1
    <3>3. PICK token \in Keys, hash \in Keys :
             /\ token = parsed.token /\ hash = parsed.hash /\ Own.token = token /\ Own.hash = hash
      BY <2>p, <3>1, <3>2, Genuine
    <3>4. Spoken /\ AtMessage /\ tls.kind = "server" /\ listener.id \in ProviderIds
      <4>1. Spoken /\ AtMessage
        BY <2>i, <3>1 DEF ReadingOK
      <4> QED BY <2>i, <3>2, <4>1, ListenerIs DEF Spoken
    <3>5. PICK h \in Seq(Byte), r \in Seq(Byte), s \in Seq(Byte) :
               /\ h = HandshakeMsg(token) /\ r = RequestMsg(hash) /\ s = ResponseMsg(1, hash)
               /\ HandshakeFrom(h) = Took([version |-> VERSION, token |-> token], <<>>)
               /\ RequestFrom(r) = Took([id |-> 1, name |-> hash], <<>>)
               /\ ResponseFrom(s) = Took("found", <<>>)
      <4>1. ResponseFrom(ResponseMsg(1, hash)) = Took("found", <<>>)
        BY <3>3, <3>4, ResponseReadBack
      <4> QED BY <3>4, <4>1, HandshakeReadBack, RequestReadBack, ResponseReadBack, Zenon
    <3>6. PICK k \in Nat : /\ k = Second /\ PREFIX + Len(h) = k /\ k + PREFIX + Len(r) = WholeUpload
                           /\ WholeUpload \in Nat
      BY <3>5, MessagesFit
    <3>7. /\ stage = "handshake" => Frame(h, 0)
          /\ stage = "request" => Frame(r, k)
          /\ stage = "response" => Frame(s, 0) /\ Len(bytes) = PREFIX + Len(s)
          /\ stage \in {"handshake", "request", "response"}
          /\ stage # "response" => Len(bytes) = WholeUpload
      BY <3>3, <3>4, <3>5, <3>6 DEF AtMessage
    <3>8. PREFIX \in Nat /\ Len(h) \in Nat /\ Len(r) \in Nat /\ Len(s) \in Nat /\ 0 \in Nat
      BY FramingAssumption
    <3>9. CASE HandshakeRead
      <4>1. stage = "handshake" /\ rpc = "message"
            /\ (~Accepted(HandshakeFrom(Message)) \/ pc' = pc)
        BY <3>9 DEF HandshakeRead, Reading
      <4>2. Message = h
        BY <3>7, <3>8, <4>1, FrameEnd
      <4>3. Accepted(HandshakeFrom(h))
        BY <3>3, <3>5, TookIs DEF Accepted
      <4> QED BY <3>1, <4>1, <4>2, <4>3
    <3>10. CASE RequestRead
      <4>1. stage = "request" /\ rpc = "message"
            /\ (~(RequestFrom(Message).ok /\ Left = 0) \/ pc' = pc)
        BY <3>10 DEF RequestRead, Reading
      <4>2. Message = r /\ rd = k + PREFIX + Len(r)
        BY <3>7, <3>8, <4>1, FrameEnd
      <4>3. RequestFrom(r).ok
        BY <3>5, TookIs
      <4>4. Left = 0
        BY <3>6, <3>7, <4>1, <4>2 DEF Left
      <4> QED BY <3>1, <4>1, <4>2, <4>3, <4>4
    <3>11. CASE ResponseRead
      <4>1. stage = "response" /\ rpc = "message"
            /\ pc' = IF ResponseFrom(Message).ok THEN ResponseFrom(Message).v ELSE "refused"
        BY <3>11 DEF ResponseRead, Reading
      <4>2. Message = s
        BY <3>7, <3>8, <4>1, FrameEnd
      <4>3. ResponseFrom(s).ok = TRUE /\ ResponseFrom(s).v = "found"
        BY <3>5, TookIs
      <4> QED BY <4>1, <4>2, <4>3
    <3>12. CASE ReadEnds
      <4>1. rpc \in {"none", "panicked"}
        BY <3>12 DEF ReadEnds
      <4>2. CASE stage = "handshake"
        <5>1. Frame(h, 0) /\ Len(bytes) = WholeUpload
          BY <3>7, <4>2
        <5>2. Len(bytes) < 0 + PREFIX + Len(h)
          BY <3>8, <4>1, <5>1, FrameEnd
        <5> QED BY <3>6, <3>8, <5>1, <5>2
      <4>3. CASE stage = "request"
        <5>1. Frame(r, k) /\ Len(bytes) = WholeUpload
          BY <3>7, <4>3
        <5>2. Len(bytes) < k + PREFIX + Len(r)
          BY <3>8, <4>1, <5>1, FrameEnd
        <5> QED BY <3>6, <3>8, <5>1, <5>2
      <4>4. CASE stage = "response"
        <5>1. Frame(s, 0) /\ Len(bytes) = PREFIX + Len(s)
          BY <3>7, <4>4
        <5>2. Len(bytes) < 0 + PREFIX + Len(s)
          BY <3>8, <4>1, <5>1, FrameEnd
        <5> QED BY <3>8, <5>1, <5>2
      <4> QED BY <3>7, <4>2, <4>3, <4>4
    <3> QED BY <2>6, <3>9, <3>10, <3>11, <3>12
  <2>7. \/ UNCHANGED vars \/ Connect \/ NoConnection \/ (\E c \in OtherClients, n \in Cuts : OtherClient(c, n))
        \/ Read \/ HandshakeRead \/ RequestRead \/ ResponseRead \/ ReadEnds
        \/ pc' \in {"start", "text", "connect", "badtext"}
    <3>1. ASSUME NEW i \in ProviderIds, Listen(i) PROVE pc' \in {"start", "text"}
      BY <3>1 DEF Listen
    <3>2. ASSUME NEW o \in OtherServers, ListenOther(o) PROVE pc' = "text"
      BY <3>2 DEF ListenOther
    <3> QED BY <3>1, <3>2 DEF Next, StopListening, Issue, Damage, ParseText
  <2>8. pc' \in {"start", "text", "connect", "badtext"} => RefusalHasCause'
    BY <2>r
  <2> QED BY <2>1, <2>2, <2>3, <2>4, <2>5, <2>6, <2>7, <2>8
<1> QED BY <1>1, <1>2, SessionInvHolds, PTL DEF Spec
=============================================================================
