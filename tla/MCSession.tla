----------------------------- MODULE MCSession -----------------------------
EXTENDS Session

\* The issuer; its restart with the same key file and another token; another
\* provider at the same address; and one at another port.
K == <<<<7, 9>>, <<7, 11>>, <<0, 65>>>>
MCPublicKeys == {K[1], K[2], K[3]}
Addr(port) == [ip |-> <<127, 0, 0, 1>>, port |-> port]
MCProviders ==
    <<[key |-> K[1], certKey |-> "c1", token |-> <<4, 2>>, addr |-> Addr(4433), hash |-> <<1, 1>>, size |-> 3],
      [key |-> K[1], certKey |-> "c2", token |-> <<4, 3>>, addr |-> Addr(4433), hash |-> <<1, 1>>, size |-> 3],
      [key |-> K[2], certKey |-> "c3", token |-> <<4, 2>>, addr |-> Addr(4433), hash |-> <<1, 2>>, size |-> 300],
      [key |-> K[3], certKey |-> "c4", token |-> <<0, 64>>, addr |-> Addr(80), hash |-> <<1, 1>>, size |-> 0]>>

\* Certificates that differ from the issuer's in one respect each.
Good(by) == Generate(K[1], by)
Dss256(by) == [scheme |-> "ECDSA_NISTP256_SHA256", by |-> by]
P2p == Good("x").exts[1]
Odd(critical) == [P2p EXCEPT !.oid = "odd", !.critical = critical]
Labelled(keyType, kind, alg) ==
    [Good("x") EXCEPT !.keyType = keyType, !.kind = kind, !.alg = alg,
                      !.exts[1].over = <<keyType, "x">>]
Kind(keyType, alg) == Labelled(keyType, keyType, alg)
WithExts(exts) == [Good("x") EXCEPT !.exts = exts]
Presented ==
    {<<<<c>>, Dss256("x")>> : c \in
        {Good("x"), [Good("x") EXCEPT !.valid = FALSE], [Good("x") EXCEPT !.der = FALSE],
         [Good("x") EXCEPT !.signer = "y"], Kind("P256", "ECDSA_SHA1"), Kind("RSA", "RSA_SHA256"),
         Kind("P256", "ECDSA_SHA384"), Kind("EC_UNNAMED", "ECDSA_SHA256"),
         WithExts(<<>>), WithExts(<<Odd(FALSE), P2p>>), WithExts(<<P2p, Odd(TRUE)>>),
         WithExts(<<[P2p EXCEPT !.by = K[2]], P2p>>), WithExts(<<P2p, P2p>>),
         WithExts(<<[P2p EXCEPT !.by = K[2]]>>), WithExts(<<[P2p EXCEPT !.over = <<"P256", "c1">>]>>),
         WithExts(<<[P2p EXCEPT !.critical = FALSE]>>),
         WithExts(<<[P2p EXCEPT !.form = "badkey"]>>), WithExts(<<[P2p EXCEPT !.form = "badvalue"]>>)}}
    \cup {<<<<Kind("P384", "ECDSA_SHA384")>>, [scheme |-> "ECDSA_NISTP384_SHA384", by |-> "x"]>>,
          <<<<Kind("P521", "ECDSA_SHA512")>>, [scheme |-> "ECDSA_NISTP521_SHA512", by |-> "x"]>>,
          <<<<Kind("ED25519", "ED25519")>>, [scheme |-> "ED25519", by |-> "x"]>>,
          <<<<Kind("RSA", "ED25519")>>, [scheme |-> "ED25519", by |-> "x"]>>,
          <<<<Labelled("RSA", "ED25519", "ED25519")>>, [scheme |-> "ED25519", by |-> "x"]>>,
          <<<<[Labelled("RSA", "ED25519", "ED25519") EXCEPT !.exts[1].over = <<"ED25519", "x">>]>>,
            [scheme |-> "ED25519", by |-> "x"]>>,
          <<<<Labelled("P256", "ED25519", "ED25519")>>, [scheme |-> "ED25519", by |-> "x"]>>,
          <<<<Labelled("P256", "P384", "ECDSA_SHA256")>>, Dss256("x")>>,
          <<<<Kind("EC_OTHER", "ECDSA_SHA256")>>, Dss256("x")>>,
          <<<<Kind("ED25519", "ED448")>>, [scheme |-> "ED448", by |-> "x"]>>,
          <<<<Kind("P384", "ECDSA_SHA384")>>, Dss256("x")>>,
          <<<<Good("c1")>>, Dss256("x")>>, <<<<Good("x"), Good("x")>>, Dss256("x")>>,
          <<<<Generate(K[2], "x")>>, Dss256("x")>>}
MCOtherServers == {[addr |-> Addr(4433), chain |-> p[1], dss |-> p[2]] : p \in Presented}
MCOtherClients == {[chain |-> p[1], dss |-> p[2]] : p \in Presented}

MCSymbols == {0, 1, 27, 32, 52, 63, 64}
MCCuts == 0..12
=============================================================================
