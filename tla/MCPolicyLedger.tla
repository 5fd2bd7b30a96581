----------------------------- MODULE MCPolicyLedger -----------------------------
(* One target, paths of its tests and of its products, and globs for all   *)
(* paths and for the products; the second policy has a horizon of 0, which *)
(* no score survives.  Each family class and each branch of the tables is  *)
(* among the detections.                                                   *)
EXTENDS PolicyLedger, TLC

CONSTANTS s1, s2

MCScans == {s1, s2}
MCSymmetry == Permutations(MCScans)
MCPatterns == {"**", "**/prod/**", "**/test/**"}
MCPaths == {"a/prod/x", "a/test/x", "a/x"}
MCMatches == {<<p, "**">> : p \in MCPaths}
               \cup {<<"a/prod/x", "**/prod/**">>, <<"a/test/x", "**/test/**">>}

Ctx(e, k, x, y) == [exposure |-> e, criticality |-> k, shelfLife |-> x, migration |-> y]

MCDefaultPolicy ==
    [crqcYears |-> 10, default |-> Ctx("internal", "medium", 5, 3),
     contexts |-> <<[glob |-> "**/prod/**",
                     context |-> Ctx("external", "mission-critical", 10, 5)],
                    [glob |-> "**/test/**", context |-> Ctx("test", "low", 1, 1)]>>]
MCStrictPolicy ==
    [crqcYears |-> 0, default |-> Ctx("external", "medium", 5, 3), contexts |-> <<>>]
MCPolicyBodies == {MCDefaultPolicy, MCStrictPolicy}

Rec(pattern, criticality, facing) ==
    [criticality |-> criticality, pattern |-> pattern, facing |-> facing, target |-> "t"]
MCRecords == {Rec("**/prod/**", "low", "internal")}

Line(pattern, word, facing) ==
    [pattern |-> pattern, facing |-> facing, target |-> "t", word |-> word]
MCFiles == {<<Line("**", "vital", "dmz"), Line("**/prod/**", "high", "external"),
              Line("**", "critical", "internal")>>}

Det(path, family, hash, keySize, function) ==
    [path |-> path, family |-> family, hash |-> hash, keySize |-> keySize,
     function |-> function, mode |-> None]
MCDetections ==
    {Det("a/prod/x", "RSA", None, 2048, "keygen"), Det("a/test/x", "RSA", None, 4096, "keygen"),
     Det("a/prod/x", "RSA", None, None, "verify"), Det("a/x", "ECDH", None, 256, "keyderive"),
     Det("a/prod/x", "HMAC", "MD5", None, "tag"), Det("a/x", "HMAC", "SHA-2", None, "tag"),
     [Det("a/prod/x", "AES", None, 128, "encrypt") EXCEPT !.mode = "GCM"], Det("a/x", "AES", None, None, "decrypt"),
     Det("a/prod/x", "ML-KEM", None, None, "keygen"), Det("a/prod/x", "SHA-1", None, None, "digest"),
     Det("a/prod/x", "Ed25519", None, None, "sign"), Det("a/prod/x", "Blowfish", None, 128, "encrypt"),
     Det("a/prod/x", "ChaCha20", None, 128, "keygen"), Det("a/prod/x", "ChaCha20", None, 256, "encrypt"),
     Det("a/prod/x", None, None, None, "unknown"), Det("a/test/x", "3DES", None, None, "encrypt")}
=============================================================================
