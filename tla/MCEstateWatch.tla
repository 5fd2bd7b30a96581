----------------------------- MODULE MCEstateWatch -----------------------------
(* A shape that is critical at the default horizon by its rounded score     *)
(* alone, two lines of one that is critical, and a pair of findings that    *)
(* share their identity and are critical at a nearer horizon only.          *)
EXTENDS EstateWatch, TLC

CONSTANTS c1, t1, t2

MCTargets == {t1, t2}
MCClients == {c1}
MCShapes == {"rsa", "dsa", "aes"}
MCLines == {1, 2}
MCScoreOf == [rsa |-> (10 :> 60 @@ 5 :> 75), dsa |-> (10 :> 70 @@ 5 :> 70),
              aes |-> (10 :> 10 @@ 5 :> 65)]
MCBandOf == [rsa |-> (10 :> "high" @@ 5 :> "critical"),
             dsa |-> (10 :> "critical" @@ 5 :> "critical"),
             aes |-> (10 :> "low" @@ 5 :> "critical")]
MCHorizons == {5, 10}
Bag(b) == [f \in Findings |-> IF <<f.shape, f.line>> \in DOMAIN b
                              THEN b[<<f.shape, f.line>>] ELSE 0]
MCInventories ==
    {Bag(<<"rsa", 1>> :> 1 @@ <<"dsa", 1>> :> 1),
     Bag(<<"dsa", 1>> :> 1 @@ <<"dsa", 2>> :> 1),
     Bag(<<"aes", 1>> :> 2)}
MCSymmetry == Permutations(MCTargets)
================================================================================
