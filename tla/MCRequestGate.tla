---------------------------- MODULE MCRequestGate ----------------------------
(* Limit 2 in a window of two ticks, a second of two ticks, bodies of at  *)
(* most one byte.  Requests of every fate; two buckets and two actors.      *)
EXTENDS RequestGate, TLC

CONSTANTS s1, s2

MCSlots == {s1, s2}
MCSymmetry == Permutations(MCSlots)
MCKeys == {"patch", "upload"}
MCActors == {"alice", "bob"}

Patch == [key |-> "patch", write |-> TRUE, upload |-> FALSE, open |-> FALSE,
          declared |-> 1, body |-> 1, token |-> TRUE, actor |-> "alice"]

MCRequests ==
    {Patch,
     [Patch EXCEPT !.actor = "bob"],
     [Patch EXCEPT !.actor = None],
     [Patch EXCEPT !.token = FALSE],
     [Patch EXCEPT !.declared = 2, !.body = 2],
     [Patch EXCEPT !.declared = None, !.body = 2],
     [Patch EXCEPT !.write = FALSE, !.token = FALSE, !.open = TRUE,
                   !.declared = None, !.body = 0],
     [Patch EXCEPT !.key = "upload", !.upload = TRUE, !.declared = 2, !.body = 2]}
=============================================================================
