---------------------------- MODULE MCInteraction ----------------------------
(* Instances of Interaction for TLC.                                        *)
EXTENDS Interaction, TLC

CONSTANTS h1, h2,           \* handler threads, model values
          z1, z2, z3, z4    \* file names, model values

Symmetry == Permutations(Handlers) \cup Permutations(Names)
R(cmd, sub, json, image, valid) ==
    [cmd |-> cmd, sub |-> sub, json |-> json, image |-> image, valid |-> valid]

\* One request for each way through respond_interaction.
MCRequests ==
    {R("help", "none", "none", "none", FALSE), R("missing", "none", "none", "none", FALSE),
     R("obfuscate", "none", "other", "none", FALSE),
     R("obfuscate", "none", "json", "none", TRUE), R("obfuscate", "none", "json", "none", FALSE),
     R("manifest", "independent", "none", "none", FALSE),
     R("manifest", "dependent", "none", "png", FALSE),
     R("manifest", "dependent", "none", "other", FALSE),
     R("manifest", "unknown", "none", "none", FALSE),
     R("item", "start", "none", "none", FALSE),
     R("item", "checkpoint", "json", "none", FALSE), R("item", "checkpoint", "other", "none", FALSE),
     R("item", "finish", "json", "png", FALSE),
     R("entity", "none", "json", "other", TRUE), R("entity", "none", "other", "png", FALSE)}

\* The longest topic gets one page more, and one page is followed by a second.
MCLengths ==
    <<[t \in Topics |-> IF t = "manifest" THEN 2 ELSE 1],
      [t \in Topics |-> IF t = "manifest" THEN 3 ELSE 2]>>
=============================================================================
