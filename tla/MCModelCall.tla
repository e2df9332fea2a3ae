----------------------------- MODULE MCModelCall ----------------------------
(* Instances of ModelCall.                                                   *)
EXTENDS ModelCall

\* One place for each way to call: keeping a text, skipping a step and putting a
\* stub in place are all the same to the calls, the agent goes on without the
\* answer.
EveryKind ==
    {"proposal", "angle_cards", "query_expansion", "canon", "framework_lens",
     "four_axes", "one_axis", "shadow_baseline", "cite_marker_repair", "section",
     "global_coherence", "styled_section", "repolish", "turns",
     "vendor_scan"}
=============================================================================
