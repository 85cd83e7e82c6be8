------------------------- MODULE ModerationAnalysisMC -------------------------
EXTENDS ModerationAnalysis

(* One category of each kind the policy tells apart, at confidences on both *)
(* sides of the three thresholds.                                           *)
ThresholdFlags ==
    [category   : {"sexual_minors", "graphic_violence", "hate_speech"},
     confidence : {2, 3, 4, 6, 7}]

ShortVideos == 0..9
=============================================================================
