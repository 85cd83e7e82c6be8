SPECIFICATION AnalysisSpec

CONSTANTS
    Durations <- ShortVideos
    ChunkSeconds = 2
    MaxChunks = 3
    Flags <- ThresholdFlags
    Contexts = {"none", "news"}

\* The analysis of a video ends.
CHECK_DEADLOCK FALSE

INVARIANT OpenOutcomeSawEverything
INVARIANT OutcomeIsWorstChunk
INVARIANT QuarantineIsFinal
