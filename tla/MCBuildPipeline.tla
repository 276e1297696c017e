--------------------------- MODULE MCBuildPipeline ---------------------------
\* The build script.
EXTENDS BuildPipeline
=============================================================================
