----------------------------- MODULE MCPipeline -----------------------------
EXTENDS Pipeline

MCResultsOf == ExecutorResults
=============================================================================
