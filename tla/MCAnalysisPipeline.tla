------------------------ MODULE MCAnalysisPipeline ------------------------
EXTENDS AnalysisPipeline
=============================================================================
