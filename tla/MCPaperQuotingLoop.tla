------------------------- MODULE MCPaperQuotingLoop -------------------------
EXTENDS PaperQuotingLoop, QuotingInstances
=============================================================================
