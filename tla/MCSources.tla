----------------------------- MODULE MCSources -----------------------------
EXTENDS DataSources

MCBackoff == <<1, 2>>
=============================================================================
