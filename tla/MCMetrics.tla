-------------------------------- MODULE MCMetrics --------------------------------
EXTENDS MetricsStore
===============================================================================
