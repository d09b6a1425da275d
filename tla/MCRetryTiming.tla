---------------------------- MODULE MCRetryTiming ----------------------------
EXTENDS RetryTiming
=============================================================================
