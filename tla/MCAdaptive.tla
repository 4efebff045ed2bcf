---------------------------- MODULE MCAdaptive ----------------------------
EXTENDS AdaptiveConcurrency
CONSTANTS t1, t2, t3
MCTasks == {t1, t2, t3}
MCRetryAfters == {None, 0}
===========================================================================
