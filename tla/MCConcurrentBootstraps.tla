----------------------- MODULE MCConcurrentBootstraps -----------------------
EXTENDS ConcurrentBootstraps

\* Two threads of one process.
MCThreads == {"t1", "t2"}
=============================================================================
