-------------------------- MODULE MCWorkerHistory --------------------------
\* Small instances of WorkerHistory for TLC.
EXTENDS WorkerHistory, MCWorker
=============================================================================
