---------------------------- MODULE MCWorkerProcess ----------------------------
EXTENDS WorkerProcess

CONSTANTS worker, other, m1, m2, lease1, lease2

================================================================================
