---------------------------- MODULE MCThreadPool ----------------------------
(* Three threads and three tasks: enough for a task to be queued while all *)
(* threads are busy, for two sleepers to compete for one notification, and *)
(* for the destructor to find tasks queued, running and threads asleep.    *)
EXTENDS ThreadPool
=============================================================================
