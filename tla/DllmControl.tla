---------------------------- MODULE DllmControl ----------------------------
(***************************************************************************)
(* The control commands the scheduler process serves between two batches:  *)
(* flush_cache (at once, or deferred until the scheduler is idle),         *)
(* pause_generation in place and continue_generation, composed with the    *)
(* event loop of DllmScheduler.  While the engine is paused the loop only  *)
(* receives.  DllmRetract adds the pause that retracts.                    *)
(***************************************************************************)
EXTENDS DllmScheduler

VARIABLES
    engine_paused,         \* _engine_paused, with the mode it was set by
    pending_flush,         \* _pending_flush is not None
    asked                  \* history: the live requests an abort has named

controls == <<engine_paused, pending_flush, asked>>

ControlInit ==
    Init /\ engine_paused = "no" /\ pending_flush = FALSE /\ asked = {}

\* Mutant: the last slot is left out of the cleared pool.
ClearPoolsOffByOne ==
    /\ batch' = NoBatch
    /\ free_pages' = [i \in 1..(PoolSize - 1) |-> i]
    /\ free_slots' = [i \in 1..NumRows |-> i - 1]
    /\ UNCHANGED <<queues, batch_is_full, reqs, req_to_token, control>>

\* flush_cache of an idle scheduler: both pools are cleared; the contents of
\* req_to_token stay.
ClearPools ==
    /\ batch' = NoBatch
    /\ free_pages' = [i \in 1..PoolSize |-> i]
    /\ free_slots' = [i \in 1..NumRows |-> i - 1]
    /\ UNCHANGED <<queues, batch_is_full, reqs, req_to_token, control>>

\* flush_cache_wrapped.  A busy scheduler defers a flush that comes with a
\* timeout, and refuses one that comes without.
FlushCache ==
    /\ At("recv") /\ ~pending_flush
    /\ IF IsFullyIdle
         THEN ClearPools /\ UNCHANGED controls
         ELSE pending_flush' = TRUE /\ UNCHANGED <<vars, engine_paused, asked>>

\* Mutant: a deferred flush has no deadline.
CheckWithoutDeadline ==
    /\ At("recv") /\ pending_flush /\ IsFullyIdle
    /\ ClearPools
    /\ pending_flush' = FALSE
    /\ UNCHANGED <<engine_paused, asked>>

\* _check_pending_flush, at the end of every process_input_requests.
CheckPendingFlush ==
    /\ At("recv") /\ pending_flush
    /\ IF IsFullyIdle THEN ClearPools ELSE UNCHANGED vars  \* too late
    /\ pending_flush' = FALSE
    /\ UNCHANGED <<engine_paused, asked>>

\* Mutant: the pause forgets the requests of the last batch.
PauseDropsStaging ==
    /\ At("recv")
    /\ engine_paused' = "in_place"
    /\ staging_queue' = {}
    /\ UNCHANGED <<waiting_queue, active, ticket, tickets, batch,
                   batch_is_full, reqs, pools, control, pending_flush, asked>>

\* pause_generation in place only sets the flag.
PauseInPlace ==
    /\ At("recv")
    /\ engine_paused' = "in_place"
    /\ UNCHANGED <<vars, pending_flush, asked>>

ContinueGeneration ==
    /\ At("recv") /\ engine_paused # "no"
    /\ engine_paused' = "no"
    /\ UNCHANGED <<vars, pending_flush, asked>>

-----------------------------------------------------------------------------
Arrive == (\E r \in Req : AddRequest(r)) /\ UNCHANGED controls

Abort(R) ==
    /\ AbortRequest(R)
    /\ asked' = asked \cup {r \in R : Arrived(r) /\ ~Finished(r)}
    /\ UNCHANGED <<engine_paused, pending_flush>>

\* The event loop behind process_input_requests: only of an engine that is not
\* paused, and only after a flush that is due.
FlushDue == pc = "recv" /\ pending_flush /\ IsFullyIdle

LoopRuns == engine_paused = "no" /\ ~FlushDue

RunLoop == LoopRuns /\ Loop /\ UNCHANGED controls

Expire == LoopRuns /\ (\E r \in Req : WaitingTimeout(r)) /\ UNCHANGED controls

Command == FlushCache \/ PauseInPlace \/ ContinueGeneration

ControlNext ==
    \/ RunLoop \/ Expire \/ Arrive \/ CheckPendingFlush \/ Command
    \/ Abort(Req) \/ \E r \in Req : Abort({r})

ControlSpec == ControlInit /\ [][ControlNext]_<<vars, controls>>

\* The process runs its loop; paused or not, it goes on receiving, so a deferred
\* flush is looked at again and again until its deadline.
FairControlSpec ==
    /\ ControlSpec
    /\ WF_<<vars, controls>>(RunLoop)
    /\ WF_<<vars, controls>>(CheckPendingFlush)

-----------------------------------------------------------------------------
(* Properties *)

\* A flush never takes the row or the slots of a live request, whatever was
\* paused, deferred or aborted before it.
FlushSparesLiveKv ==
    \A r \in Req : HasRow(r) =>
      /\ \A i \in 1..Len(free_slots) : free_slots[i] # req_pool_idx[r]
      /\ \A p \in Committed(r), i \in 1..Len(free_pages) :
           free_pages[i] # SlotAt(r, p)

\* A deferred flush is answered: done once the scheduler is idle, or refused
\* when its time is over.
FlushAnswered == pending_flush ~> ~pending_flush

\* Pausing in place, at any point and any number of times, loses no request and no
\* abort: if the engine is eventually left running, every request that arrived
\* finishes, as aborted if it was marked.
PausedRequestsFinish ==
    <>[](engine_paused = "no") => EveryRequestFinishes /\ MarkedAbortTakesEffect

\* An abort reaches every request that it names: each is finished or marked to
\* be ("Whether to abort all requests").
AbortReachesAll == \A r \in asked : Finished(r) \/ to_finish[r]
=============================================================================
