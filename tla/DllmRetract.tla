---------------------------- MODULE DllmRetract ----------------------------
(***************************************************************************)
(* pause_generation with retraction, the third mode of the command, added  *)
(* to the control commands of DllmControl.                                 *)
(***************************************************************************)
EXTENDS DllmControl, SequencesExt

\* The slots release_kv_cache gives back for r.
ReleasedSlots(r) ==
    RowSlice(r, 0, ReleaseLen(r, kv_committed_len[r], output_len[r]))

\* pause_generation with retraction: last_batch becomes running_batch without
\* its finished requests, and each of those is released, reset
\* (reset_for_retract) and appended to waiting_queue.  DllmManager keeps its
\* own references to them.
PauseRetract ==
    LET R == {r \in batch.reqs : ~Finished(r)}
        order == SetToSortSeq(R, LAMBDA r, q : ticket[r] < ticket[q])
        place(r) == CHOOSE i \in DOMAIN order : order[i] = r
        Reset(f, v) == [r \in Req |-> IF r \in R THEN v ELSE f[r]]
    IN /\ At("recv")
       /\ engine_paused' = "retract"
       /\ batch' = NoBatch
       /\ batch_is_full' = IF R # {} THEN FALSE ELSE batch_is_full
       /\ free_pages' = free_pages \o
            FlattenSeq([i \in DOMAIN order |-> ReleasedSlots(order[i])])
       /\ free_slots' = free_slots \o
            [i \in DOMAIN order |-> req_pool_idx[order[i]]]
       /\ req_pool_idx' = Reset(req_pool_idx, NoRow)
       /\ kv_committed_len' = Reset(kv_committed_len, 0)
       /\ prefix_len' = Reset(prefix_len, 0)
       /\ extend_input_len' = Reset(extend_input_len, 0)
       /\ waiting_queue' = waiting_queue \cup R
       /\ ticket' = [r \in Req |-> IF r \in R THEN tickets + place(r)
                                   ELSE ticket[r]]
       /\ tickets' = tickets + Len(order)
       /\ UNCHANGED <<active, staging_queue, dllm_phase, fill_len, results,
                      req_to_token, control, pending_flush, asked>>

\* Pauses that retract, with nothing aborted or timed out.
RetractNext ==
    \/ RunLoop \/ Arrive \/ CheckPendingFlush \/ Command \/ PauseRetract

RetractSpec == ControlInit /\ [][RetractNext]_<<vars, controls>>

\* Retracted requests are recomputed after continue_generation: neither of the
\* errors of a request that is in two queues at once occurs.
RetractedRunAgain == status \notin {"redundant", "already_freed"}
=============================================================================
