------------------------------- MODULE Disagg -------------------------------
(***************************************************************************)
(* Prefill/decode disaggregation (srt/disaggregation, Mooncake backend): a *)
(* prefill server computes the KV of a prompt and writes it into pages a   *)
(* decode server has reserved for it.  A request is submitted to both and  *)
(* is known to both by its bootstrap room; a room is named by its request. *)
(*                                                                         *)
(* Processes: the scheduler loop of each server (prefill.py, decode.py),   *)
(* bootstrap_thread and transfer_worker of the prefill server,             *)
(* decode_thread and heartbeat_checker of the decode server (              *)
(* mooncake/conn.py).  Clients submit and abort on each server separately. *)
(*                                                                         *)
(* p and d are the states of the two servers:                              *)
(*   req[r]        the request: row (its pages), meta (its metadata        *)
(*                 buffer index), conclude (conclude_state of its sender   *)
(*                 or receiver), answer (what the client was told)         *)
(*   free, mfree   free KV pages and free metadata buffer indexes          *)
(*   kv, buf       what the pages and the metadata buffers hold: <<r, i>>  *)
(*                 is the KV of token i of r; token (output_ids) and room  *)
(*                 (bootstrap_room), two regions of a buffer, name the     *)
(*                 request they were computed for, None is 0               *)
(*   status        request_status of the KV manager                        *)
(*   net           messages on the way to the other server                 *)
(*                                                                         *)
(* The page size is 1.  One prefill rank, one decode rank: poll_and_all_   *)
(* reduce is the local poll.  A prefill batch has one request (the budget  *)
(* of several is in OrdinaryScheduler); the prefix caches of both servers  *)
(* are ChunkCache, which the decode server always uses, so a release frees *)
(* the pages at once.  Staging buffers, HiSparse, speculative decoding,    *)
(* pipeline and context parallelism are off.                               *)
(***************************************************************************)
EXTENDS Integers, Sequences, FiniteSets, SequencesExt, FiniteSetsExt, Functions, TLC

CONSTANTS
    Req, None,
    InLen,                 \* len(origin_input_ids)
    PPages, DPages,        \* KV pages of the two servers
    ChunkSize,             \* chunked_prefill_size
    NumRows,               \* rows of DecodeReqToTokenPool: size + pre_alloc_size
    Reserved,              \* num_reserved_decode_tokens
    MaxRetries,            \* _max_ensure_retries
    MaxFaults,             \* bound on how many faults happen
    Settings               \* the values args may have

FaultKinds == {"p_abort", "d_abort", "transfer", "fetch", "heartbeat", "timeout"}

ASSUME DisaggAssumption ==
    /\ \A r \in Req : InLen[r] \in 1..DPages /\ InLen[r] + 2 < PPages
    /\ None \notin Req
    /\ {ChunkSize, NumRows, MaxRetries} \subseteq Nat \ {0}
    /\ Reserved \in Nat /\ MaxFaults \in Nat
    /\ \A a \in Settings :
          /\ a.max_new \in [Req -> Nat \ {0}]
          /\ {a.max_running, a.pmeta, a.dmeta} \subseteq Nat \ {0}
          /\ a.faults \subseteq FaultKinds
          /\ a.early \in Seq(Req) /\ IsInjective(a.early)

VARIABLES
    ppc, p,                \* where the loop of the prefill server is, and its state
    dpc, d,                \* the same for the decode server
    args,                  \* what the servers were started with, and the faults they meet
    expired,               \* timers that ran out: <<"sender", r>>, <<"receiver", r>>
    faults                 \* how many faults have happened

vars == <<ppc, p, dpc, d, args, expired, faults>>

MaxNew == args.max_new             \* max_new_tokens on the decode server
MaxRunning == args.max_running     \* max_running_requests of the decode server
PMeta == args.pmeta                \* sizes of the two ReqToMetadataIdxAllocator
DMeta == args.dmeta

PLabels == {"schedule", "send", "inflight"}
DLabels == {"queue", "batch"}

\* KVPoll, and no entry in request_status.
Failed == 0
Bootstrapping == 1
WaitingForInput == 2
Success == 4
Absent == -1

\* The requests of args.early were submitted before the first iteration of the loops.
Early(r, late, early) == IF r \in ToSet(args.early) THEN early ELSE late

EmptyBuf == [token |-> None, room |-> None]

Init ==
    /\ args \in Settings
    /\ ppc = "schedule"
    /\ dpc = "queue"
    /\ p = [boot |-> args.early, wait |-> << >>, chunked |-> << >>, inflight |-> << >>,
            req |-> [r \in Req |-> [done |-> 0, sent |-> 0, row |-> << >>, meta |-> None,
                                    conclude |-> None, answer |-> Early(r, "new", "live")]],
            free |-> 1..PPages, kv |-> [x \in 1..PPages |-> None],
            mfree |-> 1..PMeta, buf |-> [x \in 1..PMeta |-> EmptyBuf],
            status |-> [r \in Req |-> Early(r, Absent, Bootstrapping)], infos |-> [r \in Req |-> None],
            queue |-> << >>, unsent |-> {}, dead |-> FALSE, net |-> << >>]
    /\ d = [prealloc |-> args.early, pending |-> args.early, transfer |-> << >>, wait |-> << >>,
            running |-> << >>, retracted |-> << >>,
            req |-> [r \in Req |-> [ready |-> FALSE, row |-> << >>, meta |-> None,
                                    conclude |-> None, out |-> 0, first |-> None,
                                    to_finish |-> FALSE, cpu |-> << >>,
                                    answer |-> Early(r, "new", "live")]],
            free |-> 1..DPages, kv |-> [x \in 1..DPages |-> None],
            mfree |-> 1..DMeta, buf |-> [x \in 1..DMeta |-> EmptyBuf],
            status |-> [r \in Req |-> Early(r, Absent, Bootstrapping)], expect |-> {},
            info |-> FALSE, connected |-> FALSE, tries |-> 0,
            net |-> << >>, error |-> FALSE]
    /\ expired = {}
    /\ faults = 0

-----------------------------------------------------------------------------
(* What both servers use. *)

\* Which free page is handed out is not observable: the lowest ones are.
Lowest(S, n) ==
    SubSeq(SelectSeq([x \in 1..Max({PPages, DPages}) |-> x], LAMBDA x : x \in S), 1, n)
Without(seq, S) == SelectSeq(seq, LAMBDA r : r \notin S)
Upto(n) == [i \in 1..n |-> i]
\* kv after tags were written to pages.
Write(kv, pages, tags) ==
    FoldLeft(LAMBDA f, i : [f EXCEPT ![pages[i]] = tags[i]], kv, Upto(Len(pages)))

update_status(status, r, s) ==
    [status EXCEPT ![r] = IF @ = Absent \/ s = Failed THEN s ELSE Max({@, s})]

Conclusion(v) == IF v \in {Failed, Success} THEN v ELSE None

\* What the client of r is told; a second answer is recorded as such.
Answer(s, r, a) ==
    [s EXCEPT !.req[r].answer = IF @ = "live" THEN a ELSE "twice"]

\* release_kv_cache with ChunkCache, and the free of the row.
Release(s, r) ==
    [s EXCEPT !.free = @ \cup ToSet(s.req[r].row), !.req[r].row = << >>]

FreeMeta(s, r) ==
    [s EXCEPT !.mfree = @ \cup ({s.req[r].meta} \ {None}), !.req[r].meta = None]

AllocMeta(s, r) ==
    LET i == Min(s.mfree)
    IN [s EXCEPT !.mfree = @ \ {i}, !.req[r].meta = i]

\* A fault of this kind: an abort of a client, a failed transfer, a failed call of the
\* bootstrap server, a lost heartbeat or a timeout that comes early.
Fault(kind) == kind \in args.faults /\ faults < MaxFaults /\ faults' = faults + 1

-----------------------------------------------------------------------------
(* The scheduler of the prefill server (event_loop_normal_disagg_prefill).  *)

SenderPoll(r) ==
    IF p.req[r].conclude # None THEN p.req[r].conclude
    ELSE IF p.status[r] = Bootstrapping /\ <<"sender", r>> \in expired THEN Failed
    ELSE p.status[r]

\* MooncakeKVSender.clear and failure_exception.
SenderClear(s, r) == [s EXCEPT !.status[r] = Absent]
SenderFailed(s, r) == [SenderClear(s, r) EXCEPT !.req[r].conclude = Failed]

\* add of PrefillBootstrapQueue: the sender registers its room.
PSubmit(r) ==
    /\ ppc = "schedule"
    /\ p.req[r].answer = "new"
    /\ p' = [p EXCEPT !.boot = Append(@, r), !.req[r].answer = "live",
                      !.status = update_status(@, r, Bootstrapping)]
    /\ UNCHANGED <<ppc, dpc, d, args, expired, faults>>

\* abort_request: a waiting request is dropped, the sender of one that bootstraps or
\* transfers is failed.  One whose prompt is being computed is marked with to_finish,
\* which nothing reads on this server.
PAbort(r) ==
    /\ ppc = "schedule"
    /\ Fault("p_abort")
    /\ \/ /\ r \in ToSet(p.wait)
          /\ p' = FreeMeta(Answer([p EXCEPT !.wait = Without(@, {r})], r, "abort"), r)
       \/ /\ r \in ToSet(p.boot) \cup ToSet(p.inflight)
          /\ p' = [p EXCEPT !.req[r].conclude = Failed]
    /\ UNCHANGED <<ppc, dpc, d, args, expired>>

\* pop_bootstrapped for one request; it stops for good at the first request that is
\* ready when no metadata buffer is left.
PopStep(x, r) ==
    LET v == SenderPoll(r)
        s == [x.s EXCEPT !.boot = Without(@, {r})]
    IN IF x.stop \/ v = Bootstrapping THEN x
       ELSE IF v = Failed THEN [x EXCEPT !.s = Answer(SenderFailed(s, r), r, "abort")]
       ELSE IF x.s.mfree = {} THEN [x EXCEPT !.stop = TRUE]
       ELSE [x EXCEPT !.s = AllocMeta([s EXCEPT !.wait = Append(@, r)], r)]

\* The polls of all of seq are taken before the first is acted on.
SenderPolled(s, seq) ==
    FoldLeft(LAMBDA t, r : [t EXCEPT !.req[r].conclude = Conclusion(SenderPoll(r))], s, seq)

pop_bootstrapped(s) ==
    FoldLeft(PopStep, [s |-> SenderPolled(s, s.boot), stop |-> FALSE], s.boot).s

\* Mutant: every chunk is addressed to the start of the destination.
SendFromStart(s, r, end) ==
    LET q == s.req[r]
        pages == SubSeq(q.row, q.sent + 1, end)
        chunk == [room |-> r, pages |-> pages, from |-> 0,
                  last |-> end = InLen[r], aux |-> q.meta]
        dropped == s.status[r] \in {Absent, Failed} \/ s.infos[r] = None
    IN [s EXCEPT !.req[r].sent = end,
                 !.queue = IF pages = << >> \/ dropped THEN @ ELSE Append(@, chunk)]

\* send_kv_chunk, MooncakeKVSender.send and add_transfer_request.
send_kv_chunk(s, r, end) ==
    LET q == s.req[r]
        pages == SubSeq(q.row, q.sent + 1, end)
        chunk == [room |-> r, pages |-> pages, from |-> q.sent,
                  last |-> end = InLen[r], aux |-> q.meta]
        dropped == s.status[r] \in {Absent, Failed} \/ s.infos[r] = None
    IN [s EXCEPT !.req[r].sent = end,
                 !.queue = IF pages = << >> \/ dropped THEN @ ELSE Append(@, chunk)]

\* The next chunk of r is computed into new pages.
Extend(s, r) ==
    LET n == s.req[r].done
        m == Min({n + ChunkSize, InLen[r]})
        new == Lowest(s.free, m - n)
    IN [s EXCEPT !.req[r].done = m, !.req[r].row = @ \o new, !.free = @ \ ToSet(new),
                 !.kv = Write(@, new, [i \in 1..(m - n) |-> <<r, n + i>>])]

\* process_batch_result_disagg_prefill, up to the first region that set_buf writes:
\* transfer_worker may read the metadata buffer between its two assignments.
Computed(s, r) ==
    IF s.req[r].done < InLen[r] THEN [s EXCEPT !.chunked = <<r>>]
    ELSE [s EXCEPT !.chunked = << >>, !.inflight = Append(@, r),
                   !.buf[s.req[r].meta].token = r]

\* get_next_disagg_prefill_batch_to_run and the batch: the chunk computed in the last
\* iteration is sent, then the chunked request goes on or the next one starts, when
\* its prompt, one output token and a page are available.
PBatch(s) ==
    IF s.chunked # << >>
      THEN LET r == Head(s.chunked)
           IN Computed(Extend(send_kv_chunk(s, r, s.req[r].done), r), r)
    ELSE IF s.wait # << >> /\ InLen[Head(s.wait)] + 2 < Cardinality(s.free)
      THEN LET r == Head(s.wait)
           IN Computed(Extend([s EXCEPT !.wait = Tail(@)], r), r)
    ELSE s

\* An iteration of the loop up to the poll of the transfers.
PSchedule ==
    /\ ppc = "schedule"
    /\ p' = PBatch(pop_bootstrapped(p))
    /\ ppc' = IF p'.inflight # p.inflight THEN "send" ELSE "inflight"
    /\ UNCHANGED <<dpc, d, args, expired, faults>>

\* The rest of set_buf, and the last chunk.
PSendLast ==
    LET r == Last(p.inflight)
        s == [p EXCEPT !.buf[p.req[r].meta].room = r]
    IN /\ ppc = "send" /\ ppc' = "inflight"
       /\ p' = send_kv_chunk(s, r, InLen[r])
       /\ UNCHANGED <<dpc, d, args, expired, faults>>

\* process_disagg_prefill_inflight_queue for one request.
InflightStep(s, r) ==
    LET v == SenderPoll(r)
        t == FreeMeta(Release([s EXCEPT !.inflight = Without(@, {r})], r), r)
    IN IF v = Success THEN Answer(SenderClear(t, r), r, "ok")
       ELSE IF v = Failed THEN Answer(SenderFailed(t, r), r, "abort")
       ELSE s

process_disagg_prefill_inflight_queue ==
    /\ ppc = "inflight" /\ ppc' = "schedule"
    /\ p' = FoldLeft(InflightStep, SenderPolled(p, p.inflight), p.inflight)
    /\ UNCHANGED <<dpc, d, args, expired, faults>>

-----------------------------------------------------------------------------
(* The threads of the prefill server. *)

\* bootstrap_thread: a session (re)registers, or the pages of a room are announced.
bootstrap_thread ==
    /\ d.net # << >>
    /\ d' = [d EXCEPT !.net = Tail(@)]
    /\ LET m == Head(d.net)
       IN p' = IF m.room = None THEN [p EXCEPT !.dead = FALSE]
               ELSE [p EXCEPT !.infos[m.room] = [row |-> m.row, aux |-> m.aux],
                              !.status = update_status(@, m.room, WaitingForInput)]
    /\ UNCHANGED <<ppc, dpc, args, expired, faults>>

\* The status of r becomes v and is synchronised to the decode server.
Sync(s, r, v) ==
    [s EXCEPT !.status = update_status(@, r, v),
              !.net = Append(@, [room |-> r, status |-> v])]

\* The end of an iteration: the destination of a finished room is forgotten.
Forget(s, r) ==
    IF s.status[r] \in {Absent, Success} THEN [s EXCEPT !.infos[r] = None] ELSE s

\* transfer_worker: one chunk, to a room whose destination is known.  The pages and the
\* metadata are read when they are sent.  A failed transfer fails the session.
transfer_worker ==
    /\ p.queue # << >> /\ p.unsent = {}
    /\ LET c == Head(p.queue)
           r == c.room
           s == [p EXCEPT !.queue = Tail(@)]
           dst == p.infos[r]
           kv == Write(d.kv, SubSeq(dst.row, c.from + 1, c.from + Len(c.pages)),
                       [i \in DOMAIN c.pages |-> p.kv[c.pages[i]]])
       IN \/ /\ dst = None
             /\ p' = Forget(s, r)
             /\ UNCHANGED <<d, faults>>
          \/ /\ dst # None /\ p.dead
             /\ p' = Forget(Sync(s, r, Failed), r)
             /\ UNCHANGED <<d, faults>>
          \/ /\ dst # None /\ ~p.dead /\ Fault("transfer")
             /\ p' = Forget(Sync([s EXCEPT !.dead = TRUE], r, Failed), r)
             /\ UNCHANGED d
          \/ /\ dst # None /\ ~p.dead
             /\ p' = IF c.last THEN [p EXCEPT !.unsent = {"token", "room"}]
                     ELSE Forget(s, r)
             /\ d' = [d EXCEPT !.kv = kv]
             /\ UNCHANGED faults
    /\ UNCHANGED <<ppc, dpc, args, expired>>

\* Mutant: the room is reported as soon as one region is copied.
SendAuxReportsEarly ==
    /\ LET c == Head(p.queue)
           r == c.room
           dst == p.infos[r]
       IN \E g \in p.unsent :
            /\ d' = [d EXCEPT !.buf[dst.aux][g] = p.buf[c.aux][g]]
            /\ p' = IF p.unsent = {g} THEN Forget([p EXCEPT !.queue = Tail(@), !.unsent = {}], r)
                    ELSE Sync([p EXCEPT !.unsent = @ \ {g}], r, Success)
    /\ UNCHANGED <<ppc, dpc, args, expired, faults>>

\* send_aux behind the last chunk: the regions of the metadata buffer are copied one by
\* one, in any order, and the room is reported when all are, or when a copy fails.
send_aux ==
    /\ LET c == Head(p.queue)
           r == c.room
           s == [p EXCEPT !.queue = Tail(@), !.unsent = {}]
           dst == p.infos[r]
       IN \/ \E g \in p.unsent :
               /\ d' = [d EXCEPT !.buf[dst.aux][g] = p.buf[c.aux][g]]
               /\ p' = IF p.unsent = {g} THEN Forget(Sync(s, r, Success), r)
                       ELSE [p EXCEPT !.unsent = @ \ {g}]
               /\ UNCHANGED faults
          \/ /\ p.unsent # {} /\ Fault("transfer")
             /\ p' = Forget(Sync(s, r, Failed), r)
             /\ UNCHANGED d
    /\ UNCHANGED <<ppc, dpc, args, expired>>

-----------------------------------------------------------------------------
(* The scheduler of the decode server (event_loop_normal_disagg_decode).    *)

\* Mutant: a receiver waits for the prefill server without a timeout.
ReceiverNoTimeout(r) ==
    IF d.req[r].conclude # None THEN d.req[r].conclude ELSE d.status[r]

ReceiverPoll(r) ==
    IF d.req[r].conclude # None THEN d.req[r].conclude
    ELSE IF d.status[r] = WaitingForInput /\ <<"receiver", r>> \in expired THEN Failed
    ELSE d.status[r]

\* MooncakeKVReceiver.clear and failure_exception.
ReceiverClear(s, r) == [s EXCEPT !.status[r] = Absent, !.expect = @ \ {r}]
ReceiverFailed(s, r) == [ReceiverClear(s, r) EXCEPT !.req[r].conclude = Failed]

ReceiverPolled(s, seq) ==
    FoldLeft(LAMBDA t, r : [t EXCEPT !.req[r].conclude = Conclusion(ReceiverPoll(r))], s, seq)

\* init of the receiver of r: the route to the prefill server is fetched, with success
\* or not, and the session registered, once per connection.
InitReceiver(s, r, fetched) ==
    [s EXCEPT !.expect = @ \cup {r},
              !.connected = @ \/ fetched,
              !.net = IF ~s.connected /\ fetched THEN Append(@, [room |-> None]) ELSE @,
              !.req[r].conclude = IF ~s.connected /\ ~fetched THEN Failed ELSE @,
              !.status = update_status(@, r, WaitingForInput)]

\* A call to the bootstrap server of the prefill server succeeds or is a fault.
Fetched(ok) == IF ok THEN UNCHANGED faults ELSE Fault("fetch")

\* add of DecodePreallocQueue.
DSubmit(r) ==
    /\ dpc = "queue"
    /\ d.req[r].answer = "new"
    /\ LET s == [d EXCEPT !.prealloc = Append(@, r), !.req[r].answer = "live",
                          !.status = update_status(@, r, Bootstrapping)]
       IN IF d.info
            THEN \E ok \in {TRUE, d.connected} : Fetched(ok) /\ d' = InitReceiver(s, r, ok)
            ELSE UNCHANGED faults /\ d' = [s EXCEPT !.pending = Append(@, r)]
    /\ UNCHANGED <<ppc, p, dpc, args, expired>>

\* abort_request.
DAbort(r) ==
    /\ dpc = "queue"
    /\ Fault("d_abort")
    /\ \/ /\ r \in ToSet(d.wait)
          /\ d' = Release(Answer([d EXCEPT !.wait = Without(@, {r})], r, "abort"), r)
       \/ /\ r \in ToSet(d.prealloc) \cup ToSet(d.transfer)
          /\ d' = [d EXCEPT !.req[r].conclude = Failed]
       \/ /\ r \in ToSet(d.retracted)
          /\ d' = Answer([d EXCEPT !.retracted = Without(@, {r}), !.req[r].cpu = << >>],
                         r, "abort")
       \/ /\ r \in ToSet(d.running) /\ d.req[r].answer = "live"
          /\ d' = [d EXCEPT !.req[r].to_finish = TRUE]
    /\ UNCHANGED <<ppc, p, dpc, args, expired>>

Tokens(s, r) == InLen[r] + s.req[r].out
Total(f(_), seq) == FoldLeft(LAMBDA n, r : n + f(r), 0, seq)
retractable_tokens(s) == Total(LAMBDA r : Tokens(s, r), s.running)

\* _allocatable_tokens.  The batch of the last iteration is never a prebuilt one.
Allocatable(s, need, count_retracted) ==
    Cardinality(s.free)
      - Max({Reserved * (Len(s.running) + Len(s.transfer) + Len(s.wait)), need})
      - IF count_retracted THEN Total(LAMBDA r : Tokens(s, r) + Reserved, s.retracted) ELSE 0

need_space_for_single_req(s) ==
    IF s.running = << >> THEN 0
    ELSE Max({MaxNew[r] + InLen[r] : r \in ToSet(s.running)}) - retractable_tokens(s)

RowsLeft(s) == NumRows - Cardinality({r \in Req : s.req[r].row # << >>})

\* _pre_alloc; it asserts that the pages are there.
PreAlloc(s, r) ==
    LET n == InLen[r] + Max({s.req[r].out - 1, 0})
        new == Lowest(s.free, n)
    IN IF n > Cardinality(s.free) THEN [s EXCEPT !.error = TRUE]
       ELSE [s EXCEPT !.req[r].row = new, !.free = @ \ ToSet(new)]

\* resume_retracted_reqs for one request.
ResumeStep(x, r) ==
    LET required == Tokens(x.s, r) + Reserved
        s == PreAlloc([x.s EXCEPT !.retracted = Tail(@), !.wait = Append(@, r)], r)
    IN IF x.stop \/ RowsLeft(x.s) <= 0 \/ required > x.left THEN [x EXCEPT !.stop = TRUE]
       ELSE [x EXCEPT !.left = @ - required,
                      !.s = [s EXCEPT !.kv = Write(@, s.req[r].row, s.req[r].cpu),
                                      !.req[r].cpu = << >>]]

resume_retracted_reqs(s) ==
    FoldLeft(ResumeStep, [s |-> s, left |-> Allocatable(s, 0, FALSE), stop |-> FALSE],
             s.retracted).s

\* _resolve_pending_reqs: up says whether the bootstrap server answered, fetched
\* whether the route was fetched then.
Resolve(s, up, fetched) ==
    IF up THEN FoldLeft(LAMBDA t, r : InitReceiver(t, r, fetched),
                        [s EXCEPT !.info = TRUE, !.tries = 0, !.pending = << >>], s.pending)
    ELSE IF s.tries + 1 < MaxRetries THEN [s EXCEPT !.tries = @ + 1]
    ELSE FoldLeft(LAMBDA t, r : [t EXCEPT !.req[r].conclude = Failed],
                  [s EXCEPT !.tries = 0, !.pending = << >>], s.pending)

\* _update_handshake_waiters, and the removal of the requests it failed.  It polls with
\* the status of the state it starts from, s.
HandshakeStep(s, t, r) ==
    LET v == IF s.req[r].conclude # None THEN s.req[r].conclude ELSE s.status[r]
    IN IF v = WaitingForInput THEN [t EXCEPT !.req[r].ready = TRUE]
       ELSE IF v = Failed
         THEN Answer(ReceiverFailed([t EXCEPT !.prealloc = Without(@, {r})], r), r, "abort")
       ELSE IF v = Bootstrapping THEN t
       ELSE [t EXCEPT !.error = TRUE]

update_handshake_waiters(s) ==
    IF \A r \in ToSet(s.prealloc) : s.req[r].ready THEN s
    ELSE FoldLeft(LAMBDA t, r : HandshakeStep(s, t, r), s, s.prealloc)

\* pop_preallocated for one request: first come first served.
PreallocStep(x, r) ==
    LET s == x.s
        required == InLen[r] + Reserved
        worst == InLen[r] + MaxNew[r] - retractable_tokens(s)
        t == AllocMeta(PreAlloc([s EXCEPT !.prealloc = Without(@, {r}),
                                          !.transfer = Append(@, r)], r), r)
        msg == [room |-> r, row |-> t.req[r].row, aux |-> t.req[r].meta]
    IN IF x.stop \/ ~s.req[r].ready THEN x
       ELSE IF RowsLeft(s) <= 0 \/ s.mfree = {} \/ Max({required, worst}) > x.left
         THEN [x EXCEPT !.stop = TRUE]
       ELSE [x EXCEPT !.left = @ - required, !.s = [t EXCEPT !.net = Append(@, msg)]]

pop_preallocated(s) ==
    FoldLeft(PreallocStep,
             [s |-> s, left |-> Allocatable(s, need_space_for_single_req(s), TRUE),
              stop |-> FALSE], s.prealloc).s

\* process_decode_queue up to the poll of the transfers.  When a retracted request is
\* left, nothing is allocated and no transfer is polled in this iteration.
process_decode_queue ==
    LET s == resume_retracted_reqs(d)
    IN /\ dpc = "queue" /\ dpc' = "batch"
       /\ IF s.retracted # << >> THEN d' = s /\ UNCHANGED faults
          ELSE \E up, ok \in BOOLEAN :
                 /\ Fetched(up /\ ok)
                 /\ (up /\ ok) \/ s.pending # << >>
                 /\ ok \/ (up /\ ~s.connected)
                 /\ LET t == IF s.pending = << >> THEN s ELSE Resolve(s, up, ok)
                    IN d' = pop_preallocated(update_handshake_waiters(t))
       /\ UNCHANGED <<ppc, p, args, expired>>

\* _commit_transfer_to_req: the metadata buffer must hold the room of the request.
commit(s, r) ==
    LET buf == s.buf[s.req[r].meta]
        t == FreeMeta(ReceiverClear([s EXCEPT !.transfer = Without(@, {r})], r), r)
    IN IF buf.room = None THEN s
       ELSE IF buf.room # r THEN Release(Answer(t, r, "abort"), r)
       ELSE [t EXCEPT !.req[r].out = 1, !.req[r].first = buf.token, !.wait = Append(@, r)]

\* Mutant: the metadata buffer of a failed transfer is not freed.
TransferredKeepsMeta(s, r) ==
    LET v == ReceiverPoll(r)
        t == ReceiverFailed([s EXCEPT !.transfer = Without(@, {r})], r)
    IN IF v = Failed THEN Release(Answer(t, r, "abort"), r)
       ELSE IF v = Success THEN commit(s, r)
       ELSE s

\* pop_transferred for one request.
TransferredStep(s, r) ==
    LET v == ReceiverPoll(r)
        t == FreeMeta(ReceiverFailed([s EXCEPT !.transfer = Without(@, {r})], r), r)
    IN IF v = Failed THEN Release(Answer(t, r, "abort"), r)
       ELSE IF v = Success THEN commit(s, r)
       ELSE s

pop_transferred(s) == FoldLeft(TransferredStep, ReceiverPolled(s, s.transfer), s.transfer)

\* check_finished, and what follows when it is.
CheckFinished(s, r) ==
    IF s.req[r].to_finish THEN Release(Answer(s, r, "abort"), r)
    ELSE IF s.req[r].out >= MaxNew[r] THEN Release(Answer(s, r, "ok"), r)
    ELSE s

Live(s, seq) == SelectSeq(seq, LAMBDA r : s.req[r].answer = "live")

\* get_new_prebuilt_batch, process_batch_result_prebuilt and the merge.  Finished
\* requests stay in running_batch, and count, until update_running_batch.
Prebuilt(s) ==
    LET n == Min({Max({MaxRunning - Len(s.running), 0}), Len(s.wait)})
        new == SubSeq(s.wait, 1, n)
        t == FoldLeft(CheckFinished, [s EXCEPT !.wait = SubSeq(@, n + 1, Len(@))], new)
    IN [t EXCEPT !.running = @ \o Live(t, new)]

\* check_decode_mem: one page for each request of the batch.
Enough(s) == Len(s.running) <= Cardinality(s.free)

\* The last request of the order retract_decode sorts by: fewest output tokens, then
\* the longest prompt, then the last in the batch.
Victim(s) ==
    LET worse(i, j) == LET a == s.running[i]  b == s.running[j]
                       IN \/ s.req[a].out < s.req[b].out
                          \/ s.req[a].out = s.req[b].out /\ InLen[a] > InLen[b]
                          \/ s.req[a].out = s.req[b].out /\ InLen[a] = InLen[b] /\ i >= j
    IN s.running[CHOOSE i \in DOMAIN s.running : \A j \in DOMAIN s.running : worse(i, j)]

\* Mutant: a retracted request is queued nowhere.
RetractDropped(s, r) ==
    Release([s EXCEPT !.running = Without(@, {r}),
                      !.req[r].cpu = [i \in DOMAIN s.req[r].row |-> s.kv[s.req[r].row[i]]]], r)

\* release_req, and add with is_retracted: the KV is copied to the host.
Retract(s, r) ==
    Release([s EXCEPT !.running = Without(@, {r}), !.retracted = Append(@, r),
                      !.req[r].cpu = [i \in DOMAIN s.req[r].row |-> s.kv[s.req[r].row[i]]]], r)

RetractStep(s, i) ==
    IF Len(s.running) = 1 \/ (i > 1 /\ Enough(s)) THEN s ELSE Retract(s, Victim(s))

\* retract_decode: at least one request is retracted and at least one is kept; if that
\* one cannot go on either it is aborted.
retract_decode(s) ==
    LET t == FoldLeft(RetractStep, s, Upto(Len(s.running)))
    IN IF Enough(t) THEN t
       ELSE LET r == t.running[1]
            IN Release(Answer([t EXCEPT !.running = << >>], r, "abort"), r)

\* prepare_for_decode, the forward pass and process_batch_result_decode.
DecodeStep(s, r) ==
    LET new == Lowest(s.free, 1)
        n == Len(s.req[r].row)
    IN CheckFinished([s EXCEPT !.free = @ \ ToSet(new), !.req[r].row = @ \o new,
                               !.kv = Write(@, new, <<<<r, n + 1>>>>),
                               !.req[r].out = @ + 1], r)

\* get_next_disagg_decode_batch_to_run with update_running_batch, and the batch.
DBatch(s0) ==
    LET s == Prebuilt(s0)
        t == [s EXCEPT !.running = Live(s, @)]
        u == IF Enough(t) THEN t ELSE retract_decode(t)
    IN FoldLeft(DecodeStep, u, u.running)

\* The rest of an iteration of the loop.
DSchedule ==
    /\ dpc = "batch" /\ dpc' = "queue"
    /\ d' = DBatch(IF d.retracted = << >> THEN pop_transferred(d) ELSE d)
    /\ UNCHANGED <<ppc, p, args, expired, faults>>

-----------------------------------------------------------------------------
(* The threads of the decode server, and time.                              *)

\* decode_thread: a success counts for rooms that are known; how many are expected is
\* looked up in a table of its own.
decode_thread ==
    /\ p.net # << >>
    /\ p' = [p EXCEPT !.net = Tail(@)]
    /\ LET m == Head(p.net)
       IN d' = IF m.status = Failed \/ (d.status[m.room] # Absent /\ m.room \in d.expect)
                 THEN [d EXCEPT !.status = update_status(@, m.room, m.status)]
               ELSE [d EXCEPT !.error = @ \/ d.status[m.room] # Absent]
    /\ UNCHANGED <<ppc, dpc, args, expired, faults>>

\* Mutant: the rooms of a prefill server that is given up are forgotten, not failed.
NodeFailureForgets ==
    /\ d.info
    /\ Fault("heartbeat")
    /\ d' = [d EXCEPT !.info = FALSE, !.connected = FALSE,
                      !.status = [r \in Req |-> IF @[r] = Success THEN @[r] ELSE Absent]]
    /\ UNCHANGED <<ppc, p, dpc, args, expired>>

\* heartbeat_checker gives the prefill server up (_handle_node_failure), although it
\* may only be slow.
node_failure ==
    /\ d.info
    /\ Fault("heartbeat")
    /\ d' = [d EXCEPT !.info = FALSE, !.connected = FALSE,
                      !.status = [r \in Req |-> IF @[r] \in {Absent, Success} THEN @[r]
                                                ELSE Failed]]
    /\ UNCHANGED <<ppc, p, dpc, args, expired>>

\* bootstrap_timeout or waiting_timeout runs out.  It is a fault when the other server
\* still works on the request, and bound to happen when it does not.
Expires(timer, other) ==
    /\ timer \notin expired
    /\ expired' = expired \cup {timer}
    /\ IF other = "live" THEN Fault("timeout") ELSE UNCHANGED faults
    /\ UNCHANGED <<ppc, p, dpc, d, args>>

SenderExpires(r) ==
    /\ r \in ToSet(p.boot) /\ p.status[r] = Bootstrapping
    /\ Expires(<<"sender", r>>, d.req[r].answer)

ReceiverExpires(r) ==
    /\ r \in ToSet(d.transfer) /\ d.status[r] = WaitingForInput
    /\ Expires(<<"receiver", r>>, p.req[r].answer)

Next ==
    \/ \E r \in Req : PSubmit(r) \/ PAbort(r) \/ DSubmit(r) \/ DAbort(r)
    \/ PSchedule \/ PSendLast \/ process_disagg_prefill_inflight_queue
    \/ bootstrap_thread \/ transfer_worker \/ send_aux
    \/ process_decode_queue \/ DSchedule
    \/ decode_thread \/ node_failure
    \/ \E r \in Req : SenderExpires(r) \/ ReceiverExpires(r)

Spec == Init /\ [][Next]_vars

\* Both loops run forever, the threads handle what they are sent, and time passes.  The
\* lines of the threads are their weak fairness with ENABLED written out: a thread is
\* enabled when its queue is not empty, and its steps are those that shorten it.
Fairness ==
    /\ WF_ppc(ppc' \in PLabels)
    /\ WF_dpc(dpc' \in DLabels)
    /\ []<>(d.net = << >>) \/ []<><<Len(d'.net) < Len(d.net)>>_vars
    /\ []<>(p.queue = << >>) \/ []<><<Len(p'.queue) < Len(p.queue)>>_vars
    /\ []<>(p.net = << >>) \/ []<><<Len(p'.net) < Len(p.net)>>_vars
    /\ WF_expired(\E r \in Req : SenderExpires(r) \/ ReceiverExpires(r))

FairSpec == Spec /\ Fairness

-----------------------------------------------------------------------------
(* Properties *)

Seqs(s, names) == FoldLeft(LAMBDA q, n : q \o s[n], << >>, names)
PQueues == Seqs(p, <<"boot", "wait", "chunked", "inflight">>)
DQueues == Seqs(d, <<"prealloc", "transfer", "wait", "retracted">>) \o Live(d, d.running)

\* The free units and those of the requests are all there and each exists once.
Partition(all, free, held(_)) ==
    /\ free \cup UNION {held(r) : r \in Req} = all
    /\ \A r \in Req : held(r) \cap free = {}
    /\ \A r, q \in Req : r # q => held(r) \cap held(q) = {}

\* On both servers every page and every metadata buffer is free or belongs to exactly
\* one request, and a request that was answered holds nothing, whatever is aborted,
\* times out, fails or is retracted (release_kv_cache, release_req_to_metadata_buffer
\* and pop_transferred free each of them exactly once).
ResourcesOwnedOnce ==
    /\ Partition(1..PPages, p.free, LAMBDA r : ToSet(p.req[r].row))
    /\ Partition(1..DPages, d.free, LAMBDA r : ToSet(d.req[r].row))
    /\ Partition(1..PMeta, p.mfree, LAMBDA r : {p.req[r].meta} \ {None})
    /\ Partition(1..DMeta, d.mfree, LAMBDA r : {d.req[r].meta} \ {None})
    /\ \A r \in Req : p.req[r].answer # "live" => p.req[r].row = << >> /\ p.req[r].meta = None
    /\ \A r \in Req : d.req[r].answer # "live" => d.req[r].row = << >> /\ d.req[r].meta = None

\* On each server a request is in one queue, once, exactly as long as its client waits
\* for an answer: none is dropped between two queues, and none is answered twice.
InOneQueue ==
    /\ \A r \in Req : p.req[r].answer # "twice" /\ d.req[r].answer # "twice"
    /\ IsInjective(PQueues) /\ IsInjective(DQueues)
    /\ ToSet(PQueues) = {r \in Req : p.req[r].answer = "live"}
    /\ ToSet(DQueues) = {r \in Req : d.req[r].answer = "live"}

\* Nothing raises: pages that _pre_alloc counted on are there, a poll finds the room in
\* request_status and in a state it expects, and decode_thread finds how many answers
\* a room expects.
NeverRaises ==
    /\ ~d.error
    /\ \A r \in ToSet(p.boot) \cup ToSet(p.inflight) :
          p.req[r].conclude # None \/ p.status[r] # Absent
    /\ \A r \in ToSet(d.prealloc) \cup ToSet(d.transfer) :
          d.req[r].conclude # None \/ d.status[r] # Absent

\* The requests that decode, or are about to.
Decoding == {r \in Req : d.req[r].answer = "live" /\ d.req[r].out > 0 /\ d.req[r].row # << >>}

GivenUp(s, r) == s.req[r].answer = "abort" \/ s.req[r].conclude = Failed

\* A request starts to decode from the token that was computed for it, or one of the
\* two servers had given up a room: _commit_transfer_to_req compares the room only, in a
\* region of its own, and the other server may be writing the buffer when it does.
FirstTokenIsOwnUnlessGivenUp ==
    \A r \in Req : d.req[r].out > 0 =>
      LET token == d.req[r].first
      IN \/ token = r \/ GivenUp(p, r)
         \/ token # None /\ (GivenUp(d, token) \/ GivenUp(p, token))

\* The KV of the prompt of r on the decode server is the one computed for it.
OwnKv(r, i) == d.kv[d.req[r].row[i]] = <<r, i>>

\* A request that decodes has its own, complete KV, unless its prefill was aborted
\* while it was being sent, or a room the decode server gave up was sent late: transfers
\* of rooms neither server gave up never touch another request and are complete when
\* decode_thread reports them.
KvIsOwnUnlessGivenUp ==
    \A r \in Decoding : \A i \in 1..InLen[r] :
        \/ OwnKv(r, i)
        \/ GivenUp(p, r)
        \/ LET tag == d.kv[d.req[r].row[i]]
           IN tag # None /\ tag[1] # r /\ (GivenUp(d, tag[1]) \/ GivenUp(p, tag[1]))

\* Every request that is submitted is answered by the server it was submitted to, with
\* a result or an abort: failures, timeouts and retractions leave nobody waiting.  A
\* request is submitted once, so this is: time and again, nobody waits.
EveryRequestAnswered ==
    []<>(\A r \in Req : p.req[r].answer # "live" /\ d.req[r].answer # "live")
=============================================================================
