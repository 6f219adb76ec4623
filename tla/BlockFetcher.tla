---------------------------- MODULE BlockFetcher ----------------------------
(* The toolkit's block fetcher (util/toolkit/src/fetcher): runs of the         *)
(* toolkit fetch the finalized blocks of a node into a cache that outlives     *)
(* them.  In a run a pusher cuts the missing range into jobs, fetch workers    *)
(* ask the node for the blocks the cache lacks, compute workers store and      *)
(* verify them, and the main loop collects the finished jobs, verifies the     *)
(* boundaries between them and moves the highest verified block.  All of them  *)
(* are tasks that wait for each other on channels, three of which are bounded. *)
(*                                                                             *)
(* A block is known by its hash and its parent's.  What it contains is left    *)
(* out, and so are the NoOp tasks, which no code path creates.                 *)
EXTENDS Integers, Sequences, FiniteSets

CONSTANTS
    Sessions,        \* places in which a toolkit can run at the same time
    FetchWorkers,    \* num_workers
    ComputeWorkers,  \* num_compute_workers
    Chains,          \* chains behind the url that share blocks 0 and 1
    BLOCKS_PER_JOB,  \* 100 in the code
    LeastPerJob,     \* the 5 of the code's `.max(5)`
    MaxHeight        \* bound: the highest block a node has finalized

\* A channel with no capacity would be refused by async_channel::bounded.
ASSUME FetcherAssumption ==
    /\ IsFiniteSet(FetchWorkers) /\ FetchWorkers # {}
    /\ IsFiniteSet(ComputeWorkers) /\ ComputeWorkers # {}
    /\ BLOCKS_PER_JOB \in Nat \ {0}
    /\ LeastPerJob \in Nat \ {0}
    /\ MaxHeight \in Nat \ {0}

VARIABLES
    blocks,   \* the cache: block data by number
    highest,  \* the cache: highest verified block, or NoneVerified
    run       \* per session: the state of fetch_from_rpc and of its tasks

vars == <<blocks, highest, run>>

NoneVerified == -1
Heights == 0 .. MaxHeight
NumWorkers == Cardinality(FetchWorkers)
NumComputeWorkers == Cardinality(ComputeWorkers)

(* ------------------------------ blocks and jobs --------------------------- *)

ZeroHash == <<>>

\* The cache is kept per chain_id, the hash of block 1, so all chains that meet
\* in one cache agree up to there.
Hash(n, c) == IF n <= 1 THEN <<n>> ELSE <<n, c>>

Block(n, c) ==
    [hash |-> Hash(n, c), parent_hash |-> IF n = 0 THEN ZeroHash ELSE Hash(n - 1, c)]

BlockData == {Block(n, c) : n \in Heights, c \in Chains}

\* insert_block_data_range: one transaction in every backend.
Insert(new, old) ==
    [n \in DOMAIN new \cup DOMAIN old |-> IF n \in DOMAIN new THEN new[n] ELSE old[n]]

CeilDiv(a, b) == (a + b - 1) \div b

\* Blocks of `r` are r.low .. r.fin: min_height is the highest verified block
\* itself, which ties the new blocks to the verified ones.
BlocksPerJob(r) ==
    LET range == r.fin + 1 - r.low
        shared == CeilDiv(range, NumWorkers)
    IN  IF range < BLOCKS_PER_JOB * NumWorkers
        THEN IF shared < LeastPerJob THEN LeastPerJob ELSE shared
        ELSE BLOCKS_PER_JOB

NumJobs(r) == CeilDiv(r.fin + 1 - r.low, BlocksPerJob(r))

Range(job) == job.min .. job.max - 1

(* ---------------------------------- a run --------------------------------- *)

NoTask == [min |-> 0, max |-> 0, blocks |-> <<>>]
NoResult == [kind |-> "none", fin |-> 0, tip |-> 0]

Fresh ==
    [phase |-> "idle", fin |-> 0, low |-> 0, next |-> 0,
     jobs |-> <<>>,       \* fetch_job channel
     toCompute |-> <<>>,  \* fetch_to_compute channel
     recompute |-> <<>>,  \* compute_to_compute channel, unbounded
     finals |-> <<>>,     \* final_jobs channel
     received |-> <<>>,   \* `jobs` of the main loop
     fetch |-> [w \in FetchWorkers |-> [at |-> "connecting", task |-> NoTask]],
     compute |-> [c \in ComputeWorkers |-> [at |-> "free", task |-> NoTask]],
     result |-> NoResult]

\* Returning drops the join set, and with it every task and channel.
End(s, kind, tip) ==
    run' = [run EXCEPT ![s] =
               [Fresh EXCEPT !.phase = "done",
                             !.result = [kind |-> kind, fin |-> run[s].fin, tip |-> tip]]]

Waiting(s) == run[s].phase \in {"idle", "done"}
Collecting(s) == run[s].phase = "collect"

Init ==
    /\ blocks = <<>>
    /\ highest = NoneVerified
    /\ run = [s \in Sessions |-> Fresh]

\* unwrap_or(0)
HighestOrZero == IF highest = NoneVerified THEN 0 ELSE highest

\* A run begins: the node tells its finalized height, which is at least 1
\* (get_block_one_hash refuses less) and may be behind that of another node.
\* Far behind, the unsigned difference leaves its range: a panic where overflow
\* is checked, and otherwise a Vec::with_capacity beyond any memory.
Start(s) ==
    /\ Waiting(s)
    /\ \E f \in 1 .. MaxHeight :
          LET r == [Fresh EXCEPT !.fin = f, !.low = HighestOrZero, !.next = HighestOrZero]
          IN  run' = [run EXCEPT ![s] =
                        IF f + 1 < HighestOrZero
                        THEN [Fresh EXCEPT !.phase = "done",
                                           !.result = [kind |-> "panic", fin |-> f, tip |-> 0]]
                        ELSE [r EXCEPT !.phase = IF NumJobs(r) = 0 THEN "verify" ELSE "collect"]]
    /\ UNCHANGED <<blocks, highest>>

\* Faulty variant: a last job that is not full is not pushed.
PushWholeJob(s) ==
    LET r == run[s] IN
    /\ Collecting(s)
    /\ r.next + BlocksPerJob(r) <= r.fin + 1
    /\ Len(r.jobs) < 2 * NumWorkers
    /\ LET end == r.next + BlocksPerJob(r)
       IN  run' = [run EXCEPT ![s].jobs = Append(@, [min |-> r.next, max |-> end]), ![s].next = end]
    /\ UNCHANGED <<blocks, highest>>

PushJob(s) ==
    LET r == run[s] IN
    /\ Collecting(s)
    /\ r.next <= r.fin
    /\ Len(r.jobs) < 2 * NumWorkers
    /\ LET end == r.next + BlocksPerJob(r)
           job == [min |-> r.next, max |-> IF end < r.fin + 1 THEN end ELSE r.fin + 1]
       IN  run' = [run EXCEPT ![s].jobs = Append(@, job), ![s].next = end]
    /\ UNCHANGED <<blocks, highest>>

(* ------------------------------ fetch workers ----------------------------- *)

\* A worker that cannot connect leaves; the others do its work.
Connect(s, w) ==
    /\ Collecting(s)
    /\ run[s].fetch[w].at = "connecting"
    /\ \E to \in {"free", "left"} : run' = [run EXCEPT ![s].fetch[w].at = to]
    /\ UNCHANGED <<blocks, highest>>

\* Faulty variant: the cache is not consulted.
FetchAnyway(s, w) ==
    LET r == run[s] IN
    /\ Collecting(s)
    /\ r.fetch[w].at = "free"
    /\ r.jobs # <<>>
    /\ LET job == Head(r.jobs)
       IN  \E from \in [Range(job) -> Chains] :
              LET got == [n \in Range(job) |-> Block(n, from[n])]
                  task == [min |-> job.min, max |-> job.max, blocks |-> got]
              IN  run' = [run EXCEPT ![s].jobs = Tail(@),
                                     ![s].fetch[w] = [at |-> "sending", task |-> task]]
    /\ UNCHANGED <<blocks, highest>>

\* Takes a job, reads the cache and asks for the blocks it lacks.  Every worker
\* has a connection of its own, so two answers may come from different chains.
\* A request that keeps failing for BLOCK_FETCH_TIMEOUT fails the task.
Fetch(s, w) ==
    LET r == run[s] IN
    /\ Collecting(s)
    /\ r.fetch[w].at = "free"
    /\ r.jobs # <<>>
    /\ LET job == Head(r.jobs)
           missing == Range(job) \ DOMAIN blocks
           next == [r EXCEPT !.jobs = Tail(@)]
       IN  \/ \E from \in [missing -> Chains] :
                 LET got == [n \in missing |-> Block(n, from[n])]
                     task == [min |-> job.min, max |-> job.max, blocks |-> got]
                 IN  run' = [run EXCEPT ![s] =
                               [next EXCEPT !.fetch[w] = [at |-> "sending", task |-> task]]]
           \/ /\ missing # {}
              /\ run' = [run EXCEPT ![s] = [next EXCEPT !.fetch[w].at = "failed"]]
    /\ UNCHANGED <<blocks, highest>>

SendTask(s, w) ==
    LET r == run[s] IN
    /\ Collecting(s)
    /\ r.fetch[w].at = "sending"
    /\ Len(r.toCompute) < 2 * NumComputeWorkers
    /\ run' = [run EXCEPT ![s].toCompute = Append(@, r.fetch[w].task),
                          ![s].fetch[w] = [at |-> "free", task |-> NoTask]]
    /\ UNCHANGED <<blocks, highest>>

(* ----------------------------- compute workers ---------------------------- *)

\* ExtractBlockData: stores the blocks and queues their verification.  A block
\* of an unknown runtime or ledger version fails the task before any is stored.
Extract(s, c) ==
    LET r == run[s] IN
    /\ Collecting(s)
    /\ r.compute[c].at = "free"
    /\ r.toCompute # <<>>
    /\ LET task == Head(r.toCompute)
           next == [r EXCEPT !.toCompute = Tail(@)]
       IN  \/ /\ blocks' = Insert(task.blocks, blocks)
              /\ run' = [run EXCEPT ![s] =
                    [next EXCEPT !.recompute = Append(@, [min |-> task.min, max |-> task.max])]]
           \/ /\ DOMAIN task.blocks # {}
              /\ run' = [run EXCEPT ![s] = [next EXCEPT !.compute[c].at = "failed"]]
              /\ UNCHANGED blocks
    /\ UNCHANGED highest

\* Verify's test of the blocks min .. max - 1.
LinkedInside(job) ==
    /\ Range(job) \subseteq DOMAIN blocks
    /\ \A n \in Range(job) \ {job.min} : blocks[n - 1].hash = blocks[n].parent_hash

\* The select is biased: work from the fetch workers goes first.
Verify(s, c) ==
    LET r == run[s] IN
    /\ Collecting(s)
    /\ r.compute[c].at = "free"
    /\ r.toCompute = <<>>
    /\ r.recompute # <<>>
    /\ LET job == Head(r.recompute)
           task == [min |-> job.min, max |-> job.max, blocks |-> <<>>]
       IN  run' = [run EXCEPT
                     ![s].recompute = Tail(@),
                     ![s].compute[c] = IF LinkedInside(job)
                                       THEN [at |-> "sending", task |-> task]
                                       ELSE [at |-> "failed", task |-> NoTask]]
    /\ UNCHANGED <<blocks, highest>>

SendFinal(s, c) ==
    LET r == run[s] IN
    /\ Collecting(s)
    /\ r.compute[c].at = "sending"
    /\ Len(r.finals) < 2 * NumComputeWorkers
    /\ run' = [run EXCEPT
                 ![s].finals = Append(@, [min |-> r.compute[c].task.min,
                                          max |-> r.compute[c].task.max]),
                 ![s].compute[c] = [at |-> "free", task |-> NoTask]]
    /\ UNCHANGED <<blocks, highest>>

(* ------------------------------ the main loop ----------------------------- *)

Receive(s) ==
    LET r == run[s] IN
    /\ Collecting(s)
    /\ r.finals # <<>>
    /\ run' = [run EXCEPT
                 ![s].finals = Tail(@),
                 ![s].received = Append(@, Head(r.finals)),
                 ![s].phase = IF Len(r.received) + 1 < NumJobs(r) THEN "collect" ELSE "verify"]
    /\ UNCHANGED <<blocks, highest>>

TaskFailed(s) ==
    /\ Collecting(s)
    /\ \/ \E w \in FetchWorkers : run[s].fetch[w].at = "failed"
       \/ \E c \in ComputeWorkers : run[s].compute[c].at = "failed"
    /\ End(s, "error", 0)
    /\ UNCHANGED <<blocks, highest>>

NoWorkersConnected(s) ==
    /\ Collecting(s)
    /\ \A w \in FetchWorkers : run[s].fetch[w].at = "left"
    /\ End(s, "error", 0)
    /\ UNCHANGED <<blocks, highest>>

\* Faulty variant: only genesis is tested.
BoundaryUntested(job) ==
    job.min = 0 => 0 \in DOMAIN blocks /\ blocks[0].parent_hash = ZeroHash

\* FinalVerify's test: genesis for the first job, and the step from the last
\* block of the job to the next block, if the cache has it.
BoundaryHolds(job) ==
    /\ job.min = 0 => 0 \in DOMAIN blocks /\ blocks[0].parent_hash = ZeroHash
    /\ {job.max - 1, job.max} \subseteq DOMAIN blocks
          => blocks[job.max].parent_hash = blocks[job.max - 1].hash

\* The boundaries are tested when all jobs are in.
FinalVerify(s) ==
    LET r == run[s] IN
    /\ r.phase = "verify"
    /\ r.received # <<>>
    /\ IF BoundaryHolds(Head(r.received))
       THEN run' = [run EXCEPT ![s].received = Tail(@)]
       ELSE End(s, "error", 0)
    /\ UNCHANGED <<blocks, highest>>

\* Faulty variant: the block after the last one.
SetHighestToMax(s) ==
    /\ run[s].phase = "verify"
    /\ run[s].received = <<>>
    /\ highest' = run[s].fin + 1
    /\ run' = [run EXCEPT ![s].phase = "read"]
    /\ UNCHANGED blocks

SetHighestVerified(s) ==
    /\ run[s].phase = "verify"
    /\ run[s].received = <<>>
    /\ highest' = run[s].fin
    /\ run' = [run EXCEPT ![s].phase = "read"]
    /\ UNCHANGED blocks

\* read_blocks_from_cache panics at the first block that is missing.  The message
\* that follows subtracts unsigned numbers, which a debug build refuses to do
\* below zero.
ReadBlocks(s) ==
    LET fetched == run[s].fin - run[s].low IN
    /\ run[s].phase = "read"
    /\ \/ /\ 0 .. HighestOrZero \subseteq DOMAIN blocks
          /\ End(s, "ok", HighestOrZero)
       \/ /\ \/ ~(0 .. HighestOrZero \subseteq DOMAIN blocks)
             \/ fetched < 0
             \/ HighestOrZero + 1 < fetched
          /\ End(s, "panic", 0)
    /\ UNCHANGED <<blocks, highest>>

\* fetch_only_cache
ReadCacheOnly(s) ==
    /\ Waiting(s)
    /\ LET ok == 0 .. HighestOrZero \subseteq DOMAIN blocks
       IN  run' = [run EXCEPT ![s] =
                     [Fresh EXCEPT !.phase = "done",
                                   !.result = [kind |-> IF ok THEN "ok" ELSE "panic",
                                               fin |-> 0, tip |-> HighestOrZero]]]
    /\ UNCHANGED <<blocks, highest>>

\* The process is killed; the cache stays.
Crash(s) ==
    /\ ~ Waiting(s)
    /\ run' = [run EXCEPT ![s] = Fresh]
    /\ UNCHANGED <<blocks, highest>>

(* --------------------------------- the whole ------------------------------ *)

Work(s) ==
    \/ PushJob(s)
    \/ \E w \in FetchWorkers : Connect(s, w) \/ Fetch(s, w) \/ SendTask(s, w)
    \/ \E c \in ComputeWorkers : Extract(s, c) \/ Verify(s, c) \/ SendFinal(s, c)
    \/ Receive(s) \/ TaskFailed(s) \/ NoWorkersConnected(s)
    \/ FinalVerify(s) \/ SetHighestVerified(s) \/ ReadBlocks(s)

Next ==
    \E s \in Sessions : Start(s) \/ ReadCacheOnly(s) \/ Work(s) \/ Crash(s)

Spec == Init /\ [][Next]_vars

\* The executor runs some task of a process as long as one can run.
FairSpec == Spec /\ \A s \in Sessions : WF_vars(Work(s))

(* -------------------------------- properties ------------------------------ *)

\* Types of the cache and of the channels, which never hold more than their
\* capacity (fetcher.rs creates them with twice the number of workers).
TypeOK ==
    /\ DOMAIN blocks \subseteq Heights
    /\ \A n \in DOMAIN blocks : blocks[n] \in BlockData
    /\ highest \in Heights \cup {NoneVerified}
    /\ \A s \in Sessions :
          LET r == run[s] IN
          /\ r.phase \in {"idle", "collect", "verify", "read", "done"}
          /\ r.fin \in Heights /\ r.low \in Heights
          /\ Len(r.jobs) <= 2 * NumWorkers
          /\ Len(r.toCompute) <= 2 * NumComputeWorkers
          /\ Len(r.finals) <= 2 * NumComputeWorkers
          /\ Len(r.received) <= NumJobs(r)
          /\ \A w \in FetchWorkers : DOMAIN r.fetch[w].task.blocks \subseteq Heights

\* Up to the highest verified block the cache holds one unbroken chain from
\* genesis, whatever was left behind by runs that failed or were killed and
\* whichever chain answered each request (Verify and FinalVerify).
VerifiedIsAChain ==
    highest # NoneVerified =>
        /\ 0 .. highest \subseteq DOMAIN blocks
        /\ blocks[0].parent_hash = ZeroHash
        /\ \A n \in 1 .. highest : blocks[n].parent_hash = blocks[n - 1].hash

\* The verified blocks of the cache are never replaced: insert_block_data_range
\* overwrites, but only blocks the cache lacked are fetched.
VerifiedStays ==
    [][\A n \in 0 .. highest : n \in DOMAIN blocks' /\ blocks'[n] = blocks[n]]_vars

\* Every run ends: the tasks never all wait for each other on the channels, and
\* the main loop counts neither too many nor too few jobs, also when workers
\* cannot connect.
RunsEnd == \A s \in Sessions : ~Waiting(s) ~> Waiting(s)
=============================================================================
