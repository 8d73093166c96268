----------------------------- MODULE Statistics -----------------------------
(***************************************************************************)
(* memory_resource_statistics: counters sharded by CPU, of which nobody    *)
(* ever reads all at once.  The bytes are counted like the pieces.         *)
(***************************************************************************)
EXTENDS Integers, FiniteSets

CONSTANTS
    Threads,
    Shards,             \* STATISTICS_SHARDS: 1 .. Shards; a call may run on any CPU
    MaxAllocations      \* bound: allocations begun

VARIABLES
    allocations, deallocations,     \* of each shard
    peak,               \* peak_allocated_
    call,               \* of each thread: [pc, shard, sum, peak, held]
    pieces,             \* history: pieces whose allocation returned and that nobody frees
    made,               \* history: allocations begun
    most,               \* history: the most there have been
    callers             \* history: threads that have called

vars == <<allocations, deallocations, peak, call, pieces, made, most, callers>>

\* held: pieces that were there when the call began and that nobody has freed since.
Idle == [pc |-> "idle", shard |-> 1, sum |-> 0, peak |-> 0, held |-> 0]

Init ==
    /\ allocations = [s \in 1..Shards |-> 0] /\ deallocations = [s \in 1..Shards |-> 0]
    /\ peak = 0
    /\ call = [t \in Threads |-> Idle]
    /\ pieces = 0 /\ made = 0 /\ most = 0 /\ callers = {}

At(t, pc) == call[t].pc = pc
Begins(t, pc) ==
    /\ At(t, "idle")
    /\ callers' = callers \cup {t}
    /\ call' = [call EXCEPT ![t] = [Idle EXCEPT !.pc = pc, !.held = pieces]]

\* The resource has a piece for a caller and counts it.
Count(t) ==
    /\ At(t, "count")
    /\ \E s \in 1..Shards : allocations' = [allocations EXCEPT ![s] = @ + 1]
    /\ call' = [call EXCEPT ![t].pc = "read", ![t].shard = 1, ![t].sum = 0, ![t].peak = -1]
    /\ UNCHANGED <<deallocations, peak, pieces, made, most, callers>>

AllocationMade(t) ==
    /\ Begins(t, "count")
    /\ made < MaxAllocations
    /\ made' = made + 1
    /\ UNCHANGED <<allocations, deallocations, peak, pieces, most>>

\* A free: the piece is gone before it is counted.
Free(t) ==
    /\ pieces > 0
    /\ At(t, "idle")
    /\ callers' = callers \cup {t}
    /\ pieces' = pieces - 1
    /\ call' = [u \in Threads |->
           IF u = t THEN [Idle EXCEPT !.pc = "free"]
           ELSE [call[u] EXCEPT !.held = IF @ > 0 THEN @ - 1 ELSE 0]]
    /\ UNCHANGED <<allocations, deallocations, peak, made, most>>

DeallocationMade(t) ==
    /\ At(t, "free")
    /\ \E s \in 1..Shards : deallocations' = [deallocations EXCEPT ![s] = @ + 1]
    /\ call' = [call EXCEPT ![t] = Idle]
    /\ UNCHANGED <<allocations, peak, pieces, made, most, callers>>

CurrentAllocated(t) ==
    /\ Begins(t, "read")
    /\ UNCHANGED <<allocations, deallocations, peak, pieces, made, most>>

\* The counters that are summed first, and then.
First == deallocations
Second == allocations

ReadFirst(t) ==
    /\ At(t, "read")
    /\ LET s == call[t].shard
           read == [call[t] EXCEPT !.sum = @ + First[s]]
       IN  call' = [call EXCEPT ![t] =
               IF s < Shards THEN [read EXCEPT !.shard = s + 1] ELSE [read EXCEPT !.pc = "read on", !.shard = 1]]
    /\ UNCHANGED <<allocations, deallocations, peak, pieces, made, most, callers>>

\* The sum becomes the difference, and the result.
ReadSecond(t) ==
    /\ At(t, "read on")
    /\ LET s == call[t].shard
           read == [call[t] EXCEPT !.sum = @ - Second[s]]
           result == [read EXCEPT !.pc = IF read.peak = -1 THEN "peak" ELSE "result",
                                  !.sum = IF read.sum < 0 THEN -read.sum ELSE 0]
       IN  call' = [call EXCEPT ![t] = IF s < Shards THEN [read EXCEPT !.shard = s + 1] ELSE result]
    /\ UNCHANGED <<allocations, deallocations, peak, pieces, made, most, callers>>

LoadPeak(t) ==
    /\ At(t, "peak")
    /\ call' = [call EXCEPT ![t].pc = "raise", ![t].peak = peak]
    /\ UNCHANGED <<allocations, deallocations, peak, pieces, made, most, callers>>

\* The exchange fails if the peak has changed, or for no reason, and is tried again.
Raise(t) ==
    /\ At(t, "raise")
    /\ call[t].sum > call[t].peak
    /\ \/ peak = call[t].peak /\ peak' = call[t].sum /\ call' = [call EXCEPT ![t].pc = "return"]
       \/ call' = [call EXCEPT ![t].peak = peak] /\ UNCHANGED peak
    /\ UNCHANGED <<allocations, deallocations, pieces, made, most, callers>>

\* The caller gets its piece.
Return(t) ==
    /\ At(t, "return") \/ (At(t, "raise") /\ call[t].sum <= call[t].peak)
    /\ pieces' = pieces + 1
    /\ most' = IF pieces' > most THEN pieces' ELSE most
    /\ call' = [call EXCEPT ![t] = Idle]
    /\ UNCHANGED <<allocations, deallocations, peak, made, callers>>

Report(t) ==
    /\ At(t, "result")
    /\ call' = [call EXCEPT ![t] = Idle]
    /\ UNCHANGED <<allocations, deallocations, peak, pieces, made, most, callers>>

Next ==
    \E t \in Threads :
        \/ AllocationMade(t) \/ Count(t)
        \/ Free(t) \/ DeallocationMade(t)
        \/ CurrentAllocated(t) \/ ReadFirst(t) \/ ReadSecond(t) \/ Report(t)
        \/ LoadPeak(t) \/ Raise(t) \/ Return(t)

Spec == Init /\ [][Next]_vars

-----------------------------------------------------------------------------
\* An estimate errs high: it counts every piece that was there all the time it took
\* (current_allocated, which reads the deallocations first).
EstimateErrsHigh == \A t \in Threads : At(t, "result") => call[t].sum >= call[t].held

\* Once nobody is in a call, no piece is missing from the peak; and it is the most there have
\* been as long as one thread made every call, on whatever CPUs (allocation_made).
PeakIsSound ==
    (\A t \in Threads : At(t, "idle")) =>
        /\ peak >= pieces
        /\ Cardinality(callers) <= 1 => peak = most
=============================================================================
