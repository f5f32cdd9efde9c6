-------------------------------- MODULE Pipeline --------------------------------
(***************************************************************************)
(* The process main.cpp launches: one FeedHandler thread, one              *)
(* MatchingEngine thread per symbol, one Publisher thread, joined by one   *)
(* input and one output SPSCQueue per symbol. The rings are taken at their *)
(* contract (BoundedFifo, which SPSCQueue is shown to implement): push and *)
(* pop are atomic, push fails when full. A book is abstracted to the       *)
(* events one command makes it emit, as OrderBook computes them: a new     *)
(* order emits its trades then one book update, a cancel one update (none  *)
(* for an unknown id), a modify none, one (in place) or its trades between *)
(* two (cancel and resubmit). Spinning on a failed push or pop (yield) is  *)
(* a stuttering step.                                                      *)
(***************************************************************************)
EXTENDS Integers, Sequences, SequencesExt

CONSTANTS NSym,         \* config.symbols.size()
          QCap,         \* usable slots of a ring (65536 - 1 in the code)
          MaxTrades,    \* trades one command may produce
          FeedLen,      \* records in a feed file
          FeedChoices   \* the possible feed files: sequences of Records

Syms == 0..(NSym - 1)
Kinds == {"New", "Cancel", "Modify"}
\* A feed record: its symbol_id (any 32-bit value; NSym stands for every
\* id past the last engine) and its command type.
Records == [sym: 0..NSym, kind: Kinds]

VARIABLES feed,       \* the mapped file
          feedPos,    \* the feed loop's i (1-based); past the end: finished
          inQ,        \* input_queues[s]
          pending,    \* events engine s has still to push for its command
          outQ,       \* output_queues[s]
          pubAt,      \* the queue the publisher's round-robin loop polls
          written,    \* events written to trades.bin / book_updates.bin
          processed,  \* ghost: feed positions engine s popped, in order
          produced    \* ghost: events engine s's book emitted, in order

vars == <<feed, feedPos, inQ, pending, outQ, pubAt, written, processed, produced>>

\* The events of command c (a feed position) on symbol s: t trades and the
\* book updates numbered from their place among the command's events.
Ev(c, s, k, n) == [cmd |-> c, sym |-> s, kind |-> k, n |-> n]
TradesOf(c, s, t) == [i \in 1..t |-> Ev(c, s, "Trade", i)]
UpdatesOf(c, s, from, u) == [i \in 1..u |-> Ev(c, s, "Update", from + i)]

Emitted(c, s, kind) ==
  CASE kind = "New" ->
         {TradesOf(c, s, t) \o UpdatesOf(c, s, t, 1) : t \in 0..MaxTrades}
    [] kind = "Cancel" -> {UpdatesOf(c, s, 0, u) : u \in 0..1}
    [] kind = "Modify" ->
         {UpdatesOf(c, s, 0, u) : u \in 0..1} \cup
         {UpdatesOf(c, s, 0, 1) \o TradesOf(c, s, t) \o UpdatesOf(c, s, t + 1, 1) :
            t \in 0..MaxTrades}

Event == [cmd: 1..FeedLen, sym: Syms, kind: {"Trade", "Update"}, n: 1..(MaxTrades + 2)]

Init ==
  /\ feed \in FeedChoices
  /\ feedPos = 1
  /\ inQ = [s \in Syms |-> <<>>] /\ outQ = [s \in Syms |-> <<>>]
  /\ pending = [s \in Syms |-> <<>>]
  /\ pubAt = 0 /\ written = <<>>
  /\ processed = [s \in Syms |-> <<>>] /\ produced = [s \in Syms |-> <<>>]

\* cmd.symbol_id < queues_.size() (every queue pointer is set by main).
Valid(sym) == sym < NSym

\* The feed loop on a record of an unknown symbol: skip it.
FeedSkip ==
  /\ feedPos <= Len(feed) /\ ~Valid(feed[feedPos].sym)
  /\ feedPos' = feedPos + 1
  /\ UNCHANGED <<feed, inQ, pending, outQ, pubAt, written, processed, produced>>

\* Mutant: a failed push is not retried; the command is dropped.
FeedPushNoSpin ==
  /\ feedPos <= Len(feed) /\ Valid(feed[feedPos].sym)
  /\ LET s == feed[feedPos].sym
     IN  inQ' = IF Len(inQ[s]) < QCap THEN [inQ EXCEPT ![s] = Append(@, feedPos)]
                ELSE inQ
  /\ feedPos' = feedPos + 1
  /\ UNCHANGED <<feed, pending, outQ, pubAt, written, processed, produced>>

\* The feed loop on a valid record: the push that succeeds after spinning.
FeedPush ==
  /\ feedPos <= Len(feed) /\ Valid(feed[feedPos].sym)
  /\ LET s == feed[feedPos].sym
     IN  /\ Len(inQ[s]) < QCap
         /\ inQ' = [inQ EXCEPT ![s] = Append(@, feedPos)]
  /\ feedPos' = feedPos + 1
  /\ UNCHANGED <<feed, pending, outQ, pubAt, written, processed, produced>>

\* Engine s pops a command and runs it on its book; the callbacks then push
\* its events one by one.
EnginePop(s) ==
  /\ pending[s] = <<>> /\ inQ[s] # <<>>
  /\ LET c == Head(inQ[s])
     IN  \E evs \in Emitted(c, s, feed[c].kind) :
           /\ pending' = [pending EXCEPT ![s] = evs]
           /\ produced' = [produced EXCEPT ![s] = @ \o evs]
           /\ processed' = [processed EXCEPT ![s] = Append(@, c)]
  /\ inQ' = [inQ EXCEPT ![s] = Tail(@)]
  /\ UNCHANGED <<feed, feedPos, outQ, pubAt, written>>

\* Mutant: the callback pushes once and drops the event if the ring is full.
EngineEmitNoSpin(s) ==
  /\ pending[s] # <<>>
  /\ outQ' = IF Len(outQ[s]) < QCap
             THEN [outQ EXCEPT ![s] = Append(@, Head(pending[s]))] ELSE outQ
  /\ pending' = [pending EXCEPT ![s] = Tail(@)]
  /\ UNCHANGED <<feed, feedPos, inQ, pubAt, written, processed, produced>>

\* Mutant: the push ignores the ring's full test.
EngineEmitNoFull(s) ==
  /\ pending[s] # <<>>
  /\ outQ' = [outQ EXCEPT ![s] = Append(@, Head(pending[s]))]
  /\ pending' = [pending EXCEPT ![s] = Tail(@)]
  /\ UNCHANGED <<feed, feedPos, inQ, pubAt, written, processed, produced>>

\* process_trade / process_book_update: the push that succeeds after spinning.
EngineEmit(s) ==
  /\ pending[s] # <<>> /\ Len(outQ[s]) < QCap
  /\ outQ' = [outQ EXCEPT ![s] = Append(@, Head(pending[s]))]
  /\ pending' = [pending EXCEPT ![s] = Tail(@)]
  /\ UNCHANGED <<feed, feedPos, inQ, pubAt, written, processed, produced>>

\* The publisher's inner while: pop and write the event to its log.
PubPop ==
  /\ outQ[pubAt] # <<>>
  /\ written' = Append(written, Head(outQ[pubAt]))
  /\ outQ' = [outQ EXCEPT ![pubAt] = Tail(@)]
  /\ UNCHANGED <<feed, feedPos, inQ, pending, pubAt, processed, produced>>

\* Mutant: the round-robin loop never leaves the first queue.
PubNextStuck ==
  /\ outQ[pubAt] = <<>>
  /\ UNCHANGED vars

\* The queue polled is empty: go on to the next one (yield after the last).
PubNext ==
  /\ outQ[pubAt] = <<>>
  /\ pubAt' = (pubAt + 1) % NSym
  /\ UNCHANGED <<feed, feedPos, inQ, pending, outQ, written, processed, produced>>

Feed == FeedSkip \/ FeedPush
Engine(s) == EnginePop(s) \/ EngineEmit(s)
Publisher == PubPop \/ PubNext

Next == Feed \/ (\E s \in Syms : Engine(s)) \/ Publisher

\* Every thread runs on its own core and only yields while it spins, so a
\* thread whose step stays enabled takes it: a push or pop that can succeed
\* stays possible until its own thread performs it (single producer, single
\* consumer), so weak fairness per thread suffices.
Fairness == WF_vars(Feed) /\ (\A s \in Syms : WF_vars(Engine(s))) /\ WF_vars(Publisher)

Spec == Init /\ [][Next]_vars /\ Fairness

--------------------------------------------------------------------------------
TypeOK ==
  /\ feed \in FeedChoices /\ feedPos \in 1..(Len(feed) + 1)
  /\ inQ \in [Syms -> Seq(1..FeedLen)] /\ outQ \in [Syms -> Seq(Event)]
  /\ \A s \in Syms : Len(inQ[s]) <= QCap /\ Len(outQ[s]) <= QCap
  /\ pending \in [Syms -> Seq(Event)] /\ pubAt \in Syms /\ written \in Seq(Event)

\* The positions of the feed records read so far that name symbol s.
ReadFor(s) == SelectSeq([i \in 1..(feedPos - 1) |-> i], LAMBDA i : feed[i].sym = s)

(***************************************************************************)
(* Commands reach their engine in feed order, none lost or duplicated: the *)
(* commands engine s has popped followed by those in its ring are exactly  *)
(* the records for s the feed handler has passed (feed_handler.cpp spins   *)
(* on a full ring; records of unknown symbols are skipped).                *)
(***************************************************************************)
CommandsInOrder ==
  \A s \in Syms : processed[s] \o inQ[s] = ReadFor(s)

(***************************************************************************)
(* Events reach the logs in the order their book emitted them, none lost   *)
(* or duplicated: for each symbol, what the publisher wrote, then what is  *)
(* in the output ring, then what the callback has still to push is exactly *)
(* what the book emitted (process_trade/process_book_update spin on a full *)
(* ring, the publisher drains each ring in order).                         *)
(***************************************************************************)
EventsInOrder ==
  \A s \in Syms :
    SelectSeq(written, LAMBDA e : e.sym = s) \o outQ[s] \o pending[s] = produced[s]

\* Every record read, every queue empty and every event written.
Drained ==
  /\ feedPos = Len(feed) + 1
  /\ \A s \in Syms : inQ[s] = <<>> /\ pending[s] = <<>> /\ outQ[s] = <<>>

(***************************************************************************)
(* The pipeline never stalls: however the threads interleave, and although *)
(* an engine blocks inside its callback while its output ring is full and  *)
(* the feed blocks while an input ring is full, every command of the file  *)
(* is eventually processed and all its events written (engines and        *)
(* publisher keep spinning; matching_engine.cpp:61, feed_handler.cpp:73).  *)
(***************************************************************************)
Completion == <>Drained

================================================================================
