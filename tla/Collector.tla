------------------------------ MODULE Collector ------------------------------
(***************************************************************************)
(* The collector's buffer against the backend that counts what it posts:   *)
(* Collector and the calls run_loop makes of it, and of the ingest route   *)
(* the part that counts a batch.  The buffer is emptied by an answer only, *)
(* so a batch whose answer does not come is posted again with what has     *)
(* been read since, whatever the backend did with it meanwhile.            *)
(*                                                                         *)
(* Records are numbered in the order the log follower yields them.  The    *)
(* backend may still be handling a batch the agent no longer waits for:    *)
(* the edge has answered in its place, or the agent is gone.               *)
(***************************************************************************)
EXTENDS Integers, Sequences, SequencesExt

CONSTANTS
    Batch,          \* the collector's batch_size
    Cap,            \* MAX_BUFFERED_RECORDS
    Accepts,        \* max_length of TelemetryBatch.logs
    Poison,         \* records the backend refuses with any batch they are in
    From,           \* the address of each record
    MaxRecords,     \* bound: records read
    MaxRepeats,     \* bound: posts that count a record and are not answered
    MaxLate         \* bound: batches handled that nobody waits for

ASSUME CollectorAssumption ==
    /\ {Batch, Cap, Accepts, MaxRecords} \subseteq Nat \ {0}
    /\ {MaxRepeats, MaxLate} \subseteq Nat
    /\ Batch <= Cap /\ Cap <= Accepts
    /\ Poison \subseteq 1..MaxRecords
    /\ DOMAIN From = 1..MaxRecords

VARIABLES
    read,       \* records read so far
    buffer,     \* Collector._buffer
    phase,         \* "poll", "wait" in a post, "last" in the final one, or "down"
    todo,       \* per batch being handled, what is not counted yet; the agent
                \* waits for batch 0, and nobody for the others
    counted,    \* how often each record has been added to its address's bucket
    healthy,    \* the backend and the way to it
    unanswered, \* ghost: per record, the posts that counted it, or still may,
                \* and that nobody answered
    gone        \* ghost: what the buffer held when the process ended

collectorVars == <<read, buffer, phase, todo, counted, healthy, unanswered, gone>>

Records == 1..MaxRecords
Late == 1..MaxLate

CollectorInit ==
    /\ read = 0
    /\ buffer = <<>>
    /\ phase = "poll"
    /\ todo = [i \in 0..MaxLate |-> {}]
    /\ counted = [n \in Records |-> 0]
    /\ healthy = TRUE
    /\ unanswered = [n \in Records |-> 0]
    /\ gone = {}

-----------------------------------------------------------------------------
(* The agent.                                                              *)

Refused(logs) == Len(logs) > Accepts \/ Poison \intersect ToSet(logs) # {}

\* Mutant: the buffer is emptied when it is posted.
FlushFirst(logs, state) ==
    /\ buffer' = <<>>
    /\ phase' = state
    /\ todo' = [todo EXCEPT ![0] = IF Refused(logs) THEN {} ELSE ToSet(logs)]

\* flush posts all of the buffer.
Flush(logs, state) ==
    /\ buffer' = logs
    /\ phase' = state
    /\ todo' = [todo EXCEPT ![0] = IF Refused(logs) THEN {} ELSE ToSet(logs)]

\* Mutant: the cap is checked before the record is appended.
CappedEarly(logs) ==
    IF Len(logs) > Cap + 1 THEN SubSeq(logs, Len(logs) - Cap, Len(logs)) ELSE logs

\* Beyond the cap the oldest records are dropped.
Capped(logs) ==
    IF Len(logs) > Cap THEN SubSeq(logs, Len(logs) - Cap + 1, Len(logs)) ELSE logs

\* A record was read: add.
Add ==
    /\ phase = "poll" /\ read < MaxRecords
    /\ read' = read + 1
    /\ LET logs == Capped(Append(buffer, read + 1)) IN
         IF Len(logs) >= Batch
         THEN Flush(logs, "wait")
         ELSE /\ buffer' = logs
              /\ UNCHANGED <<phase, todo>>
    /\ UNCHANGED <<counted, healthy, unanswered, gone>>

\* Mutant: the timed flush waits for a full batch too.
TickWhenFull ==
    /\ phase = "poll" /\ Len(buffer) >= Batch
    /\ Flush(buffer, "wait")
    /\ UNCHANGED <<read, counted, healthy, unanswered, gone>>

\* Nothing was read and the interval is over: maybe_flush_on_interval.
Tick ==
    /\ phase = "poll" /\ buffer # <<>>
    /\ Flush(buffer, "wait")
    /\ UNCHANGED <<read, counted, healthy, unanswered, gone>>

\* The stream ends, and what is buffered is flushed once more.
Stop ==
    /\ phase = "poll" /\ buffer # <<>>
    /\ Flush(buffer, "last")
    /\ UNCHANGED <<read, counted, healthy, unanswered, gone>>

\* A failed post leaves the buffer as it is, and the loop goes on; after the
\* final one the process ends with it.
Unposted ==
    /\ phase' = IF phase = "last" THEN "down" ELSE "poll"
    /\ gone' = IF phase = "last" THEN gone \union ToSet(buffer) ELSE gone

\* The agent stops waiting; the backend may or may not finish the batch.
Forsaken(slot) ==
    /\ unanswered' = [n \in Records |->
                        IF /\ n \in ToSet(buffer) /\ ~Refused(buffer)
                           /\ slot # 0 \/ n \notin todo[0]
                        THEN unanswered[n] + 1 ELSE unanswered[n]]
    /\ \A n \in Records : unanswered'[n] <= MaxRepeats

LateSlots == {0} \union {i \in Late : todo[i] = {} /\ todo[0] # {}}

\* The batch goes on in slot, or (0) ends where it is.
Detached(slot) ==
    [i \in 0..MaxLate |-> IF i = 0 THEN {} ELSE IF i = slot THEN todo[0] ELSE todo[i]]

\* No connection, an error status, a lost answer, or the edge's time-out.
Fail ==
    /\ phase \in {"wait", "last"} /\ ~healthy
    /\ \E slot \in LateSlots :
         /\ Forsaken(slot)
         /\ todo' = Detached(slot)
    /\ Unposted
    /\ UNCHANGED <<read, buffer, counted, healthy>>

\* A KeyboardInterrupt ends the loop, not only the call: the finally clause
\* posts the buffer again.
Interrupt ==
    /\ phase = "wait"
    /\ \E slot \in LateSlots :
         /\ Forsaken(slot)
         /\ todo' = [Detached(slot) EXCEPT ![0] = IF Refused(buffer) THEN {} ELSE ToSet(buffer)]
    /\ phase' = "last"
    /\ UNCHANGED <<read, buffer, counted, healthy, gone>>

\* The process is killed, and the buffer is lost.
Crash ==
    /\ phase # "down"
    /\ \E slot \in LateSlots :
         /\ IF phase = "poll" THEN UNCHANGED unanswered ELSE Forsaken(slot)
         /\ todo' = Detached(slot)
    /\ phase' = "down"
    /\ buffer' = <<>>
    /\ gone' = gone \union ToSet(buffer)
    /\ UNCHANGED <<read, counted, healthy>>

Start ==
    /\ phase = "down"
    /\ phase' = "poll"
    /\ buffer' = <<>>
    /\ UNCHANGED <<read, todo, counted, healthy, unanswered, gone>>

-----------------------------------------------------------------------------
(* The backend.                                                            *)

\* record_batch adds one aggregate per address, in the order of their first
\* records.
Count(i) ==
    /\ todo[i] # {}
    /\ LET first == CHOOSE n \in todo[i] : \A m \in todo[i] : n <= m
           same  == {n \in todo[i] : From[n] = From[first]}
       IN /\ counted' = [n \in Records |-> IF n \in same THEN counted[n] + 1 ELSE counted[n]]
          /\ todo' = [todo EXCEPT ![i] = @ \ same]
    /\ UNCHANGED <<read, buffer, phase, healthy, unanswered, gone>>

\* Mutant: an answer empties the buffer of one batch, not of all it posted.
AnswerOneBatch ==
    /\ phase \in {"wait", "last"} /\ todo[0] = {} /\ ~Refused(buffer)
    /\ buffer' = SubSeq(buffer, Batch + 1, Len(buffer))
    /\ phase' = IF phase = "last" THEN "down" ELSE "poll"
    /\ UNCHANGED <<read, todo, counted, healthy, unanswered, gone>>

\* The answer arrives, and flush clears the buffer.
Answer ==
    /\ phase \in {"wait", "last"} /\ todo[0] = {} /\ ~Refused(buffer)
    /\ buffer' = <<>>
    /\ phase' = IF phase = "last" THEN "down" ELSE "poll"
    /\ UNCHANGED <<read, todo, counted, healthy, unanswered, gone>>

\* A batch above the schema's length, or a record that record_batch cannot
\* read: refused before any of it is counted.
Refuse ==
    /\ phase \in {"wait", "last"} /\ Refused(buffer)
    /\ Unposted
    /\ UNCHANGED <<read, buffer, todo, counted, healthy, unanswered>>

Outage ==
    /\ healthy' = ~healthy
    /\ UNCHANGED <<read, buffer, phase, todo, counted, unanswered, gone>>

-----------------------------------------------------------------------------

CollectorNext ==
    \/ Add \/ Tick \/ Stop \/ Fail \/ Interrupt \/ Crash \/ Start
    \/ \E i \in 0..MaxLate : Count(i)
    \/ Answer \/ Refuse \/ Outage

CollectorSpec == CollectorInit /\ [][CollectorNext]_collectorVars

\* While nothing is read the interval ends, again and again; a backend that
\* can be reached handles its batch and answers.
CollectorFairSpec ==
    CollectorSpec /\ WF_collectorVars(Tick) /\ WF_collectorVars(Count(0)) /\ WF_collectorVars(Answer) /\ WF_collectorVars(Refuse)

-----------------------------------------------------------------------------
(* Properties.                                                             *)

\* The types, and that the buffer is the newest records in their order, never
\* more of them than the backend accepts.
CollectorTypeOK ==
    /\ read \in 0..MaxRecords
    /\ buffer \in Seq(Records) /\ Len(buffer) <= Cap
    /\ \A i \in 1..Len(buffer) : buffer[i] = read - Len(buffer) + i
    /\ phase \in {"poll", "wait", "last", "down"}
    /\ todo \in [0..MaxLate -> SUBSET (1..read)]
    /\ healthy \in BOOLEAN
    /\ counted \in [Records -> Nat] /\ unanswered \in [Records -> 0..MaxRepeats]
    /\ gone \subseteq 1..read

\* A record leaves the buffer only when it has been counted, when as many
\* newer records as the cap holds have been read, or with the process:
\* whichever of a batch's addresses were counted when its post failed, and
\* whatever was read before it was posted again.
NoRecordUnaccounted ==
    \A n \in 1..read :
        n \in ToSet(buffer) \union gone \/ counted[n] > 0 \/ n + Cap <= read

\* A record is counted once for the answer that cleared it, and once more for
\* each post that reached the backend without an answer reaching the agent.
TwiceOnlyUnanswered == \A n \in Records : counted[n] <= 1 + unanswered[n]

\* When the backend can be reached again, what the buffer still holds is
\* counted, the last record before a silence included, unless the buffer holds
\* a record the backend refuses or the process ends.
Wedged == Poison \intersect ToSet(buffer) # {}

CountedInTheEnd ==
    <>[]healthy =>
        \A n \in Records :
            (n <= read) ~> (counted[n] > 0 \/ n + Cap <= read \/ n \in gone \/ Wedged)

=============================================================================
