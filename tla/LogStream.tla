----------------------------- MODULE LogStream -----------------------------
(***************************************************************************)
(* The output of one docker process on its way to the user: the rolling    *)
(* buffer of operation.go, the chunked logs response of build.go, and the  *)
(* polling command line of agent_cli.go and client.go; or, for a pull, the *)
(* one response that carries the whole retained range.                     *)
(*                                                                         *)
(* A byte is its position in the stream. The process keeps writing, and    *)
(* the buffer keeps dropping its oldest bytes, between any two requests of *)
(* the reader and while a response travels.                                *)
(***************************************************************************)
EXTENDS Naturals, Sequences

F == INSTANCE FiniteSetsExt

CONSTANTS Retentions,   \* the values of operation_log_max_bytes to consider
          Chunk,        \* logResponseChunkBytes
          MaxWrite,     \* bound on one Write, the copy buffer of ReadFrom
          MaxTotal      \* bound on the bytes the process writes

ASSUME BoundsAssumption ==
    /\ Retentions \subseteq Nat \ {0}
    /\ Chunk \in Nat \ {0} /\ MaxWrite \in Nat \ {0} /\ MaxTotal \in Nat

VARIABLES
    maxSize,    \* retention of this buffer
    first,      \* boundedBuffer.offset: the oldest retained position
    total,      \* boundedBuffer.totalLen: bytes ever written
    opState,    \* op.state: running, a result, or pruned when the record is gone
    stage,      \* where the reader is
    offset,     \* the position the reader asks for next
    reply,      \* the response under way, or NoReply
    status,     \* the state the last status response reported
    sawTruncated, warned,   \* of this drain; of the whole wait
    shown       \* the positions printed, in order

buffer == <<maxSize, first, total>>
reader == <<stage, offset, reply, status, sawTruncated, warned, shown>>
streamVars == <<buffer, opState, reader>>

NoReply == [data |-> <<>>, next |-> 0, truncated |-> FALSE, decoded |-> 0, is |-> "none"]
Results == {"succeeded", "failed"}
Returned == {"done", "error", "interrupted"}

StreamInit ==
    /\ maxSize \in Retentions /\ first = 0 /\ total = 0
    /\ opState = "running" /\ status = "running"
    /\ stage \in {"drain", "pull"}
    /\ offset = 0 /\ reply = NoReply
    /\ sawTruncated = FALSE /\ warned = FALSE /\ shown = <<>>

-----------------------------------------------------------------------------
(* The daemon *)

\* boundedBuffer.Write: append, then trim to the newest maxSize bytes.
Write(n) ==
    /\ opState = "running" /\ total + n <= MaxTotal
    /\ total' = total + n
    /\ first' = F!Max({first, total + n - maxSize})
    /\ UNCHANGED <<maxSize, opState, reader>>

\* cmd.Wait returns once the output is copied; succeed or fail.
ProcessEnds ==
    /\ opState = "running"
    /\ opState' \in Results
    /\ UNCHANGED <<buffer, reader>>

\* pruneCompleted, called by any handler, the status handler included.
Prune ==
    /\ opState \in Results /\ stage # "pull"
    /\ opState' = "pruned"
    /\ UNCHANGED <<buffer, reader>>

Positions(from, n) == [k \in 1..n |-> from + k - 1]

\* Mutant: the next offset is that of the whole buffer.
MutBufferRange(from, maxBytes) ==
    LET start == F!Max({from, first})
        n     == F!Min({total - start, maxBytes})
    IN  IF from >= total
        THEN [data |-> <<>>, next |-> total, truncated |-> FALSE]
        ELSE [data |-> Positions(start, n), next |-> total, truncated |-> from < first]

\* boundedBuffer.Range.
BufferRange(from, maxBytes) ==
    LET start == F!Max({from, first})
        n     == F!Min({total - start, maxBytes})
    IN  IF from >= total
        THEN [data |-> <<>>, next |-> total, truncated |-> FALSE]
        ELSE [data |-> Positions(start, n), next |-> start + n, truncated |-> from < first]

\* The lengths a text can have after the JSON round trip: a byte that is not
\* part of a valid character comes back as the three of U+FFFD.
DecodedLengths(n) == {n + 2 * k : k \in 0..n}

\* handleOperationLogs: the buffer is read once, under its lock.
HandleLogs ==
    /\ stage \in {"drain", "final"} /\ reply = NoReply /\ opState # "pruned"
    /\ LET r == BufferRange(offset, Chunk) IN
       \E d \in DecodedLengths(Len(r.data)) :
           reply' = [data |-> r.data, next |-> r.next, truncated |-> r.truncated,
                        decoded |-> d, is |-> "logs"]
    /\ UNCHANGED <<buffer, opState, stage, offset, status, sawTruncated, warned, shown>>

\* handleOperationStatus.
HandleStatus ==
    /\ stage = "status" /\ reply = NoReply /\ opState # "pruned"
    /\ reply' = [NoReply EXCEPT !.is = opState]
    /\ UNCHANGED <<buffer, opState, stage, offset, status, sawTruncated, warned, shown>>

\* handlePull: the whole retained range, after the process ended.
HandlePull ==
    /\ stage = "pull" /\ reply = NoReply /\ opState \in Results
    /\ LET r == BufferRange(0, total) IN
       reply' = [data |-> r.data, next |-> r.next, truncated |-> r.truncated,
                    decoded |-> Len(r.data), is |-> "logs"]
    /\ UNCHANGED <<buffer, opState, stage, offset, status, sawTruncated, warned, shown>>

-----------------------------------------------------------------------------
(* The command line *)

\* drainOperationLogs on a response: print, note truncation, and stop at a
\* text shorter than a chunk or at an offset that does not advance. The end of
\* a drain warns once per wait, then asks the status or returns.
ReceiveLogs ==
    /\ stage \in {"drain", "final"} /\ reply.is = "logs"
    /\ shown' = shown \o reply.data
    /\ offset' = reply.next
    /\ reply' = NoReply
    /\ LET saw == sawTruncated \/ reply.truncated IN
       IF reply.decoded < Chunk \/ reply.next <= offset
       THEN /\ stage' = IF stage = "drain" THEN "status" ELSE "done"
            /\ warned' = (warned \/ saw) /\ sawTruncated' = FALSE
       ELSE sawTruncated' = saw /\ UNCHANGED <<stage, warned>>
    /\ UNCHANGED <<buffer, opState, status>>

\* Mutant: a failed operation is polled on.
MutReceiveStatus ==
    /\ stage = "status" /\ reply # NoReply
    /\ status' = reply.is
    /\ reply' = NoReply
    /\ stage' = IF reply.is = "succeeded" THEN "final" ELSE "sleep"
    /\ UNCHANGED <<buffer, opState, offset, sawTruncated, warned, shown>>

\* waitForOperationContext: a terminal status leads to the last drain.
ReceiveStatus ==
    /\ stage = "status" /\ reply # NoReply
    /\ status' = reply.is
    /\ reply' = NoReply
    /\ stage' = IF reply.is \in Results THEN "final" ELSE "sleep"
    /\ UNCHANGED <<buffer, opState, offset, sawTruncated, warned, shown>>

PollInterval ==
    /\ stage = "sleep"
    /\ stage' = "drain"
    /\ UNCHANGED <<buffer, opState, offset, reply, status, sawTruncated, warned, shown>>

\* The pull command prints the one output and warns when it was truncated.
ReceivePull ==
    /\ stage = "pull" /\ reply.is = "logs"
    /\ shown' = reply.data /\ warned' = reply.truncated
    /\ reply' = NoReply /\ stage' = "done"
    /\ UNCHANGED <<buffer, opState, offset, status, sawTruncated>>

\* A request that is refused or lost ends the wait with an error; so does an
\* operation that was pruned meanwhile.
RequestFails ==
    /\ stage \in {"drain", "status", "final", "pull"}
    /\ stage' = "error" /\ reply' = NoReply
    /\ UNCHANGED <<buffer, opState, offset, status, sawTruncated, warned, shown>>

\* waitForOperationWithSignalCh: polling stops at a signal; the one cancel is
\* best effort and ends a running process.
Signal ==
    /\ stage \in {"drain", "status", "sleep", "final"}
    /\ stage' = "cancel" /\ reply' = NoReply
    /\ UNCHANGED <<buffer, opState, offset, status, sawTruncated, warned, shown>>

Cancel ==
    /\ stage = "cancel"
    /\ stage' = "interrupted"
    /\ \/ opState = "running" /\ opState' = "failed"
       \/ UNCHANGED opState
    /\ UNCHANGED <<buffer, offset, reply, status, sawTruncated, warned, shown>>

Rest == stage \in Returned /\ opState # "running" /\ UNCHANGED streamVars

Server == HandleLogs \/ HandleStatus \/ HandlePull
Client == ReceiveLogs \/ ReceiveStatus \/ PollInterval \/ ReceivePull \/ Cancel

StreamNext ==
    \/ (\E n \in 1..MaxWrite : Write(n)) \/ ProcessEnds \/ Prune
    \/ Server \/ Client \/ RequestFails \/ Signal \/ Rest

\* The daemon answers, the command line goes on, and a request for a record
\* that is gone fails.
StreamSpec ==
    /\ StreamInit /\ [][StreamNext]_streamVars
    /\ WF_streamVars(Server) /\ WF_streamVars(Client)
    /\ WF_streamVars(opState = "pruned" /\ RequestFails)

-----------------------------------------------------------------------------
(* Properties *)

\* What the command line prints is the stream: every position at most once and
\* in order; a position that is skipped was evicted before it was asked for and
\* is followed by the warning; and a wait that returns normally has printed all
\* that was still retained ("successful CLI output is never truncated by
\* chunking", docs/architecture.md), whatever was written while it paged.
LogDelivered ==
    /\ \A i, j \in DOMAIN shown : i < j => shown[i] < shown[j]
    /\ LET printed == {shown[i] : i \in DOMAIN shown}
           missing == {p \in 0..total - 1 : p < offset /\ p \notin printed}
       IN  /\ stage # "pull" /\ missing # {} => warned \/ sawTruncated
           /\ \A p \in missing : p < first
           /\ stage = "done" => first..total - 1 \subseteq printed
           /\ stage = "done" /\ ~warned => 0..total - 1 \subseteq printed

\* A wait ends: once the process is over, the command line returns, although
\* the pages are bounded and the record may be pruned under it.
ReaderReturns == (opState # "running") ~> (stage \in Returned)
=============================================================================
