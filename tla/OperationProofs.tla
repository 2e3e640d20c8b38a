--------------------------- MODULE OperationProofs ---------------------------
(***************************************************************************)
(* Proofs about operations: their supervisor (OperationSupervisor), for    *)
(* every set of requests, sessions, launchers and cancelling threads and   *)
(* every value of the ceilings; and their output (LogStream), for every    *)
(* retention, chunk and write size and however writing, trimming, paging   *)
(* and completion interleave.                                              *)
(***************************************************************************)
EXTENDS OperationSupervisor, LogStream, FiniteSetTheorems, TLAPS

-----------------------------------------------------------------------------
(* The output of an operation: what is printed is the stream.              *)

Printed == {shown[i] : i \in DOMAIN shown}

Waiting == {"drain", "status", "sleep", "final"}

Replies ==
    [data: Seq(Nat), next: Nat, truncated: BOOLEAN, decoded: Nat,
     is: {"none", "logs", "running"} \cup Results]

StreamType ==
    /\ maxSize \in Nat \ {0} /\ first \in Nat /\ total \in Nat
    /\ opState \in {"running", "pruned"} \cup Results
    /\ stage \in Waiting \cup Returned \cup {"pull", "cancel"}
    /\ offset \in Nat /\ reply \in Replies
    /\ sawTruncated \in BOOLEAN /\ warned \in BOOLEAN /\ shown \in Seq(Nat)

(* The newest byte is always retained, and no reader is ahead.             *)
BufferOK ==
    /\ first <= total /\ (total > 0 => first < total)
    /\ offset <= total

(* The position of the first byte of the response under way.               *)
Start == reply.next - Len(reply.data)

(* A page was a range of the buffer when it was taken: it starts where the *)
(* reader asked, or later when what is between was evicted; on a finished  *)
(* process a page that ends the drain reaches the end of the stream.       *)
PageOK ==
    stage \in {"drain", "final"} /\ reply.is = "logs" =>
        /\ offset <= Start /\ reply.next <= total
        /\ \A k \in DOMAIN reply.data : reply.data[k] = Start + k - 1
        /\ \A p \in Nat : offset <= p /\ p < Start => p < first /\ reply.truncated
        /\ Len(reply.data) <= reply.decoded
        /\ stage = "final" /\ (reply.decoded < Chunk \/ reply.next <= offset) =>
              reply.next = total

(* The one answer to a pull is everything that is retained.                *)
PullOK ==
    stage = "pull" =>
        /\ offset = 0 /\ shown = <<>>
        /\ reply.is = "logs" =>
              /\ opState # "running" /\ 0 <= Start /\ Start <= first /\ reply.next = total
              /\ \A k \in DOMAIN reply.data : reply.data[k] = Start + k - 1
              /\ reply.truncated \/ Start = 0

(* Which answers travel, and what a terminal one implies.                  *)
AnswerOK ==
    /\ stage \in {"drain", "final", "pull"} => reply.is \in {"none", "logs"}
    /\ stage = "status" => reply.is # "logs"
    /\ stage = "sleep" => reply.is = "none"
    /\ reply.is \in Results \/ stage \in {"final", "done"} => opState # "running"

(* What is printed is in order; what is left out was evicted and reported. *)
ShownOK ==
    /\ \A i, j \in DOMAIN shown : i < j => shown[i] < shown[j]
    /\ stage \in Waiting => \A i \in DOMAIN shown : shown[i] < offset
    /\ \A p \in Nat : p < offset /\ p \notin Printed => p < first /\ (warned \/ sawTruncated)

DoneOK ==
    stage = "done" =>
        \A p \in Nat : p < total /\ p \notin Printed => p < first /\ warned

StreamInv ==
    StreamType /\ BufferOK /\ PageOK /\ PullOK /\ AnswerOK /\ ShownOK /\ DoneOK

-----------------------------------------------------------------------------
(* The helpers of the buffer.                                              *)
LEMMA MaxOfTwo ==
    ASSUME NEW a \in Int, NEW b \in Int
    PROVE  F!Max({a, b}) = IF a >= b THEN a ELSE b
BY DEF F!Max

(* The smaller of two numbers.                                             *)
LEMMA MinOfTwo ==
    ASSUME NEW a \in Int, NEW b \in Int
    PROVE  F!Min({a, b}) = IF a <= b THEN a ELSE b
BY DEF F!Min

(* Positions(start, n) is the range of n positions from start on.          *)
LEMMA PositionsOf ==
    ASSUME NEW start \in Nat, NEW n \in Nat
    PROVE  /\ Positions(start, n) \in Seq(Nat) /\ Len(Positions(start, n)) = n
           /\ \A k \in DOMAIN Positions(start, n) : Positions(start, n)[k] = start + k - 1
BY DEF Positions

(* What a read of the buffer answers: a range of the stream that begins    *)
(* where it was asked for or after an evicted gap, and that is empty or    *)
(* shorter than the bound only at the end of the stream.                   *)
RangeOf(r, from, max) ==
    /\ r.data \in Seq(Nat) /\ r.next \in Nat /\ r.truncated \in BOOLEAN
    /\ from <= r.next - Len(r.data) /\ r.next <= total
    /\ \A k \in DOMAIN r.data : r.data[k] = r.next - Len(r.data) + k - 1
    /\ \A p \in Nat : from <= p /\ p < r.next - Len(r.data) => p < first /\ r.truncated
    /\ Len(r.data) < max \/ r.next <= from => r.next = total

(* boundedBuffer.Range answers with a contiguous range; a short one        *)
(* reaches the end.                                                        *)
LEMMA RangeAnswer ==
    ASSUME first \in Nat, total \in Nat, first <= total, total > 0 => first < total,
           NEW from \in Nat, from <= total, NEW max \in Nat, total > 0 => max > 0
    PROVE  RangeOf(BufferRange(from, max), from, max)
<1> DEFINE start == F!Max({from, first})
           n     == F!Min({total - start, max})
<1>1. CASE from >= total
  BY <1>1 DEF BufferRange, RangeOf
<1>2. CASE from < total
  <2>1. start \in Nat /\ from <= start /\ first <= start /\ start \in {from, first} /\ start < total
    BY <1>2, MaxOfTwo
  <2> HIDE DEF start
  <2>2. total - start \in Nat /\ total - start > 0 /\ max > 0
    BY <1>2, <2>1
  <2>3. n \in Nat /\ n > 0 /\ n <= total - start /\ n <= max /\ (n < max => n = total - start)
    BY <2>2, MinOfTwo
  <2>4. BufferRange(from, max) =
           [data |-> Positions(start, n), next |-> start + n, truncated |-> from < first]
    BY <1>2 DEF BufferRange, start
  <2>5. \A p \in Nat : from <= p /\ p < start => p < first /\ from < first
    BY <2>1
  <2> HIDE DEF n
  <2>6. /\ Positions(start, n) \in Seq(Nat) /\ Len(Positions(start, n)) = n
        /\ \A k \in DOMAIN Positions(start, n) : Positions(start, n)[k] = start + k - 1
    BY <2>1, <2>3, PositionsOf
  <2>7. start + n - n = start
    BY <2>1, <2>3
  <2> DEFINE r == BufferRange(from, max)
  <2>8. r.data = Positions(start, n) /\ r.next = start + n /\ r.truncated = (from < first)
    BY <2>4
  <2> HIDE DEF r
  <2>9. /\ r.data \in Seq(Nat) /\ r.next \in Nat /\ r.truncated \in BOOLEAN
        /\ Len(r.data) = n /\ r.next - Len(r.data) = start
    BY <2>1, <2>3, <2>6, <2>7, <2>8
  <2>10. \A k \in DOMAIN r.data : r.data[k] = start + k - 1
    BY <2>6, <2>8
  <2>11. \A p \in Nat : from <= p /\ p < start => p < first /\ r.truncated
    BY <2>5, <2>8
  <2>12. r.next <= total /\ (n < max \/ r.next <= from => r.next = total)
    BY <2>1, <2>3, <2>8
  <2>13. QED
    BY <2>1, <2>9, <2>10, <2>11, <2>12 DEF r, RangeOf
<1>3. QED
  BY <1>1, <1>2

-----------------------------------------------------------------------------
(* The answers, field by field.                                            *)
LEMMA NoAnswer ==
    /\ NoReply \in Replies /\ NoReply.is = "none"
    /\ NoReply.data = <<>> /\ NoReply.next = 0
BY DEF NoReply, Replies

(* The JSON round trip of a page never shortens it.                        *)
LEMMA DecodingGrows ==
    ASSUME NEW n \in Nat, NEW d \in DecodedLengths(n)
    PROVE  d \in Nat /\ n <= d
<1>1. PICK k \in 0..n : d = n + 2 * k
  BY DEF DecodedLengths
<1>2. k \in Nat
  OBVIOUS
<1>3. QED
  BY <1>1, <1>2

(* A page of the logs handler is a range of the buffer of that moment.     *)
LEMMA PageTaken ==
    ASSUME StreamType, BufferOK, HandleLogs
    PROVE  LET r == BufferRange(offset, Chunk) IN
           /\ RangeOf(r, offset, Chunk)
           /\ reply' \in Replies /\ reply'.is = "logs"
           /\ reply'.data = r.data /\ reply'.next = r.next
           /\ reply'.truncated = r.truncated /\ Len(r.data) <= reply'.decoded
<1> DEFINE r == BufferRange(offset, Chunk)
<1>0. first \in Nat /\ total \in Nat /\ offset \in Nat /\ Chunk \in Nat /\ Chunk > 0
  BY BoundsAssumption DEF StreamType
<1>1. RangeOf(r, offset, Chunk)
  BY <1>0, RangeAnswer DEF BufferOK
<1> HIDE DEF r
<1>2. r.data \in Seq(Nat) /\ r.next \in Nat /\ r.truncated \in BOOLEAN
  BY <1>1 DEF RangeOf
<1>3. PICK d \in DecodedLengths(Len(r.data)) :
        reply' = [data |-> r.data, next |-> r.next, truncated |-> r.truncated,
                     decoded |-> d, is |-> "logs"]
  BY DEF HandleLogs, r
<1>4. d \in Nat /\ Len(r.data) <= d
  BY <1>2, DecodingGrows
<1>5. QED
  BY <1>1, <1>2, <1>3, <1>4 DEF Replies, r

(* The answer to a pull is the whole buffer of that moment.                *)
LEMMA PullTaken ==
    ASSUME StreamType, BufferOK, HandlePull
    PROVE  LET r == BufferRange(0, total) IN
           /\ RangeOf(r, 0, total)
           /\ reply' \in Replies /\ reply'.is = "logs"
           /\ reply'.data = r.data /\ reply'.next = r.next
           /\ reply'.truncated = r.truncated
<1> DEFINE r == BufferRange(0, total)
<1>0. first \in Nat /\ total \in Nat
  BY DEF StreamType
<1>1. RangeOf(r, 0, total)
  BY <1>0, RangeAnswer DEF BufferOK
<1> HIDE DEF r
<1>2. r.data \in Seq(Nat) /\ r.next \in Nat /\ r.truncated \in BOOLEAN
  BY <1>1 DEF RangeOf
<1>3. reply' = [data |-> r.data, next |-> r.next, truncated |-> r.truncated,
                   decoded |-> Len(r.data), is |-> "logs"]
  BY DEF HandlePull, r
<1>4. QED
  BY <1>1, <1>2, <1>3 DEF Replies, r

(* A status answer is the state of that moment.                            *)
LEMMA StatusTaken ==
    ASSUME StreamType, HandleStatus
    PROVE  reply' \in Replies /\ reply'.is = opState
BY DEF StreamType, HandleStatus, NoReply, Replies, Results

(* Where the two ends of the buffer go.                                    *)
LEMMA WriteTrims ==
    ASSUME StreamType, BufferOK, NEW n \in 1..MaxWrite, Write(n)
    PROVE  /\ total' = total + n /\ first' \in Nat
           /\ first <= first' /\ first' < total' /\ total < total' /\ total' \in Nat
<1>1. /\ n \in Nat /\ n > 0 /\ maxSize \in Nat /\ maxSize > 0 /\ first \in Nat /\ total \in Nat
      /\ first <= total
  BY BoundsAssumption DEF StreamType, BufferOK
<1>2. total' = total + n /\ first' = F!Max({first, total + n - maxSize})
  BY DEF Write
<1>3. total + n - maxSize \in Int
  BY <1>1
<1>4. F!Max({first, total + n - maxSize}) =
         IF first >= total + n - maxSize THEN first ELSE total + n - maxSize
  BY <1>1, <1>3, MaxOfTwo
<1>5. QED
  BY <1>1, <1>2, <1>4



(* Printing a page extends what is printed by the range of the page.       *)
ShownInOrder == \A i, j \in DOMAIN shown : i < j => shown[i] < shown[j]

(* Printing a page keeps the printed positions in order and leaves out     *)
(* evicted ones only.                                                      *)
LEMMA PagePrinted ==
    ASSUME StreamType, BufferOK, PageOK, AnswerOK, ShownOK, ReceiveLogs
    PROVE  /\ ShownInOrder' /\ \A i \in DOMAIN shown' : shown'[i] < offset'
           /\ \A p \in Nat : p < offset' /\ p \notin Printed' =>
                 p < first' /\ (warned' \/ sawTruncated')
<1> DEFINE data == reply.data
<1>1. /\ data \in Seq(Nat) /\ shown \in Seq(Nat) /\ reply.next \in Nat /\ offset \in Nat
      /\ first \in Nat /\ total \in Nat
  BY DEF StreamType, Replies
<1>2. /\ offset <= Start /\ Start = reply.next - Len(data)
      /\ \A k \in DOMAIN data : data[k] = Start + k - 1
      /\ \A p \in Nat : offset <= p /\ p < Start => p < first /\ reply.truncated
  BY DEF PageOK, ReceiveLogs, Start
<1>3. \A i \in DOMAIN shown : shown[i] < offset
  BY DEF ShownOK, ReceiveLogs, Waiting
<1>4. shown' = shown \o data /\ offset' = reply.next /\ first' = first
  BY DEF ReceiveLogs, buffer
<1>5. warned \/ sawTruncated \/ reply.truncated => warned' \/ sawTruncated'
  BY DEF ReceiveLogs
<1> HIDE DEF data
<1>6. /\ DOMAIN shown = 1..Len(shown) /\ DOMAIN data = 1..Len(data)
      /\ DOMAIN shown' = 1..Len(shown) + Len(data)
      /\ Len(shown) \in Nat /\ Len(data) \in Nat /\ Start \in Int
      /\ \A i \in 1..Len(shown) : shown'[i] = shown[i] /\ shown[i] \in Nat
      /\ \A k \in 1..Len(data) : shown'[Len(shown) + k] = data[k]
  BY <1>1, <1>2, <1>4
<1>7. offset' = Start + Len(data) /\ offset <= Start /\ Start \in Nat
  BY <1>1, <1>2, <1>4, <1>6
<1>8. ASSUME NEW i \in DOMAIN shown'
      PROVE  \/ i \in DOMAIN shown /\ shown'[i] = shown[i]
             \/ /\ i - Len(shown) \in DOMAIN data
                /\ shown'[i] = Start + (i - Len(shown)) - 1
  <2>1. CASE i <= Len(shown)
    BY <1>6, <2>1
  <2>2. CASE i > Len(shown)
    <3>1. i - Len(shown) \in 1..Len(data) /\ Len(shown) + (i - Len(shown)) = i
      BY <1>6, <2>2
    <3>2. QED
      BY <1>2, <1>6, <3>1
  <2>3. QED
    BY <1>6, <2>1, <2>2
<1>9. ASSUME NEW i \in DOMAIN shown', NEW j \in DOMAIN shown', i < j
      PROVE  shown'[i] < shown'[j]
  <2>1. CASE j \in DOMAIN shown
    <3>1. i \in DOMAIN shown
      BY <1>6, <1>9, <2>1
    <3>2. QED
      BY <1>6, <1>9, <2>1, <3>1 DEF ShownOK
  <2>2. CASE i \in DOMAIN shown /\ j \notin DOMAIN shown
    <3>1. shown'[i] < offset /\ shown'[i] \in Nat
      BY <1>3, <1>6, <2>2
    <3>2. j - Len(shown) >= 1 /\ shown'[j] = Start + (j - Len(shown)) - 1
      BY <1>6, <1>8, <2>2
    <3>3. QED
      BY <1>1, <1>2, <1>6, <3>1, <3>2
  <2>3. CASE i \notin DOMAIN shown
    <3>1. j \notin DOMAIN shown
      BY <1>6, <1>9, <2>3
    <3>2. shown'[i] = Start + (i - Len(shown)) - 1 /\ shown'[j] = Start + (j - Len(shown)) - 1
      BY <1>8, <2>3, <3>1
    <3>3. QED
      BY <1>6, <1>9, <3>2
  <2>4. QED
    BY <2>1, <2>2, <2>3
<1>10. ASSUME NEW i \in DOMAIN shown'
      PROVE  shown'[i] < offset'
  <2>1. CASE i \in DOMAIN shown
    BY <1>1, <1>2, <1>3, <1>4, <1>6, <2>1
  <2>2. CASE i \notin DOMAIN shown
    <3>1. i - Len(shown) <= Len(data) /\ shown'[i] = Start + (i - Len(shown)) - 1
      BY <1>6, <1>8, <2>2
    <3>2. QED
      BY <1>6, <1>7, <3>1
  <2>3. QED
    BY <2>1, <2>2
<1>11. ASSUME NEW p \in Nat, p < offset', p \notin Printed'
       PROVE  p < first' /\ (warned' \/ sawTruncated')
  <2>1. CASE p < offset
    <3>1. p \notin Printed
      BY <1>6, <1>11 DEF Printed
    <3>2. QED
      BY <1>4, <1>5, <2>1, <3>1 DEF ShownOK
  <2>2. CASE offset <= p /\ p < Start
    BY <1>2, <1>4, <1>5, <2>2
  <2>3. CASE Start <= p
    <3> DEFINE k == p - Start + 1
    <3>1. k \in 1..Len(data) /\ Len(shown) + k \in DOMAIN shown'
      BY <1>6, <1>7, <1>11, <2>3
    <3>2. shown'[Len(shown) + k] = p
      <4>1. data[k] = Start + k - 1 /\ shown'[Len(shown) + k] = data[k]
        BY <1>2, <1>6, <3>1
      <4>2. QED
        BY <1>7, <4>1
    <3>3. QED
      BY <1>11, <3>1, <3>2 DEF Printed
  <2>4. QED
    BY <1>1, <1>6, <2>1, <2>2, <2>3
<1>12. QED
  BY <1>9, <1>10, <1>11 DEF ShownInOrder

(* Printing the answer to a pull leaves out evicted positions only, with a *)
(* warning.                                                                *)
LEMMA PullPrinted ==
    ASSUME StreamType, BufferOK, PullOK, ReceivePull
    PROVE  /\ ShownInOrder'
           /\ \A p \in Nat : p < total' /\ p \notin Printed' => p < first' /\ warned'
<1> DEFINE data == reply.data
<1>1. data \in Seq(Nat) /\ reply.next \in Nat /\ first \in Nat /\ total \in Nat
  BY DEF StreamType, Replies
<1>2. /\ 0 <= Start /\ Start <= first /\ Start = total - Len(data)
      /\ \A k \in DOMAIN data : data[k] = Start + k - 1
      /\ reply.truncated \/ Start = 0
  BY DEF PullOK, ReceivePull, Start
<1>3. shown' = data /\ warned' = reply.truncated /\ first' = first /\ total' = total
  BY DEF ReceivePull, buffer
<1> HIDE DEF data
<1>4. DOMAIN data = 1..Len(data) /\ Len(data) \in Nat /\ Start \in Int
  BY <1>1, <1>2
<1>5. Start \in Nat /\ total = Start + Len(data)
  <2>1. 0 <= Start /\ Start = total - Len(data)
    BY <1>2
  <2>2. total \in Nat /\ Len(data) \in Nat
    BY <1>1, <1>4
  <2>3. QED
    BY <2>1, <2>2
<1>6. ShownInOrder'
  BY <1>2, <1>3, <1>4 DEF ShownInOrder
<1>7. ASSUME NEW p \in Nat, p < total', p \notin Printed'
      PROVE  p < first' /\ warned'
  <2>1. CASE Start <= p
    <3> DEFINE k == p - Start + 1
    <3>1. k \in DOMAIN data
      BY <1>3, <1>4, <1>5, <1>7, <2>1
    <3>2. data[k] = p
      BY <1>2, <1>5, <3>1
    <3>3. QED
      BY <1>3, <1>7, <3>1, <3>2 DEF Printed
  <2>2. CASE p < Start
    <3>1. Start # 0 /\ p < first
      BY <1>1, <1>2, <1>5, <2>2
    <3>2. QED
      BY <1>2, <1>3, <3>1
  <2>3. QED
    BY <1>4, <2>1, <2>2
<1>8. QED
  BY <1>6, <1>7

(* Every step keeps the types.                                             *)
LEMMA StepType ==
    ASSUME StreamInv, [StreamNext]_streamVars
    PROVE  StreamType'
<1> USE DEF streamVars, buffer, reader
<1>0. StreamType /\ BufferOK
  BY DEF StreamInv
<1>1. ASSUME NEW n \in 1..MaxWrite, Write(n)
      PROVE  StreamType'
  <2>1. /\ total' \in Nat /\ total < total' /\ first' \in Nat
        /\ first <= first' /\ first' < total'
    BY <1>0, <1>1, WriteTrims
  <2>2. QED
    BY <1>0, <1>1, <2>1 DEF StreamType, Write
<1>2. CASE ProcessEnds
  BY <1>0, <1>2 DEF StreamType, ProcessEnds
<1>3. CASE Prune
  BY <1>0, <1>3 DEF StreamType, Prune
<1>4. CASE HandleLogs
  BY <1>0, <1>4, PageTaken DEF StreamType, HandleLogs
<1>5. CASE HandleStatus
  BY <1>0, <1>5, StatusTaken DEF StreamType, HandleStatus
<1>6. CASE HandlePull
  BY <1>0, <1>6, PullTaken DEF StreamType, HandlePull
<1>7. CASE ReceiveLogs
  <2>1. reply.data \in Seq(Nat) /\ reply.next \in Nat /\ reply.truncated \in BOOLEAN
    BY <1>0 DEF StreamType, Replies
  <2>2. /\ shown' \in Seq(Nat) /\ offset' \in Nat /\ reply' \in Replies
        /\ stage' \in {"drain", "final", "status", "done"}
    BY <1>0, <1>7, <2>1, NoAnswer DEF StreamType, ReceiveLogs
  <2>3. warned' \in BOOLEAN /\ sawTruncated' \in BOOLEAN
    BY <1>0, <1>7, <2>1 DEF StreamType, ReceiveLogs
  <2>4. QED
    BY <1>0, <1>7, <2>2, <2>3 DEF StreamType, ReceiveLogs, Waiting, Returned
<1>8. CASE ReceiveStatus
  BY <1>0, <1>8, NoAnswer DEF StreamType, Waiting, ReceiveStatus
<1>9. CASE PollInterval
  BY <1>0, <1>9 DEF StreamType, Waiting, PollInterval
<1>10. CASE ReceivePull
  BY <1>0, <1>10, NoAnswer DEF StreamType, Returned, Replies, ReceivePull
<1>11. CASE RequestFails
  BY <1>0, <1>11, NoAnswer DEF StreamType, Returned, RequestFails
<1>12. CASE Signal
  BY <1>0, <1>12, NoAnswer DEF StreamType, Signal
<1>13. CASE Cancel
  BY <1>0, <1>13 DEF StreamType, Returned, Results, Cancel
<1>14. CASE UNCHANGED streamVars
  BY <1>0, <1>14 DEF StreamType
<1>15. QED
  BY <1>1, <1>2, <1>3, <1>4, <1>5, <1>6, <1>7, <1>8, <1>9, <1>10, <1>11, <1>12, <1>13,
     <1>14
  DEF StreamNext, Server, Client, Rest

(* Every step keeps the ends of the buffer in order.                       *)
LEMMA StepBuffer ==
    ASSUME StreamInv, [StreamNext]_streamVars
    PROVE  BufferOK'
<1> USE DEF streamVars, buffer, reader
<1>0. StreamType /\ BufferOK /\ PageOK
  BY DEF StreamInv
<1>1. ASSUME NEW n \in 1..MaxWrite, Write(n)
      PROVE  BufferOK'
  <2>1. /\ total' \in Nat /\ total < total' /\ first' \in Nat
        /\ first <= first' /\ first' < total'
    BY <1>0, <1>1, WriteTrims
  <2>2. QED
    BY <1>0, <1>1, <2>1 DEF StreamType, BufferOK, Write
<1>2. CASE ProcessEnds
  BY <1>0, <1>2 DEF BufferOK, ProcessEnds
<1>3. CASE Prune
  BY <1>0, <1>3 DEF BufferOK, Prune
<1>4. CASE HandleLogs
  BY <1>0, <1>4, PageTaken DEF BufferOK, HandleLogs
<1>5. CASE HandleStatus
  BY <1>0, <1>5, StatusTaken DEF BufferOK, HandleStatus
<1>6. CASE HandlePull
  BY <1>0, <1>6, PullTaken DEF BufferOK, HandlePull
<1>7. CASE ReceiveLogs
  BY <1>0, <1>7, NoAnswer DEF BufferOK, PageOK, ReceiveLogs
<1>8. CASE ReceiveStatus
  BY <1>0, <1>8, NoAnswer DEF BufferOK, ReceiveStatus
<1>9. CASE PollInterval
  BY <1>0, <1>9 DEF BufferOK, PollInterval
<1>10. CASE ReceivePull
  BY <1>0, <1>10, NoAnswer DEF BufferOK, ReceivePull
<1>11. CASE RequestFails
  BY <1>0, <1>11, NoAnswer DEF BufferOK, RequestFails
<1>12. CASE Signal
  BY <1>0, <1>12, NoAnswer DEF BufferOK, Signal
<1>13. CASE Cancel
  BY <1>0, <1>13 DEF BufferOK, Cancel
<1>14. CASE UNCHANGED streamVars
  BY <1>0, <1>14 DEF BufferOK
<1>15. QED
  BY <1>1, <1>2, <1>3, <1>4, <1>5, <1>6, <1>7, <1>8, <1>9, <1>10, <1>11, <1>12, <1>13,
     <1>14
  DEF StreamNext, Server, Client, Rest

(* Every step keeps the kind of answer that travels.                       *)
LEMMA StepAnswer ==
    ASSUME StreamInv, [StreamNext]_streamVars
    PROVE  AnswerOK'
<1> USE DEF streamVars, buffer, reader
<1>0. StreamType /\ BufferOK /\ PullOK /\ AnswerOK
  BY DEF StreamInv
<1>1. ASSUME NEW n \in 1..MaxWrite, Write(n)
      PROVE  AnswerOK'
  BY <1>0, <1>1 DEF AnswerOK, Write
<1>2. CASE ProcessEnds
  BY <1>0, <1>2 DEF AnswerOK, ProcessEnds
<1>3. CASE Prune
  BY <1>0, <1>3 DEF AnswerOK, Prune
<1>4. CASE HandleLogs
  BY <1>0, <1>4, PageTaken DEF AnswerOK, Results, HandleLogs
<1>5. CASE HandleStatus
  BY <1>0, <1>5, StatusTaken DEF StreamType, AnswerOK, Results, HandleStatus
<1>6. CASE HandlePull
  BY <1>0, <1>6, PullTaken DEF AnswerOK, Results, HandlePull
<1>7. CASE ReceiveLogs
  BY <1>0, <1>7, NoAnswer DEF AnswerOK, Results, ReceiveLogs
<1>8. CASE ReceiveStatus
  BY <1>0, <1>8, NoAnswer DEF AnswerOK, Results, ReceiveStatus
<1>9. CASE PollInterval
  BY <1>0, <1>9 DEF AnswerOK, PollInterval
<1>10. CASE ReceivePull
  BY <1>0, <1>10, NoAnswer DEF AnswerOK, PullOK, ReceivePull
<1>11. CASE RequestFails
  BY <1>0, <1>11, NoAnswer DEF AnswerOK, Results, RequestFails
<1>12. CASE Signal
  BY <1>0, <1>12, NoAnswer DEF AnswerOK, Results, Signal
<1>13. CASE Cancel
  BY <1>0, <1>13 DEF AnswerOK, Cancel
<1>14. CASE UNCHANGED streamVars
  BY <1>0, <1>14 DEF AnswerOK
<1>15. QED
  BY <1>1, <1>2, <1>3, <1>4, <1>5, <1>6, <1>7, <1>8, <1>9, <1>10, <1>11, <1>12, <1>13,
     <1>14
  DEF StreamNext, Server, Client, Rest

(* Every step keeps what a page in flight says; writes and trims only move *)
(* first and total up.                                                     *)
LEMMA StepPage ==
    ASSUME StreamInv, [StreamNext]_streamVars
    PROVE  PageOK'
<1> USE DEF streamVars, buffer, reader
<1>0. StreamType /\ BufferOK /\ PageOK /\ AnswerOK
  BY DEF StreamInv
<1>1. ASSUME NEW n \in 1..MaxWrite, Write(n)
      PROVE  PageOK'
  <2>1. total' \in Nat /\ total < total' /\ first' \in Nat /\ first <= first'
    BY <1>0, <1>1, WriteTrims
  <2>2. CASE stage = "drain" /\ reply.is = "logs"
    <3>1. reply.next <= total'
      BY <1>0, <2>1, <2>2 DEF PageOK, StreamType, Replies
    <3>2. \A p \in Nat : offset <= p /\ p < Start => p < first' /\ reply.truncated
      BY <1>0, <2>1, <2>2 DEF PageOK, StreamType
    <3>3. UNCHANGED <<stage, offset, reply>>
      BY <1>1 DEF Write
    <3>4. QED
      BY <1>0, <2>2, <3>1, <3>2, <3>3 DEF PageOK, Start
  <2>3. CASE ~(stage \in {"drain", "final"} /\ reply.is = "logs")
    BY <1>1, <2>3 DEF PageOK, Write
  <2>4. QED
    BY <1>0, <1>1, <2>2, <2>3 DEF AnswerOK, Write
<1>2. CASE ProcessEnds
  BY <1>0, <1>2 DEF PageOK, Start, ProcessEnds
<1>3. CASE Prune
  BY <1>0, <1>3 DEF PageOK, Start, Prune
<1>4. CASE HandleLogs
  <2> DEFINE r == BufferRange(offset, Chunk)
  <2>1. /\ RangeOf(r, offset, Chunk) /\ reply'.data = r.data /\ reply'.next = r.next
        /\ reply'.truncated = r.truncated /\ Len(r.data) <= reply'.decoded
        /\ reply' \in Replies
    BY <1>0, <1>4, PageTaken
  <2> HIDE DEF r
  <2>2. UNCHANGED <<buffer, stage, offset>>
    BY <1>4 DEF HandleLogs
  <2>3. Start' = r.next - Len(r.data)
    BY <2>1 DEF Start
  <2>4. reply'.decoded < Chunk => Len(r.data) < Chunk
    BY <2>1, BoundsAssumption DEF Replies
  <2>5. QED
    BY <2>1, <2>2, <2>3, <2>4 DEF PageOK, RangeOf
<1>5. CASE HandleStatus
  BY <1>0, <1>5, StatusTaken DEF PageOK, HandleStatus
<1>6. CASE HandlePull
  BY <1>0, <1>6, PullTaken DEF PageOK, HandlePull
<1>7. CASE ReceiveLogs
  BY <1>0, <1>7, NoAnswer DEF PageOK, ReceiveLogs
<1>8. CASE ReceiveStatus
  BY <1>0, <1>8, NoAnswer DEF PageOK, ReceiveStatus
<1>9. CASE PollInterval
  BY <1>0, <1>9 DEF PageOK, AnswerOK, PollInterval
<1>10. CASE ReceivePull
  BY <1>0, <1>10, NoAnswer DEF PageOK, ReceivePull
<1>11. CASE RequestFails
  BY <1>0, <1>11, NoAnswer DEF PageOK, RequestFails
<1>12. CASE Signal
  BY <1>0, <1>12, NoAnswer DEF PageOK, Signal
<1>13. CASE Cancel
  BY <1>0, <1>13 DEF PageOK, Cancel
<1>14. CASE UNCHANGED streamVars
  BY <1>0, <1>14 DEF PageOK, Start
<1>15. QED
  BY <1>1, <1>2, <1>3, <1>4, <1>5, <1>6, <1>7, <1>8, <1>9, <1>10, <1>11, <1>12, <1>13,
     <1>14
  DEF StreamNext, Server, Client, Rest

(* Every step keeps what the answer to a pull says.                        *)
LEMMA StepPull ==
    ASSUME StreamInv, [StreamNext]_streamVars
    PROVE  PullOK'
<1> USE DEF streamVars, buffer, reader
<1>0. StreamType /\ BufferOK /\ PullOK /\ AnswerOK
  BY DEF StreamInv
<1>1. ASSUME NEW n \in 1..MaxWrite, Write(n)
      PROVE  PullOK'
  BY <1>0, <1>1 DEF PullOK, Write
<1>2. CASE ProcessEnds
  BY <1>0, <1>2 DEF PullOK, ProcessEnds
<1>3. CASE Prune
  BY <1>0, <1>3 DEF PullOK, Prune
<1>4. CASE HandleLogs
  BY <1>0, <1>4, PageTaken DEF PullOK, HandleLogs
<1>5. CASE HandleStatus
  BY <1>0, <1>5, StatusTaken DEF PullOK, HandleStatus
<1>6. CASE HandlePull
  <2> DEFINE r == BufferRange(0, total)
  <2>1. /\ RangeOf(r, 0, total) /\ reply'.data = r.data /\ reply'.next = r.next
        /\ reply'.truncated = r.truncated
    BY <1>0, <1>6, PullTaken
  <2> HIDE DEF r
  <2>2. UNCHANGED <<buffer, stage, offset, shown, opState>> /\ opState # "running" /\ stage = "pull"
    BY <1>6 DEF HandlePull, Results
  <2>3. first \in Nat /\ total \in Nat /\ Len(r.data) \in Nat /\ r.next \in Nat
    BY <1>0, <2>1 DEF StreamType, RangeOf
  <2>4. Start' = r.next - Len(r.data) /\ Start' >= 0
    BY <2>1, <2>3 DEF Start, RangeOf
  <2>5. r.next = total
    BY <2>1, <2>3, <2>4 DEF RangeOf
  <2>6. \A p \in Nat : p < Start' => p < first /\ r.truncated
    BY <2>1, <2>4 DEF RangeOf
  <2>7. 0 <= Start' /\ Start' <= first /\ (r.truncated \/ Start' = 0)
    <3>1. CASE Start' = 0
      BY <2>3, <3>1
    <3>2. CASE Start' > 0
      <4>1. Start' - 1 \in Nat /\ Start' - 1 < Start'
        BY <2>3, <2>4, <3>2
      <4>2. Start' - 1 < first /\ r.truncated
        BY <2>6, <4>1
      <4>3. QED
        BY <2>3, <2>4, <4>2
    <3>3. QED
      BY <2>3, <2>4, <3>1, <3>2
  <2>8. QED
    BY <1>0, <2>1, <2>2, <2>4, <2>5, <2>7 DEF PullOK, RangeOf
<1>7. CASE ReceiveLogs
  BY <1>0, <1>7, NoAnswer DEF PullOK, ReceiveLogs
<1>8. CASE ReceiveStatus
  BY <1>0, <1>8, NoAnswer DEF PullOK, ReceiveStatus
<1>9. CASE PollInterval
  BY <1>0, <1>9 DEF PullOK, PollInterval
<1>10. CASE ReceivePull
  BY <1>0, <1>10, NoAnswer DEF PullOK, ReceivePull
<1>11. CASE RequestFails
  BY <1>0, <1>11, NoAnswer DEF PullOK, RequestFails
<1>12. CASE Signal
  BY <1>0, <1>12, NoAnswer DEF PullOK, Signal
<1>13. CASE Cancel
  BY <1>0, <1>13 DEF PullOK, Cancel
<1>14. CASE UNCHANGED streamVars
  BY <1>0, <1>14 DEF PullOK, Start
<1>15. QED
  BY <1>1, <1>2, <1>3, <1>4, <1>5, <1>6, <1>7, <1>8, <1>9, <1>10, <1>11, <1>12, <1>13,
     <1>14
  DEF StreamNext, Server, Client, Rest

(* Every step keeps the account of what was printed.                       *)
LEMMA StepShown ==
    ASSUME StreamInv, [StreamNext]_streamVars
    PROVE  ShownOK'
<1> USE DEF streamVars, buffer, reader
<1>0. StreamType /\ BufferOK /\ PageOK /\ PullOK /\ ShownOK /\ AnswerOK
  BY DEF StreamInv
<1>1. ASSUME NEW n \in 1..MaxWrite, Write(n)
      PROVE  ShownOK'
  <2>1. first' \in Nat /\ first <= first'
    BY <1>0, <1>1, WriteTrims
  <2>2. UNCHANGED <<shown, offset, stage, warned, sawTruncated>>
    BY <1>1 DEF Write
  <2>3. \A p \in Nat : p < first => p < first'
    BY <1>0, <2>1 DEF StreamType
  <2>4. QED
    BY <1>0, <2>2, <2>3 DEF ShownOK, Printed
<1>2. CASE ProcessEnds
  BY <1>0, <1>2 DEF ShownOK, Printed, ProcessEnds
<1>3. CASE Prune
  BY <1>0, <1>3 DEF ShownOK, Printed, Prune
<1>4. CASE HandleLogs
  BY <1>0, <1>4, PageTaken DEF ShownOK, Printed, HandleLogs
<1>5. CASE HandleStatus
  BY <1>0, <1>5, StatusTaken DEF ShownOK, Printed, HandleStatus
<1>6. CASE HandlePull
  BY <1>0, <1>6, PullTaken DEF ShownOK, Printed, HandlePull
<1>7. CASE ReceiveLogs
  <2>1. /\ ShownInOrder' /\ \A i \in DOMAIN shown' : shown'[i] < offset'
        /\ \A p \in Nat : p < offset' /\ p \notin Printed' =>
              p < first' /\ (warned' \/ sawTruncated')
    BY <1>0, <1>7, PagePrinted
  <2>2. QED
    BY <2>1 DEF ShownOK, ShownInOrder
<1>8. CASE ReceiveStatus
  BY <1>0, <1>8, NoAnswer DEF ShownOK, Printed, Waiting, ReceiveStatus
<1>9. CASE PollInterval
  BY <1>0, <1>9 DEF ShownOK, Printed, Waiting, PollInterval
<1>10. CASE ReceivePull
  <2>1. offset' = 0 /\ stage' = "done"
    BY <1>0, <1>10 DEF PullOK, ReceivePull
  <2>2. ShownInOrder'
    BY <1>0, <1>10, PullPrinted
  <2>3. \A p \in Nat : ~(p < offset')
    BY <2>1
  <2>4. QED
    BY <2>1, <2>2, <2>3 DEF ShownOK, ShownInOrder, Waiting
<1>11. CASE RequestFails
  BY <1>0, <1>11, NoAnswer DEF ShownOK, Printed, Waiting, RequestFails
<1>12. CASE Signal
  BY <1>0, <1>12, NoAnswer DEF ShownOK, Printed, Waiting, Signal
<1>13. CASE Cancel
  BY <1>0, <1>13 DEF ShownOK, Printed, Waiting, Cancel
<1>14. CASE UNCHANGED streamVars
  BY <1>0, <1>14 DEF ShownOK, Printed
<1>15. QED
  BY <1>1, <1>2, <1>3, <1>4, <1>5, <1>6, <1>7, <1>8, <1>9, <1>10, <1>11, <1>12, <1>13,
     <1>14
  DEF StreamNext, Server, Client, Rest

(* A wait that returned has printed all there was.                         *)
LEMMA StepDone ==
    ASSUME StreamInv, [StreamNext]_streamVars
    PROVE  DoneOK'
<1> USE DEF streamVars, buffer, reader
<1>0. StreamType /\ BufferOK /\ PageOK /\ PullOK /\ ShownOK /\ AnswerOK /\ DoneOK
  BY DEF StreamInv
<1>1. ASSUME NEW n \in 1..MaxWrite, Write(n)
      PROVE  DoneOK'
  BY <1>0, <1>1 DEF AnswerOK, DoneOK, Write
<1>2. CASE ProcessEnds
  BY <1>0, <1>2 DEF AnswerOK, DoneOK, ProcessEnds
<1>3. CASE Prune
  BY <1>0, <1>3 DEF DoneOK, Printed, Prune
<1>4. CASE HandleLogs
  BY <1>0, <1>4, PageTaken DEF DoneOK, HandleLogs
<1>5. CASE HandleStatus
  BY <1>0, <1>5, StatusTaken DEF DoneOK, HandleStatus
<1>6. CASE HandlePull
  BY <1>0, <1>6, PullTaken DEF DoneOK, HandlePull
<1>7. CASE ReceiveLogs
  <2>1. CASE stage' = "done"
    <3>1. stage = "final" /\ offset' = reply.next /\ first' = first /\ total' = total
          /\ (reply.decoded < Chunk \/ reply.next <= offset) /\ ~sawTruncated'
      BY <1>0, <1>7, <2>1 DEF ReceiveLogs
    <3>2. offset' = total
      BY <1>0, <1>7, <3>1 DEF PageOK, ReceiveLogs
    <3>3. \A p \in Nat : p < offset' /\ p \notin Printed' =>
              p < first' /\ (warned' \/ sawTruncated')
      BY <1>0, <1>7, PagePrinted
    <3>4. QED
      BY <3>1, <3>2, <3>3 DEF DoneOK
  <2>2. CASE stage' # "done"
    BY <2>2 DEF DoneOK
  <2>3. QED
    BY <2>1, <2>2
<1>8. CASE ReceiveStatus
  BY <1>0, <1>8, NoAnswer DEF DoneOK, ReceiveStatus
<1>9. CASE PollInterval
  BY <1>0, <1>9 DEF DoneOK, PollInterval
<1>10. CASE ReceivePull
  BY <1>0, <1>10, PullPrinted DEF DoneOK
<1>11. CASE RequestFails
  BY <1>0, <1>11, NoAnswer DEF DoneOK, RequestFails
<1>12. CASE Signal
  BY <1>0, <1>12, NoAnswer DEF DoneOK, Signal
<1>13. CASE Cancel
  BY <1>0, <1>13 DEF DoneOK, Cancel
<1>14. CASE UNCHANGED streamVars
  BY <1>0, <1>14 DEF DoneOK, Printed
<1>15. QED
  BY <1>1, <1>2, <1>3, <1>4, <1>5, <1>6, <1>7, <1>8, <1>9, <1>10, <1>11, <1>12, <1>13,
     <1>14
  DEF StreamNext, Server, Client, Rest

-----------------------------------------------------------------------------
(* Paging, trimming and completion keep the whole invariant: a gap is only *)
(* ever opened by an eviction, and the last drain begins after the process *)
(* ended, so the stream it reads to its end no longer grows.               *)
THEOREM StreamInvariant == StreamSpec => []StreamInv
<1>1. StreamInit => StreamInv
  <2> SUFFICES ASSUME StreamInit PROVE StreamInv
    OBVIOUS
  <2>1. maxSize \in Nat \ {0}
    BY BoundsAssumption DEF StreamInit
  <2>2. StreamType
    <3>1. reply \in Replies /\ shown \in Seq(Nat)
      BY NoAnswer DEF StreamInit
    <3>2. QED
      BY <2>1, <3>1 DEF StreamInit, StreamType, Waiting
  <2>3. BufferOK /\ PageOK /\ PullOK /\ AnswerOK
    BY NoAnswer, BoundsAssumption DEF StreamInit, BufferOK, PageOK, PullOK, AnswerOK, Results
  <2>4. ShownOK /\ DoneOK
    BY DEF StreamInit, ShownOK, DoneOK
  <2>5. QED
    BY <2>2, <2>3, <2>4 DEF StreamInv
<1>2. StreamInv /\ [StreamNext]_streamVars => StreamInv'
  BY StepType, StepBuffer, StepPage, StepPull, StepAnswer, StepShown, StepDone
  DEF StreamInv
<1>3. QED
  BY <1>1, <1>2, PTL DEF StreamSpec

(* LogDelivered: boundedBuffer.Range, the chunked handleOperationLogs and  *)
(* drainOperationLogs together print each position at most once and in     *)
(* order, skip only evicted positions, warn of every skip, and leave none  *)
(* of the retained ones out when the wait returns.                         *)
THEOREM OutputDelivered == StreamSpec => []LogDelivered
<1>1. StreamInv => LogDelivered
  <2> SUFFICES ASSUME StreamInv PROVE LogDelivered
    OBVIOUS
  <2> DEFINE missing == {p \in 0..total - 1 : p < offset /\ p \notin Printed}
  <2>1. first \in Nat /\ total \in Nat /\ ShownOK /\ DoneOK
    BY DEF StreamInv, StreamType
  <2>2. \A p \in missing : p < first /\ (warned \/ sawTruncated)
    BY <2>1 DEF ShownOK
  <2>3. stage = "done" => first..total - 1 \subseteq Printed
    BY <2>1 DEF DoneOK
  <2>4. stage = "done" /\ ~warned => 0..total - 1 \subseteq Printed
    BY <2>1 DEF DoneOK
  <2>5. \A i, j \in DOMAIN shown : i < j => shown[i] < shown[j]
    BY <2>1 DEF ShownOK
  <2>6. QED
    BY <2>2, <2>3, <2>4, <2>5 DEF LogDelivered, Printed
<1>2. QED
  BY <1>1, StreamInvariant, PTL

-----------------------------------------------------------------------------
(* The supervisor.                                                         *)

USE DEF Kinds, Terminators, Pruners

(* An operation set chosen from the requests is finite, so counting it     *)
(* gives a natural number.                                                 *)
LEMMA CardinalityNat ==
    ASSUME NEW S, S \subseteq Requests
    PROVE  IsFiniteSet(S) /\ Cardinality(S) \in Nat
  BY FiniteAssumption, FS_Subset, FS_CardinalityType

(* What a prune decides to remove is a set of registered operations.       *)
LEMMA PrunableSubset ==
    ASSUME NEW c PROVE Prunable(c) \subseteq Requests
  BY DEF Prunable, Completed

-----------------------------------------------------------------------------
(* Type correctness, one lemma for each group of variables.                *)

(* Initially every variable has its type.                                  *)
LEMMA InitType == Init => TypeOK
<1> SUFFICES ASSUME Init PROVE TypeOK
  OBVIOUS
<1>1. SupervisorTypeOK
  BY DEF Init, SupervisorTypeOK
<1>2. OperationTypeOK
  BY DEF Init, OperationTypeOK
<1>3. ThreadTypeOK
  <2>1. pc \in [Requests -> PCs] /\ wasCancelled \in [Requests -> BOOLEAN]
    BY DEF Init, PCs
  <2>2. toRemove \in [Pruners -> SUBSET Requests]
    BY DEF Init
  <2>3. tpc \in [Terminators -> TPCs]
    BY DEF Init, TPCs
  <2>4. tst \in [Terminators -> [Requests -> TSTs]]
    BY DEF Init, TSTs
  <2>5. response \in [Terminators -> {"none", "not_found", "terminal", "waited"}]
    BY DEF Init
  <2>6. QED
    BY <2>1, <2>2, <2>3, <2>4, <2>5 DEF ThreadTypeOK
<1>4. QED
  BY <1>1, <1>2, <1>3 DEF TypeOK

(* The release closure and its two callers keep the supervisor's types.    *)
LEMMA ReleaseType ==
    ASSUME SupervisorTypeOK, NEW r \in Requests,
           ReservationRelease(r) \/ OpReleaseCapacity(r),
           UNCHANGED <<ops, shutting, quiesced>>
    PROVE  SupervisorTypeOK'
<1>1. ASSUME NEW n \in Nat PROVE Decrement(n) \in Nat
  BY <1>1 DEF Decrement
<1>2. SessionOf[r] \in Sessions
  BY TypeAssumption
<1>3. ops' \subseteq Requests /\ shutting' \in BOOLEAN /\ quiesced' \subseteq Launchers
  BY DEF SupervisorTypeOK
<1>4. reservation' \in [Requests -> BOOLEAN]
      /\ capacityRelease' \in [Requests -> BOOLEAN]
  BY DEF SupervisorTypeOK, ReservationRelease, OpReleaseCapacity
<1>5. CASE RunRelease(r)
  <2>1. globalRunning' \in Nat
    BY <1>1, <1>5 DEF SupervisorTypeOK, RunRelease
  <2>2. globalBuildCount' \in Nat
    BY <1>1, <1>5 DEF SupervisorTypeOK, RunRelease
  <2>3. sessionRunning' \in [Sessions -> Nat]
    BY <1>1, <1>2, <1>5 DEF SupervisorTypeOK, RunRelease
  <2>4. released' \in [Requests -> BOOLEAN]
    BY <1>5 DEF SupervisorTypeOK, RunRelease
  <2>5. QED
    BY <1>3, <1>4, <2>1, <2>2, <2>3, <2>4 DEF SupervisorTypeOK
<1>6. CASE UNCHANGED <<globalRunning, sessionRunning, globalBuildCount, released>>
  BY <1>3, <1>4, <1>6 DEF SupervisorTypeOK
<1>7. QED
  BY <1>5, <1>6 DEF ReservationRelease, OpReleaseCapacity

(* Every step of a request handler preserves the types.                    *)
LEMMA HandlerType ==
    ASSUME TypeOK, NEW r \in Requests, HandlerStep(r)
    PROVE  TypeOK'
<1> USE TypeAssumption DEF TypeOK, PCs, Goto
<1>1. CASE Reserve(r)
  BY <1>1 DEF Reserve, TakeSlot, SupervisorTypeOK, OperationTypeOK, ThreadTypeOK,
     opVars, procVars, termVars
<1>2. CASE ReserveSync(r)
  BY <1>2 DEF ReserveSync, TakeSlot, SupervisorTypeOK, OperationTypeOK, ThreadTypeOK,
     opVars, procVars, termVars
<1>3. CASE ReserveRefused(r)
  BY <1>3 DEF ReserveRefused, SupervisorTypeOK, OperationTypeOK, ThreadTypeOK,
     capacityVars, opVars, procVars, termVars
<1>4. CASE SyncReturn(r)
  BY <1>4, ReleaseType DEF SyncReturn, OperationTypeOK, ThreadTypeOK,
     opVars, procVars, termVars
<1>5. CASE PrepareFail(r)
  BY <1>5, ReleaseType DEF PrepareFail, OperationTypeOK, ThreadTypeOK,
     opVars, procVars, termVars
<1>6. CASE CreateOperation(r)
  BY <1>6 DEF CreateOperation, SupervisorTypeOK, OperationTypeOK, ThreadTypeOK,
     opVars, procVars, termVars
<1>7. CASE MaterializeFail(r)
  BY <1>7, ReleaseType DEF MaterializeFail, OperationTypeOK, ThreadTypeOK,
     opVars, procVars, termVars
<1>8. CASE AdmitReserved(r)
  BY <1>8 DEF AdmitReserved, SupervisorTypeOK, OperationTypeOK, ThreadTypeOK,
     opVars, procVars, termVars
<1>9. CASE AdmitRefused(r)
  BY <1>9, ReleaseType DEF AdmitRefused, OperationTypeOK, ThreadTypeOK,
     opVars, procVars, termVars
<1>10. CASE PruneDecide(r)
  BY <1>10, PrunableSubset DEF PruneDecide, SupervisorTypeOK, OperationTypeOK,
     ThreadTypeOK, capacityVars, opVars, procVars, termVars
<1>11. CASE PruneRemove(r)
  BY <1>11 DEF PruneRemove, SupervisorTypeOK, OperationTypeOK, ThreadTypeOK,
     capacityVars, opVars, procVars, termVars
<1>12. CASE StartProcess(r)
  BY <1>12 DEF StartProcess, SupervisorTypeOK, OperationTypeOK, ThreadTypeOK,
     capacityVars, termVars
<1>13. CASE StartFails(r)
  BY <1>13 DEF StartFails, SupervisorTypeOK, OperationTypeOK, ThreadTypeOK,
     capacityVars, opVars, procVars, termVars
<1>14. CASE StartRefused(r)
  BY <1>14 DEF StartRefused, SupervisorTypeOK, OperationTypeOK, ThreadTypeOK,
     capacityVars, opVars, procVars, termVars
<1>15. CASE Rollback(r)
  <2>1. SupervisorTypeOK'
    BY <1>15, ReleaseType DEF Rollback, SupervisorTypeOK, capacityVars
  <2>2. QED
    BY <1>15, <2>1 DEF Rollback, OperationTypeOK, ThreadTypeOK,
       opVars, procVars, termVars
<1>16. CASE WaitReturns(r)
  BY <1>16 DEF WaitReturns, SupervisorTypeOK, OperationTypeOK, ThreadTypeOK,
     capacityVars, opVars, procVars, termVars
<1>17. CASE ReadReason(r)
  BY <1>17 DEF ReadReason, SupervisorTypeOK, OperationTypeOK, ThreadTypeOK,
     capacityVars, opVars, procVars, termVars
<1>18. CASE Complete(r)
  <2>1. Cardinality(Completed) + 1 \in Nat
    BY CardinalityNat DEF Completed
  <2>2. SupervisorTypeOK'
    BY <1>18, ReleaseType DEF Complete
  <2>3. OperationTypeOK'
    BY <1>18, <2>1 DEF Complete, OperationTypeOK, procVars
  <2>4. ThreadTypeOK'
    BY <1>18 DEF Complete, ThreadTypeOK, termVars
  <2>5. QED
    BY <2>2, <2>3, <2>4
<1>19. CASE CloseDone(r)
  BY <1>19 DEF CloseDone, SupervisorTypeOK, OperationTypeOK, ThreadTypeOK,
     capacityVars, procVars, termVars
<1>20. QED
  BY <1>1, <1>2, <1>3, <1>4, <1>5, <1>6, <1>7, <1>8, <1>9, <1>10, <1>11,
     <1>12, <1>13, <1>14, <1>15, <1>16, <1>17, <1>18, <1>19 DEF HandlerStep

(* Every step of terminateOperations preserves the types.                  *)
LEMMA TerminatorType ==
    ASSUME TypeOK, NEW t \in Terminators, TerminatorStep(t)
    PROVE  TypeOK'
<1> USE TypeAssumption DEF TypeOK, SupervisorTypeOK, OperationTypeOK,
        ThreadTypeOK, TPCs, TSTs, capacityVars, opVars, procVars, termVars
<1>1. ASSUME NEW o \in Requests, Mark(t, o) PROVE TypeOK'
  BY <1>1 DEF Mark, ReasonOf
<1>2. ASSUME NEW o \in Requests, GraceDone(t, o) PROVE TypeOK'
  BY <1>2 DEF GraceDone
<1>3. ASSUME NEW o \in Requests, ForceClaim(t, o) PROVE TypeOK'
  BY <1>3 DEF ForceClaim
<1>4. ASSUME NEW o \in Requests, ForceKill(t, o) PROVE TypeOK'
  BY <1>4 DEF ForceKill
<1>5. ASSUME NEW o \in Requests, FollowerReturns(t, o) PROVE TypeOK'
  BY <1>5 DEF FollowerReturns
<1>6. CASE GraceExpires(t)
  BY <1>6 DEF GraceExpires
<1>7. CASE TerminateReturns(t)
  BY <1>7 DEF TerminateReturns
<1>8. QED
  BY <1>1, <1>2, <1>3, <1>4, <1>5, <1>6, <1>7 DEF TerminatorStep

OtherStep ==
    \/ \E r \in Requests : ProcessExit(r)
    \/ \E p \in Pollers : PollDecide(p) \/ PollRemove(p)
    \/ \E t \in Cancellers, o \in Requests : CancelLookup(t, o)
    \/ \E t \in Cancellers : CancellerStep(t)
    \/ BeginShutdown \/ ShutdownSnapshot
    \/ \E l \in Launchers, closed \in BOOLEAN : SetQuiesced(l, closed)
    \/ UNCHANGED vars

(* Polls, cancel calls, shutdown and quiescing preserve the types.         *)
LEMMA OtherType == TypeOK /\ OtherStep => TypeOK'
<1> SUFFICES ASSUME TypeOK, OtherStep PROVE TypeOK'
  OBVIOUS
<1>1. ASSUME NEW r \in Requests, ProcessExit(r) PROVE TypeOK'
  BY <1>1 DEF ProcessExit, TypeOK, SupervisorTypeOK, OperationTypeOK,
     ThreadTypeOK, capacityVars, opVars, termVars
<1>2. ASSUME NEW p \in Pollers, PollDecide(p) PROVE TypeOK'
  BY <1>2, PrunableSubset DEF PollDecide, TypeOK, SupervisorTypeOK,
     OperationTypeOK, ThreadTypeOK, capacityVars, opVars, procVars, termVars
<1>3. ASSUME NEW p \in Pollers, PollRemove(p) PROVE TypeOK'
  BY <1>3 DEF PollRemove, TypeOK, SupervisorTypeOK, OperationTypeOK,
     ThreadTypeOK, capacityVars, opVars, procVars, termVars
<1>4. ASSUME NEW t \in Cancellers, NEW o \in Requests, CancelLookup(t, o)
      PROVE  TypeOK'
  <2>1. tpc' \in [Terminators -> TPCs]
    BY <1>4 DEF CancelLookup, TypeOK, ThreadTypeOK, TPCs
  <2>2. response' \in [Terminators -> {"none", "not_found", "terminal", "waited"}]
    BY <1>4 DEF CancelLookup, TypeOK, ThreadTypeOK
  <2>3. tst' \in [Terminators -> [Requests -> TSTs]]
    BY <1>4 DEF CancelLookup, TypeOK, ThreadTypeOK, TSTs
  <2>4. QED
    BY <1>4, <2>1, <2>2, <2>3 DEF CancelLookup, TypeOK, SupervisorTypeOK,
       OperationTypeOK, ThreadTypeOK, capacityVars, opVars, procVars
<1>5. ASSUME NEW t \in Cancellers, NEW o \in Requests, CancelBegin(t, o)
      PROVE  TypeOK'
  BY <1>5 DEF CancelBegin, TypeOK, SupervisorTypeOK, OperationTypeOK,
     ThreadTypeOK, TPCs, capacityVars, opVars, procVars
<1>6. ASSUME NEW t \in Cancellers, NEW o \in Requests, CancelRespond(t, o)
      PROVE  TypeOK'
  BY <1>6 DEF CancelRespond, TypeOK, SupervisorTypeOK, OperationTypeOK,
     ThreadTypeOK, TPCs, capacityVars, opVars, procVars
<1>7. CASE BeginShutdown
  BY <1>7 DEF BeginShutdown, TypeOK, SupervisorTypeOK, OperationTypeOK,
     ThreadTypeOK, TPCs, capacityVars, opVars, procVars
<1>8. CASE ShutdownSnapshot
  BY <1>8 DEF ShutdownSnapshot, TypeOK, SupervisorTypeOK, OperationTypeOK,
     ThreadTypeOK, TPCs, TSTs, capacityVars, opVars, procVars
<1>9. ASSUME NEW l \in Launchers, NEW closed \in BOOLEAN, SetQuiesced(l, closed)
      PROVE  TypeOK'
  BY <1>9 DEF SetQuiesced, TypeOK, SupervisorTypeOK, OperationTypeOK,
     ThreadTypeOK, capacityVars, opVars, procVars, termVars
<1>10. CASE UNCHANGED vars
  BY <1>10 DEF vars, TypeOK, SupervisorTypeOK, OperationTypeOK,
     ThreadTypeOK, capacityVars, opVars, procVars, termVars
<1>11. QED
  BY <1>1, <1>2, <1>3, <1>4, <1>5, <1>6, <1>7, <1>8, <1>9, <1>10
     DEF OtherStep, CancellerStep

(* A step of the specification is a handler, a terminator or another step. *)
LEMMA NextSplit ==
    [Next]_vars => \/ \E r \in Requests : HandlerStep(r)
                   \/ \E t \in Terminators : TerminatorStep(t)
                   \/ OtherStep
  BY DEF Next, OtherStep

(* Every reachable state of the supervisor is well typed, under every      *)
(* interleaving of handlers, prunes, cancels and shutdown.                 *)
THEOREM TypeCorrect == Spec => []TypeOK
<1>1. Init => TypeOK
  BY InitType
<1>2. TypeOK /\ [Next]_vars => TypeOK'
  BY NextSplit, HandlerType, TerminatorType, OtherType
<1>3. QED
  BY <1>1, <1>2, PTL DEF Spec

-----------------------------------------------------------------------------
(***************************************************************************)
(* The capacity accounting of the operation supervisor is exact, for every *)
(* set of requests and every value of the ceilings.  CapacityExact alone   *)
(* is not inductive: nothing in it says that a closure which is still held *)
(* has not run yet, nor which control points hold one.  SlotInv says both. *)
(***************************************************************************)

(* Where an operation owns its slot.                                       *)
OperationHolds(r) ==
    \/ pc[r] \in {"prepared", "admitted", "pruning", "starting", "prestart",
                  "startfail", "running", "cleaned", "finishing"}
    \/ pc[r] = "rolledback" /\ KindOf[r] # "run"

SlotOK(r) ==
    /\ reservation[r] <=> pc[r] \in {"reserved", "sync"}
    /\ capacityRelease[r] <=> OperationHolds(r)
    /\ HoldsSlot(r) \/ pc[r] = "idle" => ~released[r]
    /\ proc[r] = "alive" => pc[r] = "running"

SlotInv == \A r \in Requests : SlotOK(r)

WithinCeilings ==
    /\ globalRunning <= MaxGlobal
    /\ \A s \in Sessions : sessionRunning[s] <= MaxPerSession
    /\ globalBuildCount <= MaxGlobalBuilds

CapacityInv == TypeOK /\ SlotInv /\ CapacityExact /\ WithinCeilings

-----------------------------------------------------------------------------
(* Adding a new element to a finite set of requests counts it once.        *)
LEMMA CardinalityAdd ==
    ASSUME NEW S, S \subseteq Requests, NEW r \in Requests, r \notin S
    PROVE  Cardinality(S \cup {r}) = Cardinality(S) + 1
  BY CardinalityNat, FS_AddElement

(* Taking an element from a set of requests uncounts it once.              *)
LEMMA CardinalityTake ==
    ASSUME NEW S, S \subseteq Requests, NEW r \in S
    PROVE  /\ Cardinality(S \ {r}) = Cardinality(S) - 1
           /\ Cardinality(S) > 0
<1>1. IsFiniteSet(S) /\ Cardinality(S) \in Nat
  BY CardinalityNat
<1>2. Cardinality(S \ {r}) = Cardinality(S) - 1
  BY <1>1, FS_RemoveElement
<1>3. Cardinality(S \ {r}) \in Nat
  BY CardinalityNat
<1>4. QED
  BY <1>1, <1>2, <1>3

(* Slot holders are requests, so their sets are finite.                    *)
LEMMA HoldersSubset ==
    /\ Holders \subseteq Requests
    /\ BuildHolders \subseteq Requests
    /\ \A s : HoldersOf(s) \subseteq Requests
  BY DEF Holders, BuildHolders, HoldersOf

(* reserveCapacityLocked counts the new holder once in every counter.      *)
LEMMA TakeExact ==
    ASSUME TypeOK, CapacityExact, NEW r \in Requests, ~HoldsSlot(r), TakeSlot(r)
    PROVE  CapacityExact'
<1> DEFINE s0 == SessionOf[r]
<1>0. s0 \in Sessions
  BY TypeAssumption
<1>1. Holders' = Holders \cup {r}
  BY DEF TakeSlot, Holders, HoldsSlot, TypeOK, SupervisorTypeOK
<1>2. r \notin Holders
  BY DEF Holders
<1>3. globalRunning' = Cardinality(Holders')
  BY <1>1, <1>2, CardinalityAdd, HoldersSubset DEF TakeSlot, CapacityExact
<1>4. ASSUME NEW s \in Sessions PROVE sessionRunning'[s] = Cardinality(HoldersOf(s)')
  <2>1. CASE s = s0
    <3>1. HoldersOf(s)' = HoldersOf(s) \cup {r}
      BY <1>1, <2>1 DEF HoldersOf
    <3>2. r \notin HoldersOf(s)
      BY <1>2 DEF HoldersOf
    <3>3. sessionRunning'[s] = sessionRunning[s] + 1
      BY <2>1 DEF TakeSlot, TypeOK, SupervisorTypeOK
    <3>4. QED
      BY <3>1, <3>2, <3>3, CardinalityAdd, HoldersSubset DEF CapacityExact
  <2>2. CASE s # s0
    <3>1. HoldersOf(s)' = HoldersOf(s)
      BY <1>1, <2>2 DEF HoldersOf
    <3>2. sessionRunning'[s] = sessionRunning[s]
      BY <2>2 DEF TakeSlot, TypeOK, SupervisorTypeOK
    <3>3. QED
      BY <3>1, <3>2 DEF CapacityExact
  <2>3. QED
    BY <2>1, <2>2
<1>5. globalBuildCount' = Cardinality(BuildHolders')
  <2>1. CASE KindOf[r] = "build"
    <3>1. BuildHolders' = BuildHolders \cup {r}
      BY <1>1, <2>1 DEF BuildHolders
    <3>2. r \notin BuildHolders
      BY <1>2 DEF BuildHolders
    <3>3. QED
      BY <2>1, <3>1, <3>2, CardinalityAdd, HoldersSubset DEF TakeSlot, CapacityExact
  <2>2. CASE KindOf[r] # "build"
    <3>1. BuildHolders' = BuildHolders
      BY <1>1, <2>2 DEF BuildHolders
    <3>2. QED
      BY <2>2, <3>1 DEF TakeSlot, CapacityExact, TypeOK, SupervisorTypeOK
  <2>3. QED
    BY <2>1, <2>2
<1>6. QED
  BY <1>3, <1>4, <1>5 DEF CapacityExact

(* A release closure that runs for the first time, while its holder is     *)
(* forgotten, takes the holder once out of every counter, and the floors   *)
(* of the code never bite.                                                 *)
LEMMA GiveExact ==
    ASSUME TypeOK, CapacityExact, NEW r \in Requests, r \in Holders,
           Holders' = Holders \ {r}, ~released[r], RunRelease(r)
    PROVE  CapacityExact'
<1> DEFINE s0 == SessionOf[r]
<1>0. s0 \in Sessions
  BY TypeAssumption
<1>3. globalRunning' = Cardinality(Holders')
  BY CardinalityTake, HoldersSubset DEF RunRelease, Decrement, CapacityExact
<1>4. ASSUME NEW s \in Sessions PROVE sessionRunning'[s] = Cardinality(HoldersOf(s)')
  <2>1. CASE s = s0
    <3>1. HoldersOf(s)' = HoldersOf(s) \ {r} /\ r \in HoldersOf(s)
      BY <2>1 DEF HoldersOf
    <3>2. sessionRunning'[s] = Decrement(sessionRunning[s])
      BY <2>1 DEF RunRelease, TypeOK, SupervisorTypeOK
    <3>3. sessionRunning[s] = Cardinality(HoldersOf(s))
      BY DEF CapacityExact
    <3>4. QED
      BY <3>1, <3>2, <3>3, CardinalityTake, HoldersSubset DEF Decrement
  <2>2. CASE s # s0
    <3>1. HoldersOf(s)' = HoldersOf(s)
      BY <2>2 DEF HoldersOf
    <3>2. sessionRunning'[s] = sessionRunning[s]
      BY <2>2 DEF RunRelease, TypeOK, SupervisorTypeOK
    <3>3. QED
      BY <3>1, <3>2 DEF CapacityExact
  <2>3. QED
    BY <2>1, <2>2
<1>5. globalBuildCount' = Cardinality(BuildHolders')
  <2>1. CASE KindOf[r] = "build"
    <3>1. BuildHolders' = BuildHolders \ {r} /\ r \in BuildHolders
      BY <2>1 DEF BuildHolders
    <3>2. QED
      BY <2>1, <3>1, CardinalityTake, HoldersSubset
         DEF RunRelease, Decrement, CapacityExact
  <2>2. CASE KindOf[r] # "build"
    <3>1. BuildHolders' = BuildHolders
      BY <2>2 DEF BuildHolders
    <3>2. QED
      BY <2>2, <3>1 DEF RunRelease, CapacityExact
  <2>3. QED
    BY <2>1, <2>2
<1>6. QED
  BY <1>3, <1>4, <1>5 DEF CapacityExact

(* Neither releasing call disturbs the counters of the other holders.      *)
LEMMA ReleaseExact ==
    ASSUME TypeOK, SlotInv, CapacityExact, NEW r \in Requests,
           ReservationRelease(r) \/ OpReleaseCapacity(r)
    PROVE  CapacityExact'
<1>1. SlotOK(r)
  BY DEF SlotInv
<1>2. ~(reservation[r] /\ capacityRelease[r])
  BY <1>1 DEF SlotOK, OperationHolds
<1>3. CASE ReservationRelease(r) /\ reservation[r]
  <2>1. Holders' = Holders \ {r} /\ r \in Holders
    BY <1>2, <1>3 DEF ReservationRelease, Holders, HoldsSlot, TypeOK, SupervisorTypeOK
  <2>2. ~released[r] /\ RunRelease(r)
    BY <1>1, <1>3 DEF SlotOK, HoldsSlot, ReservationRelease
  <2>3. QED
    BY <2>1, <2>2, GiveExact
<1>4. CASE OpReleaseCapacity(r) /\ capacityRelease[r]
  <2>1. Holders' = Holders \ {r} /\ r \in Holders
    BY <1>2, <1>4 DEF OpReleaseCapacity, Holders, HoldsSlot, TypeOK, SupervisorTypeOK
  <2>2. ~released[r] /\ RunRelease(r)
    BY <1>1, <1>4 DEF SlotOK, HoldsSlot, OpReleaseCapacity
  <2>3. QED
    BY <2>1, <2>2, GiveExact
<1>5. CASE ReservationRelease(r) /\ ~reservation[r]
  <2>1. UNCHANGED <<globalRunning, sessionRunning, globalBuildCount>>
        /\ Holders' = Holders
    BY <1>5 DEF ReservationRelease, Holders, HoldsSlot, TypeOK, SupervisorTypeOK
  <2>2. QED
    BY <2>1 DEF CapacityExact, HoldersOf, BuildHolders
<1>6. CASE OpReleaseCapacity(r) /\ ~capacityRelease[r]
  <2>1. UNCHANGED <<globalRunning, sessionRunning, globalBuildCount>>
        /\ Holders' = Holders
    BY <1>6 DEF OpReleaseCapacity, Holders, HoldsSlot, TypeOK, SupervisorTypeOK
  <2>2. QED
    BY <2>1 DEF CapacityExact, HoldersOf, BuildHolders
<1>7. QED
  BY <1>3, <1>4, <1>5, <1>6

(* Moving a slot from the reservation to the operation keeps the holders.  *)
LEMMA KeepExact ==
    ASSUME CapacityExact, Holders' = Holders,
           UNCHANGED <<globalRunning, sessionRunning, globalBuildCount>>
    PROVE  CapacityExact'
  BY DEF CapacityExact, HoldersOf, BuildHolders

(* A release never raises a counter.                                       *)
LEMMA ReleaseCeilings ==
    ASSUME TypeOK, WithinCeilings, NEW r \in Requests,
           ReservationRelease(r) \/ OpReleaseCapacity(r)
    PROVE  WithinCeilings'
<1>1. ASSUME NEW n \in Nat PROVE Decrement(n) \in Nat /\ Decrement(n) <= n
  BY <1>1 DEF Decrement
<1>2. SessionOf[r] \in Sessions
  BY TypeAssumption
<1>3. CASE RunRelease(r)
  <2>1. globalRunning' <= MaxGlobal
    BY <1>1, <1>3, CeilingAssumption
    DEF RunRelease, WithinCeilings, TypeOK, SupervisorTypeOK
  <2>2. globalBuildCount' <= MaxGlobalBuilds
    BY <1>1, <1>3, CeilingAssumption
    DEF RunRelease, WithinCeilings, TypeOK, SupervisorTypeOK
  <2>3. ASSUME NEW s \in Sessions PROVE sessionRunning'[s] <= MaxPerSession
    BY <1>1, <1>2, <1>3, CeilingAssumption
    DEF RunRelease, WithinCeilings, TypeOK, SupervisorTypeOK
  <2>4. QED
    BY <2>1, <2>2, <2>3 DEF WithinCeilings
<1>4. CASE UNCHANGED <<globalRunning, sessionRunning, globalBuildCount>>
  BY <1>4 DEF WithinCeilings
<1>5. QED
  BY <1>3, <1>4 DEF ReservationRelease, OpReleaseCapacity

(* reserveCapacityLocked takes a slot only below every ceiling.            *)
LEMMA TakeCeilings ==
    ASSUME TypeOK, WithinCeilings, NEW r \in Requests, TakeSlot(r),
           CapacityFree(SessionOf[r], KindOf[r] = "build")
    PROVE  WithinCeilings'
<1>1. globalRunning' <= MaxGlobal
  BY CeilingAssumption DEF TakeSlot, CapacityFree, TypeOK, SupervisorTypeOK
<1>2. globalBuildCount' <= MaxGlobalBuilds
  BY CeilingAssumption
  DEF TakeSlot, CapacityFree, WithinCeilings, TypeOK, SupervisorTypeOK
<1>3. ASSUME NEW s \in Sessions PROVE sessionRunning'[s] <= MaxPerSession
  BY CeilingAssumption
  DEF TakeSlot, CapacityFree, WithinCeilings, TypeOK, SupervisorTypeOK
<1>4. QED
  BY <1>1, <1>2, <1>3 DEF WithinCeilings

(* The counters' half of the invariant, action by action.                  *)
LEMMA HandlerCounters ==
    ASSUME CapacityInv, NEW r \in Requests, HandlerStep(r)
    PROVE  CapacityExact' /\ WithinCeilings'
<1> USE DEF CapacityInv
<1>0. SlotOK(r)
  BY DEF SlotInv
<1>1. CASE Reserve(r)
  BY <1>0, <1>1, TakeExact, TakeCeilings
  DEF Reserve, Goto, SlotOK, HoldsSlot, OperationHolds
<1>2. CASE ReserveSync(r)
  <2>1. CapacityFree(SessionOf[r], KindOf[r] = "build")
    BY <1>2 DEF ReserveSync, CapacityFree
  <2>2. ~HoldsSlot(r) /\ TakeSlot(r)
    BY <1>0, <1>2 DEF ReserveSync, Goto, SlotOK, HoldsSlot, OperationHolds
  <2>3. QED
    BY <2>1, <2>2, TakeExact, TakeCeilings
<1>3. CASE ReservationRelease(r) \/ OpReleaseCapacity(r)
  BY <1>3, ReleaseExact, ReleaseCeilings
<1>4. CASE CreateOperation(r) \/ AdmitReserved(r)
  <2>1. Holders' = Holders
    BY <1>4
    DEF CreateOperation, AdmitReserved, Holders, HoldsSlot, TypeOK, SupervisorTypeOK,
       SlotInv, SlotOK, OperationHolds, Goto
  <2>2. UNCHANGED <<globalRunning, sessionRunning, globalBuildCount>>
    BY <1>4 DEF CreateOperation, AdmitReserved
  <2>3. QED
    BY <2>1, <2>2, KeepExact DEF WithinCeilings
<1>5. CASE UNCHANGED capacityVars
  BY <1>5, KeepExact DEF capacityVars, Holders, HoldsSlot, WithinCeilings
<1>6. QED
  BY <1>1, <1>2, <1>3, <1>4, <1>5 DEF HandlerStep, ReserveRefused, SyncReturn,
     PrepareFail, MaterializeFail, AdmitRefused, PruneDecide, PruneRemove,
     StartProcess, StartFails, StartRefused, Rollback, WaitReturns, ReadReason,
     Complete, CloseDone

(* The control half: a handler changes only its own slot and its own pc.   *)
LEMMA HandlerSlots ==
    ASSUME TypeOK, SlotInv, NEW r \in Requests, HandlerStep(r)
    PROVE  SlotInv'
<1> SUFFICES ASSUME NEW q \in Requests PROVE SlotOK(q)'
  BY DEF SlotInv
<1>0. SlotOK(q)
  BY DEF SlotInv
<1> USE DEF TypeOK, SupervisorTypeOK, OperationTypeOK, ThreadTypeOK,
        SlotOK, OperationHolds, HoldsSlot, Goto, capacityVars, procVars
<1>1. CASE Reserve(r)
  BY <1>0, <1>1 DEF Reserve, TakeSlot
<1>2. CASE ReserveSync(r)
  BY <1>0, <1>2 DEF ReserveSync, TakeSlot
<1>3. CASE ReserveRefused(r)
  BY <1>0, <1>3 DEF ReserveRefused
<1>4. CASE SyncReturn(r)
  BY <1>0, <1>4 DEF SyncReturn, ReservationRelease, RunRelease
<1>5. CASE PrepareFail(r)
  BY <1>0, <1>5 DEF PrepareFail, ReservationRelease, RunRelease
<1>6. CASE CreateOperation(r)
  BY <1>0, <1>6 DEF CreateOperation
<1>7. CASE MaterializeFail(r)
  BY <1>0, <1>7 DEF MaterializeFail, OpReleaseCapacity, RunRelease
<1>8. CASE AdmitReserved(r)
  BY <1>0, <1>8 DEF AdmitReserved
<1>9. CASE AdmitRefused(r)
  BY <1>0, <1>9 DEF AdmitRefused, OpReleaseCapacity, RunRelease
<1>10. CASE PruneDecide(r)
  BY <1>0, <1>10 DEF PruneDecide
<1>11. CASE PruneRemove(r)
  BY <1>0, <1>11 DEF PruneRemove
<1>12. CASE StartProcess(r)
  BY <1>0, <1>12 DEF StartProcess
<1>13. CASE StartFails(r)
  BY <1>0, <1>13 DEF StartFails
<1>14. CASE StartRefused(r)
  BY <1>0, <1>14 DEF StartRefused
<1>15. CASE Rollback(r)
  BY <1>0, <1>15 DEF Rollback, OpReleaseCapacity, RunRelease
<1>16. CASE WaitReturns(r)
  BY <1>0, <1>16 DEF WaitReturns
<1>17. CASE ReadReason(r)
  BY <1>0, <1>17 DEF ReadReason
<1>18. CASE Complete(r)
  BY <1>0, <1>18 DEF Complete, OpReleaseCapacity, RunRelease
<1>19. CASE CloseDone(r)
  BY <1>0, <1>19 DEF CloseDone
<1>20. QED
  BY <1>1, <1>2, <1>3, <1>4, <1>5, <1>6, <1>7, <1>8, <1>9, <1>10, <1>11,
     <1>12, <1>13, <1>14, <1>15, <1>16, <1>17, <1>18, <1>19 DEF HandlerStep

(* Terminators, pollers, clients and the docker process itself leave       *)
(* capacity and the handlers' control alone.                               *)
LEMMA OthersKeepCapacity ==
    ASSUME TypeOK, OtherStep \/ \E t \in Terminators : TerminatorStep(t)
    PROVE  /\ UNCHANGED <<capacityVars, pc>>
           /\ \A r \in Requests : proc'[r] = "alive" => proc[r] = "alive"
  BY DEF OtherStep, TerminatorStep, CancellerStep, ProcessExit, PollDecide,
     PollRemove, CancelLookup, CancelBegin, CancelRespond, BeginShutdown,
     ShutdownSnapshot, SetQuiesced, Mark, GraceDone, ForceClaim, ForceKill,
     FollowerReturns, GraceExpires, TerminateReturns, vars, procVars,
     TypeOK, OperationTypeOK

(* The inductive invariant holds in every reachable state.                 *)
THEOREM CapacityInductive == Spec => []CapacityInv
<1>1. Init => CapacityInv
  <2> SUFFICES ASSUME Init PROVE CapacityInv
    OBVIOUS
  <2>1. SlotInv
    BY DEF Init, SlotInv, SlotOK, HoldsSlot, OperationHolds
  <2>2. Holders = {}
    BY DEF Init, Holders, HoldsSlot
  <2>3. CapacityExact
    BY <2>2, FS_EmptySet DEF Init, CapacityExact, HoldersOf, BuildHolders
  <2>4. WithinCeilings
    BY CeilingAssumption DEF Init, WithinCeilings
  <2>5. QED
    BY <2>1, <2>3, <2>4, InitType DEF CapacityInv
<1>2. CapacityInv /\ [Next]_vars => CapacityInv'
  <2> SUFFICES ASSUME CapacityInv, [Next]_vars PROVE CapacityInv'
    OBVIOUS
  <2>1. TypeOK'
    BY NextSplit, HandlerType, TerminatorType, OtherType DEF CapacityInv
  <2>2. CASE \E r \in Requests : HandlerStep(r)
    BY <2>1, <2>2, HandlerCounters, HandlerSlots DEF CapacityInv
  <2>3. CASE OtherStep \/ \E t \in Terminators : TerminatorStep(t)
    <3>1. /\ UNCHANGED <<capacityVars, pc>>
          /\ \A r \in Requests : proc'[r] = "alive" => proc[r] = "alive"
      BY <2>3, OthersKeepCapacity DEF CapacityInv
    <3>2. SlotInv'
      BY <3>1 DEF CapacityInv, SlotInv, SlotOK, HoldsSlot, OperationHolds, capacityVars
    <3>3. CapacityExact' /\ WithinCeilings'
      BY <3>1, KeepExact DEF CapacityInv, capacityVars, Holders, HoldsSlot, WithinCeilings
    <3>4. QED
      BY <2>1, <3>2, <3>3 DEF CapacityInv
  <2>4. QED
    BY <2>2, <2>3, NextSplit
<1>3. QED
  BY <1>1, <1>2, PTL DEF Spec

(* The release closures fire exactly once per slot: the three counters     *)
(* equal the number of holders in every reachable state.                   *)
THEOREM CapacityIsExact == Spec => []CapacityExact
<1>1. CapacityInv => CapacityExact
  BY DEF CapacityInv
<1>2. QED
  BY <1>1, CapacityInductive, PTL

(* No refused request and no finished operation keeps a slot.              *)
THEOREM SlotsAreReturned == Spec => []NoSlotLeak
<1>1. CapacityInv => NoSlotLeak
  BY DEF CapacityInv, SlotInv, SlotOK, NoSlotLeak, HoldsSlot, OperationHolds
<1>2. QED
  BY <1>1, CapacityInductive, PTL

(* The docker processes that exist never exceed the documented ceilings.   *)
THEOREM CeilingsHold == Spec => []DockerWithinCeilings
<1>1. CapacityInv => DockerWithinCeilings
  <2> SUFFICES ASSUME CapacityInv PROVE DockerWithinCeilings
    OBVIOUS
  <2> USE DEF CapacityInv
  <2>1. Executing \subseteq Holders
    BY DEF Executing, Holders, HoldsSlot, SlotInv, SlotOK, OperationHolds
  <2>2. ASSUME NEW S, NEW T, S \subseteq T, T \subseteq Requests
        PROVE  /\ Cardinality(S) \in Nat /\ Cardinality(T) \in Nat
               /\ Cardinality(S) <= Cardinality(T)
    <3>1. IsFiniteSet(T) /\ IsFiniteSet(S)
      BY <2>2, CardinalityNat
    <3>2. QED
      BY <2>2, <3>1, FS_Subset, FS_CardinalityType
  <2>3. Cardinality(Executing) <= MaxGlobal
    <3>1. Cardinality(Executing) <= Cardinality(Holders)
      BY <2>1, <2>2, HoldersSubset
    <3>2. QED
      BY <2>1, <2>2, <3>1, HoldersSubset, CeilingAssumption
      DEF CapacityExact, WithinCeilings
  <2>4. ASSUME NEW s \in Sessions
        PROVE  Cardinality({r \in Executing : SessionOf[r] = s}) <= MaxPerSession
    <3>1. {r \in Executing : SessionOf[r] = s} \subseteq HoldersOf(s)
      BY <2>1 DEF HoldersOf
    <3>2. HoldersOf(s) \subseteq Requests
      BY HoldersSubset
    <3>3. QED
      BY <2>2, <3>1, <3>2, CeilingAssumption DEF CapacityExact, WithinCeilings
  <2>5. Cardinality({r \in Executing : KindOf[r] = "build"}) <= MaxGlobalBuilds
    <3>1. {r \in Executing : KindOf[r] = "build"} \subseteq BuildHolders
      BY <2>1 DEF BuildHolders
    <3>2. QED
      BY <2>2, <3>1, HoldersSubset, CeilingAssumption DEF CapacityExact, WithinCeilings
  <2>6. QED
    BY <2>3, <2>4, <2>5 DEF DockerWithinCeilings
<1>2. QED
  BY <1>1, CapacityInductive, PTL

-----------------------------------------------------------------------------
(***************************************************************************)
(* Cancel, shutdown, pruning and process start never lose sight of a live  *)
(* docker process, for every number of requests, cancelling threads and    *)
(* pollers.  The argument is one inductive invariant, TerminationInv.      *)
(***************************************************************************)

(* Control points at which the operation must be in s.ops.                 *)
Registered == {"admitted", "pruning", "starting", "prestart", "startfail",
               "rolledback", "running", "cleaned", "finishing"}
Unstarted(r) == pc[r] \in {"admitted", "pruning", "starting"}

(* The life of one operation.                                              *)
LifeOK(r) ==
    /\ completedAt[r] # 0 => pc[r] \in {"completed", "terminal"}
    /\ pc[r] = "completed" \/ done[r] => completedAt[r] # 0
    /\ pc[r] \in Registered => r \in ops
    /\ started[r] => pc[r] \in {"running", "cleaned", "finishing", "completed",
                                "terminal"}
    /\ proc[r] = "alive" => pc[r] = "running"

(* A prune, however stale its decision, removes completed operations only. *)
PruneOK == \A p \in Pruners : toRemove[p] \subseteq Completed

(* A cancelling thread deals with one operation, which only completion     *)
(* can take out of s.ops.                                                  *)
CancelOK(t) ==
    /\ tpc[t] = "idle" => \A o \in Requests : tst[t][o] = "out"
    /\ \A o, q \in Requests : tst[t][o] # "out" /\ tst[t][q] # "out" => o = q
    /\ \A o \in Requests : tst[t][o] # "out" => o \in ops \cup Completed
    /\ \A o \in Requests : tpc[t] = "done" /\ tst[t][o] # "out" =>
          response[t] # "none" /\ completedAt[o] # 0

(* The recorded reason is stable once it is set.                           *)
ReasonOK(o) ==
    /\ reason[o] = "cancelled" => \E t \in Cancellers : tst[t][o] # "out"
    /\ wasCancelled[o] \/ resultCode[o] = "cancelled" => reason[o] = "cancelled"

(* Once the shutdown snapshot is taken, whatever may still start or is     *)
(* running is either on the list of terminateOperations or already dealt   *)
(* with under op.mu.                                                       *)
ShutdownOK ==
    /\ tpc[Shutdown] \in {"idle", "begun", "terminating", "done"}
    /\ tpc[Shutdown] # "idle" => shutting
    /\ tpc[Shutdown] \in {"terminating", "done"} =>
          \A r \in Requests :
              /\ Unstarted(r) => tst[Shutdown][r] = "todo" \/ terminated[r]
              /\ proc[r] = "alive" =>
                    tst[Shutdown][r] = "todo" \/ "TERM" \in signals[r]
    /\ tpc[Shutdown] = "done" => \A r \in Requests : tst[Shutdown][r] # "todo"

TerminationInv ==
    /\ TypeOK
    /\ \A r \in Requests : LifeOK(r) /\ ReasonOK(r)
    /\ PruneOK
    /\ \A t \in Cancellers : CancelOK(t)
    /\ ShutdownOK

-----------------------------------------------------------------------------
(* pruneCompleted only ever selects completed, registered operations.      *)
LEMMA PrunableCompleted ==
    ASSUME NEW c PROVE Prunable(c) \subseteq Completed
  BY DEF Prunable, Completed

(* A completion time is never the nil pointer.                             *)
LEMMA CompletionTime == Cardinality(Completed) + 1 \in Nat \ {0}
<1>1. Cardinality(Completed) \in Nat
  BY CardinalityNat DEF Completed
<1>2. QED
  BY <1>1

(* Handlers do not touch the terminators' state.                           *)
LEMMA HandlerFrame ==
    ASSUME NEW r \in Requests, HandlerStep(r)
    PROVE  UNCHANGED <<shutting, tpc, tst, response, terminated, reason,
                       forceOwned, forceDone, signals>>
  BY DEF HandlerStep, Reserve, ReserveSync, ReserveRefused, SyncReturn,
     PrepareFail, CreateOperation, MaterializeFail, AdmitReserved, AdmitRefused,
     PruneDecide, PruneRemove, StartProcess, StartFails, StartRefused, Rollback,
     WaitReturns, ReadReason, Complete, CloseDone, opVars, procVars, termVars

(* Completion is permanent, and only completed operations leave s.ops.     *)
LEMMA HandlerMonotone ==
    ASSUME TypeOK, PruneOK, NEW r \in Requests, HandlerStep(r)
    PROVE  Completed \subseteq Completed' /\ ops \subseteq ops' \cup Completed'
<1>1. CASE Complete(r)
  BY <1>1, CompletionTime DEF Complete, Completed, TypeOK, OperationTypeOK
<1>2. CASE PruneRemove(r)
  <2>1. toRemove[r] \subseteq Completed
    BY DEF PruneOK
  <2>2. Completed' = Completed
    BY <1>2 DEF PruneRemove, Completed, opVars
  <2>3. QED
    BY <1>2, <2>1, <2>2 DEF PruneRemove
<1>3. CASE UNCHANGED completedAt /\ ops \subseteq ops'
  BY <1>3 DEF Completed
<1>4. QED
  BY <1>1, <1>2, <1>3 DEF HandlerStep, Reserve, ReserveSync, ReserveRefused,
     SyncReturn, PrepareFail, CreateOperation, MaterializeFail, AdmitReserved,
     AdmitRefused, PruneDecide, StartProcess, StartFails, StartRefused,
     Rollback, WaitReturns, ReadReason, CloseDone, opVars

(* Handler steps preserve the life-cycle facts of an operation.            *)
LEMMA HandlerLife ==
    ASSUME TerminationInv, NEW r \in Requests, HandlerStep(r),
           NEW q \in Requests
    PROVE  LifeOK(q)'
<1>0. LifeOK(q) /\ TypeOK
  BY DEF TerminationInv
<1> USE <1>0 DEF TypeOK, SupervisorTypeOK, OperationTypeOK, ThreadTypeOK,
        LifeOK, Registered, Unstarted, Goto, opVars, procVars
<1>1. CASE Reserve(r)
  BY <1>1 DEF Reserve
<1>1a. CASE ReserveSync(r)
  BY <1>1a DEF ReserveSync
<1>1b. CASE ReserveRefused(r)
  BY <1>1b DEF ReserveRefused
<1>2. CASE SyncReturn(r) \/ PrepareFail(r) \/ CreateOperation(r)
  BY <1>2 DEF SyncReturn, PrepareFail, CreateOperation
<1>3. CASE MaterializeFail(r) \/ AdmitRefused(r)
  BY <1>3 DEF MaterializeFail, AdmitRefused
<1>4. CASE AdmitReserved(r)
  BY <1>4 DEF AdmitReserved
<1>5. CASE PruneDecide(r)
  BY <1>5 DEF PruneDecide
<1>6. CASE PruneRemove(r)
  <2>1. q \in toRemove[r] => completedAt[q] # 0
    BY DEF TerminationInv, PruneOK, Completed
  <2>2. QED
    BY <1>6, <2>1 DEF PruneRemove
<1>7. CASE StartProcess(r)
  BY <1>7 DEF StartProcess
<1>8. CASE StartFails(r) \/ StartRefused(r) \/ Rollback(r)
  BY <1>8 DEF StartFails, StartRefused, Rollback
<1>9. CASE WaitReturns(r) \/ ReadReason(r)
  BY <1>9 DEF WaitReturns, ReadReason
<1>10. CASE Complete(r)
  BY <1>10, CompletionTime DEF Complete
<1>11. CASE CloseDone(r)
  BY <1>11 DEF CloseDone
<1>12. QED
  BY <1>1, <1>1a, <1>1b, <1>2, <1>3, <1>4, <1>5, <1>6, <1>7, <1>8, <1>9, <1>10, <1>11
     DEF HandlerStep

(* Handler steps preserve the prune, cancel and shutdown facts.            *)
LEMMA HandlerKeeps ==
    ASSUME TerminationInv, NEW r \in Requests, HandlerStep(r)
    PROVE  TerminationInv'
<1>1. TypeOK /\ PruneOK /\ TypeOK'
  BY HandlerType DEF TerminationInv
<1>2. UNCHANGED <<shutting, tpc, tst, response, terminated, reason, signals>>
  BY HandlerFrame
<1>3. Completed \subseteq Completed' /\ ops \subseteq ops' \cup Completed'
  BY <1>1, HandlerMonotone
<1>4. ASSUME NEW q \in Requests PROVE ReasonOK(q)'
  <2>1. ReasonOK(q)
    BY DEF TerminationInv
  <2>2. wasCancelled'[q] => wasCancelled[q] \/ reason[q] = "cancelled"
    BY <1>1 DEF HandlerStep, Reserve, ReserveSync, ReserveRefused, SyncReturn,
       PrepareFail, CreateOperation, MaterializeFail, AdmitReserved, AdmitRefused,
       PruneDecide, PruneRemove, StartProcess, StartFails, StartRefused, Rollback,
       WaitReturns, ReadReason, Complete, CloseDone, TypeOK, ThreadTypeOK
  <2>3. resultCode'[q] = "cancelled" => resultCode[q] = "cancelled" \/ wasCancelled[q]
    <3>1. CASE Complete(r)
      BY <1>1, <3>1 DEF Complete, TypeOK, OperationTypeOK
    <3>2. CASE UNCHANGED resultCode
      BY <3>2
    <3>3. QED
      BY <3>1, <3>2 DEF HandlerStep, Reserve, ReserveSync, ReserveRefused,
         SyncReturn, PrepareFail, CreateOperation, MaterializeFail, AdmitReserved,
         AdmitRefused, PruneDecide, PruneRemove, StartProcess, StartFails,
         StartRefused, Rollback, WaitReturns, ReadReason, CloseDone, opVars
  <2>4. QED
    BY <1>2, <2>1, <2>2, <2>3 DEF ReasonOK
<1>5. PruneOK'
  <2>1. CASE PruneDecide(r)
    BY <1>1, <1>3, <2>1, PrunableCompleted DEF PruneDecide, PruneOK, TypeOK, ThreadTypeOK
  <2>2. CASE PruneRemove(r)
    BY <1>1, <1>3, <2>2 DEF PruneRemove, PruneOK, TypeOK, ThreadTypeOK
  <2>3. CASE UNCHANGED toRemove
    BY <1>1, <1>3, <2>3 DEF PruneOK
  <2>4. QED
    BY <2>1, <2>2, <2>3 DEF HandlerStep, Reserve, ReserveSync, ReserveRefused,
       SyncReturn, PrepareFail, CreateOperation, MaterializeFail, AdmitReserved,
       AdmitRefused, StartProcess, StartFails, StartRefused, Rollback,
       WaitReturns, ReadReason, Complete, CloseDone
<1>6. ASSUME NEW t \in Cancellers PROVE CancelOK(t)'
  <2>1. CancelOK(t)
    BY DEF TerminationInv
  <2>2. \A o \in Requests : completedAt[o] # 0 => completedAt'[o] # 0
    BY <1>3 DEF Completed
  <2>3. QED
    BY <1>2, <1>3, <2>1, <2>2 DEF CancelOK
<1>7. ShutdownOK'
  <2>1. ASSUME NEW q \in Requests, Unstarted(q)', ~Unstarted(q)
        PROVE  tpc[Shutdown] = "idle"
    <3> USE <1>1, <2>1 DEF Unstarted, Goto, TypeOK, ThreadTypeOK
    <3>1. CASE AdmitReserved(r)
      BY <3>1 DEF AdmitReserved, AdmissionOpen, TerminationInv, ShutdownOK
    <3>2. CASE PruneDecide(r) \/ PruneRemove(r)
      BY <3>2 DEF PruneDecide, PruneRemove
    <3>3. CASE Reserve(r) \/ ReserveSync(r) \/ ReserveRefused(r) \/ SyncReturn(r)
      BY <3>3 DEF Reserve, ReserveSync, ReserveRefused, SyncReturn
    <3>4. CASE PrepareFail(r) \/ CreateOperation(r) \/ MaterializeFail(r)
               \/ AdmitRefused(r)
      BY <3>4 DEF PrepareFail, CreateOperation, MaterializeFail, AdmitRefused
    <3>5. CASE StartProcess(r) \/ StartFails(r) \/ StartRefused(r) \/ Rollback(r)
      BY <3>5 DEF StartProcess, StartFails, StartRefused, Rollback
    <3>6. CASE WaitReturns(r) \/ ReadReason(r) \/ Complete(r) \/ CloseDone(r)
      BY <3>6 DEF WaitReturns, ReadReason, Complete, CloseDone
    <3>7. QED
      BY <3>1, <3>2, <3>3, <3>4, <3>5, <3>6 DEF HandlerStep
  <2>2. ASSUME NEW q \in Requests, proc'[q] = "alive", proc[q] # "alive"
        PROVE  Unstarted(q) /\ ~terminated[q]
    <3>1. CASE StartProcess(r)
      BY <1>1, <2>2, <3>1 DEF StartProcess, Goto, Unstarted, TypeOK, OperationTypeOK
    <3>2. CASE UNCHANGED proc
      BY <2>2, <3>2
    <3>3. QED
      BY <3>1, <3>2 DEF HandlerStep, Reserve, ReserveSync, ReserveRefused,
         SyncReturn, PrepareFail, CreateOperation, MaterializeFail,
         AdmitReserved, AdmitRefused, PruneDecide, PruneRemove, StartFails,
         StartRefused, Rollback, WaitReturns, ReadReason, Complete, CloseDone,
         procVars
  <2>3. QED
    BY <1>2, <2>1, <2>2 DEF TerminationInv, ShutdownOK
<1>8. QED
  BY <1>1, <1>4, <1>5, <1>6, <1>7, HandlerLife DEF TerminationInv

-----------------------------------------------------------------------------
(* terminateOperations never touches the registry, the handlers' control   *)
(* or the result of an operation, and never forgets what it works on.      *)
LEMMA TerminatorFrame ==
    ASSUME TypeOK, NEW t \in Terminators, TerminatorStep(t)
    PROVE  /\ UNCHANGED <<ops, shutting, toRemove, completedAt, resultCode,
                          started, done, proc, pc, wasCancelled, response>>
           /\ \A u \in Terminators, o \in Requests :
                 tst'[u][o] = "out" <=> tst[u][o] = "out"
<1> USE DEF TypeOK, ThreadTypeOK, capacityVars, opVars, procVars, termVars
<1>1. ASSUME NEW o \in Requests,
             Mark(t, o) \/ GraceDone(t, o) \/ ForceClaim(t, o)
             \/ ForceKill(t, o) \/ FollowerReturns(t, o)
      PROVE  /\ UNCHANGED <<ops, shutting, toRemove, completedAt, resultCode,
                            started, done, proc, pc, wasCancelled, response, quiesced>>
             /\ tst[t][o] # "out"
             /\ \E x : x # "out" /\ tst' = [tst EXCEPT ![t][o] = x]
  BY <1>1 DEF Mark, GraceDone, ForceClaim, ForceKill, FollowerReturns
<1>2. CASE \E o \in Requests :
             Mark(t, o) \/ GraceDone(t, o) \/ ForceClaim(t, o)
             \/ ForceKill(t, o) \/ FollowerReturns(t, o)
  BY <1>1, <1>2
<1>3. CASE GraceExpires(t)
  BY <1>3 DEF GraceExpires
<1>4. CASE TerminateReturns(t)
  BY <1>4 DEF TerminateReturns
<1>5. QED
  BY <1>2, <1>3, <1>4 DEF TerminatorStep

(* terminateOperations keeps the first termination reason.                 *)
LEMMA TerminatorReason ==
    ASSUME TerminationInv, NEW t \in Terminators, TerminatorStep(t),
           NEW q \in Requests
    PROVE  ReasonOK(q)'
<1>1. ReasonOK(q) /\ TypeOK
  BY DEF TerminationInv
<1>2. UNCHANGED <<wasCancelled, resultCode>>
  BY <1>1, TerminatorFrame
<1>3. \A u \in Cancellers : tst'[u][q] = "out" <=> tst[u][q] = "out"
  BY <1>1, TerminatorFrame
<1>4. ASSUME NEW o \in Requests, Mark(t, o) PROVE ReasonOK(q)'
  <2>1. reason[q] = "cancelled" => reason'[q] = "cancelled"
    BY <1>1, <1>4 DEF Mark, TypeOK, OperationTypeOK
  <2>2. reason'[q] = "cancelled" =>
           \/ reason[q] = "cancelled"
           \/ t \in Cancellers /\ tst[t][q] # "out"
    BY <1>1, <1>4 DEF Mark, ReasonOf, TypeOK, OperationTypeOK
  <2>3. QED
    BY <1>1, <1>2, <1>3, <2>1, <2>2 DEF ReasonOK
<1>5. CASE UNCHANGED reason
  BY <1>1, <1>2, <1>3, <1>5 DEF ReasonOK
<1>6. QED
  BY <1>4, <1>5 DEF TerminatorStep, GraceDone, ForceClaim, ForceKill,
     FollowerReturns, GraceExpires, TerminateReturns, opVars

(* terminateOperations preserves the shutdown facts.                       *)
LEMMA TerminatorShutdown ==
    ASSUME TerminationInv, NEW t \in Terminators, TerminatorStep(t)
    PROVE  ShutdownOK'
<1>1. TypeOK /\ ShutdownOK /\ \A r \in Requests : LifeOK(r)
  BY DEF TerminationInv
<1>2. UNCHANGED <<shutting, pc, proc, started>>
  BY <1>1, TerminatorFrame
<1>3. ASSUME NEW o \in Requests, Mark(t, o) PROVE ShutdownOK'
  <2>1. tpc' = tpc
    BY <1>3 DEF Mark
  <2>2. ASSUME NEW r \in Requests
        PROVE  /\ terminated[r] => terminated'[r]
               /\ "TERM" \in signals[r] => "TERM" \in signals'[r]
    BY <1>1, <1>3 DEF Mark, TypeOK, OperationTypeOK
  <2>3. ASSUME NEW r \in Requests, tst[Shutdown][r] = "todo", tst'[Shutdown][r] # "todo"
        PROVE  /\ Unstarted(r) => terminated'[r]
               /\ proc[r] = "alive" => "TERM" \in signals'[r]
    <3>1. t = Shutdown /\ o = r
      BY <1>1, <1>3, <2>3 DEF Mark, TypeOK, ThreadTypeOK
    <3>2. Unstarted(r) => ~started[r]
      BY <1>1 DEF LifeOK, Unstarted
    <3>3. QED
      BY <1>1, <1>3, <3>1, <3>2 DEF Mark, TypeOK, OperationTypeOK
  <2>4. \A r \in Requests : tst'[Shutdown][r] = "todo" => tst[Shutdown][r] = "todo"
    BY <1>1, <1>3 DEF Mark, TypeOK, ThreadTypeOK
  <2>5. QED
    BY <1>1, <1>2, <2>1, <2>2, <2>3, <2>4 DEF ShutdownOK, Unstarted
<1>4. CASE ~\E o \in Requests : Mark(t, o)
  <2>1. \A r \in Requests : tst'[Shutdown][r] = "todo" <=> tst[Shutdown][r] = "todo"
    <3>1. ASSUME NEW o \in Requests,
                 GraceDone(t, o) \/ ForceClaim(t, o)
                 \/ ForceKill(t, o) \/ FollowerReturns(t, o)
          PROVE  tst[t][o] # "todo"
                 /\ \E x : x # "todo" /\ tst' = [tst EXCEPT ![t][o] = x]
      BY <3>1 DEF GraceDone, ForceClaim, ForceKill, FollowerReturns
    <3>2. CASE \E o \in Requests :
                 GraceDone(t, o) \/ ForceClaim(t, o)
                 \/ ForceKill(t, o) \/ FollowerReturns(t, o)
      BY <1>1, <3>1, <3>2 DEF TypeOK, ThreadTypeOK
    <3>3. CASE GraceExpires(t)
      BY <1>1, <3>3 DEF GraceExpires, TypeOK, ThreadTypeOK
    <3>4. CASE TerminateReturns(t)
      BY <3>4 DEF TerminateReturns
    <3>5. QED
      BY <1>4, <3>2, <3>3, <3>4 DEF TerminatorStep
  <2>2. terminated' = terminated
    BY <1>4 DEF TerminatorStep, GraceDone, ForceClaim, ForceKill,
       FollowerReturns, GraceExpires, TerminateReturns, opVars
  <2>3. \A r \in Requests : "TERM" \in signals[r] => "TERM" \in signals'[r]
    <3>1. ASSUME NEW o \in Requests, ForceKill(t, o)
          PROVE  \A r \in Requests : "TERM" \in signals[r] => "TERM" \in signals'[r]
      BY <1>1, <3>1 DEF ForceKill, TypeOK, OperationTypeOK
    <3>2. CASE UNCHANGED signals
      BY <3>2
    <3>3. QED
      BY <1>4, <3>1, <3>2 DEF TerminatorStep, GraceDone, ForceClaim,
         FollowerReturns, GraceExpires, TerminateReturns, procVars
  <2>4. CASE TerminateReturns(t)
    <3>1. /\ tpc'[Shutdown] = tpc[Shutdown] \/ tpc'[Shutdown] = "done"
          /\ tpc'[Shutdown] # tpc[Shutdown] =>
                tpc[Shutdown] = "terminating"
                /\ \A r \in Requests : tst[Shutdown][r] # "todo"
      BY <1>1, <2>4 DEF TerminateReturns, TypeOK, ThreadTypeOK
    <3>2. QED
      BY <1>1, <1>2, <2>1, <2>2, <2>3, <3>1 DEF ShutdownOK, Unstarted
  <2>5. CASE UNCHANGED tpc
    BY <1>1, <1>2, <2>1, <2>2, <2>3, <2>5 DEF ShutdownOK, Unstarted
  <2>6. QED
    BY <1>4, <2>4, <2>5 DEF TerminatorStep, GraceDone, ForceClaim, ForceKill,
       FollowerReturns, GraceExpires
<1>5. QED
  BY <1>3, <1>4

(* terminateOperations preserves the prune and cancel facts.               *)
LEMMA TerminatorKeeps ==
    ASSUME TerminationInv, NEW t \in Terminators, TerminatorStep(t)
    PROVE  TerminationInv'
<1>1. TypeOK /\ TypeOK'
  BY TerminatorType DEF TerminationInv
<1>2. /\ UNCHANGED <<ops, shutting, toRemove, completedAt, resultCode,
                     started, done, proc, pc, wasCancelled, response>>
      /\ \A u \in Terminators, o \in Requests :
            tst'[u][o] = "out" <=> tst[u][o] = "out"
  BY <1>1, TerminatorFrame
<1>3. ASSUME NEW r \in Requests PROVE LifeOK(r)'
  BY <1>2 DEF TerminationInv, LifeOK
<1>4. PruneOK'
  BY <1>2 DEF TerminationInv, PruneOK, Completed
<1>5. ASSUME NEW u \in Cancellers PROVE CancelOK(u)'
  <2>1. tpc'[u] = tpc[u] \/ tpc'[u] = "opwait"
    <3>1. CASE TerminateReturns(t)
      BY <1>1, <3>1, TypeAssumption DEF TerminateReturns, TypeOK, ThreadTypeOK
    <3>2. CASE UNCHANGED tpc
      BY <3>2
    <3>3. QED
      BY <3>1, <3>2 DEF TerminatorStep, Mark, GraceDone, ForceClaim, ForceKill,
         FollowerReturns, GraceExpires
  <2>2. CancelOK(u)
    BY DEF TerminationInv
  <2>3. Completed' = Completed
    BY <1>2 DEF Completed
  <2>4. QED
    BY <1>2, <2>1, <2>2, <2>3 DEF CancelOK
<1>6. QED
  BY <1>1, <1>3, <1>4, <1>5, TerminatorReason, TerminatorShutdown DEF TerminationInv

-----------------------------------------------------------------------------
(* Pollers prune on behalf of any client.                                  *)
LEMMA PollKeeps ==
    ASSUME TerminationInv, NEW p \in Pollers, PollDecide(p) \/ PollRemove(p)
    PROVE  TerminationInv'
<1>1. TypeOK /\ TypeOK' /\ PruneOK /\ ShutdownOK
  BY OtherType DEF TerminationInv, OtherStep
<1>2. UNCHANGED <<shutting, opVars, procVars, pc, wasCancelled, termVars>>
  BY DEF PollDecide, PollRemove
<1>3. Completed' = Completed
  BY <1>2 DEF opVars, Completed
<1>4. toRemove[p] \subseteq Completed
  BY <1>1 DEF PruneOK
<1>5. ops \subseteq ops' \cup Completed
  BY <1>4 DEF PollDecide, PollRemove
<1>6. ASSUME NEW r \in Requests PROVE LifeOK(r)' /\ ReasonOK(r)'
  <2>1. LifeOK(r) /\ ReasonOK(r)
    BY DEF TerminationInv
  <2>2. r \in Completed <=> completedAt[r] # 0
    BY DEF Completed
  <2>3. pc[r] \in Registered /\ r \in ops => r \in ops'
    BY <1>5, <2>1, <2>2 DEF LifeOK, Registered
  <2>4. LifeOK(r)'
    BY <1>2, <2>1, <2>3 DEF LifeOK, opVars, procVars
  <2>5. QED
    BY <1>2, <2>1, <2>4 DEF ReasonOK, opVars, termVars
<1>7. PruneOK'
  BY <1>1, <1>3, PrunableCompleted
  DEF PollDecide, PollRemove, PruneOK, TypeOK, ThreadTypeOK
<1>8. ASSUME NEW t \in Cancellers PROVE CancelOK(t)'
  <2>1. CancelOK(t)
    BY DEF TerminationInv
  <2>2. QED
    BY <1>2, <1>3, <1>5, <2>1 DEF CancelOK, opVars, termVars
<1>9. ShutdownOK'
  BY <1>1, <1>2 DEF ShutdownOK, Unstarted, opVars, procVars, termVars
<1>10. QED
  BY <1>1, <1>6, <1>7, <1>8, <1>9 DEF TerminationInv

(* The steps of POST .../cancel outside terminateOperations.               *)
LEMMA CancelKeeps ==
    ASSUME TerminationInv, NEW t \in Cancellers, NEW o \in Requests,
           CancelLookup(t, o) \/ CancelBegin(t, o) \/ CancelRespond(t, o)
    PROVE  TerminationInv'
<1>1. TypeOK /\ TypeOK' /\ PruneOK /\ ShutdownOK /\ CancelOK(t)
  BY OtherType DEF TerminationInv, OtherStep, CancellerStep
<1>2. UNCHANGED <<ops, shutting, opVars, procVars, pc, wasCancelled, toRemove>>
  BY DEF CancelLookup, CancelBegin, CancelRespond
<1>3. Completed' = Completed
  BY <1>2 DEF opVars, Completed
<1>4. \A u \in Terminators, q \in Requests : tst[u][q] # "out" => tst'[u][q] # "out"
  BY <1>1 DEF CancelLookup, CancelBegin, CancelRespond, TypeOK, ThreadTypeOK
<1>5. \A u \in Terminators : u # t =>
         tst'[u] = tst[u] /\ tpc'[u] = tpc[u] /\ response'[u] = response[u]
  BY <1>1 DEF CancelLookup, CancelBegin, CancelRespond, TypeOK, ThreadTypeOK
<1>6. ASSUME NEW r \in Requests PROVE LifeOK(r)' /\ ReasonOK(r)'
  <2>1. LifeOK(r) /\ ReasonOK(r)
    BY DEF TerminationInv
  <2>2. LifeOK(r)'
    BY <1>2, <2>1 DEF LifeOK, opVars, procVars
  <2>3. QED
    BY <1>2, <1>4, <2>1, <2>2 DEF ReasonOK, opVars
<1>7. PruneOK'
  BY <1>1, <1>2, <1>3 DEF PruneOK
<1>8. ShutdownOK'
  BY <1>1, <1>2, <1>5, TypeAssumption DEF ShutdownOK, Unstarted, opVars, procVars
<1>9. CancelOK(t)'
  <2> USE <1>1, <1>2, <1>3 DEF TypeOK, ThreadTypeOK
  <2>0. \A q \in Requests : q \in Completed <=> completedAt[q] # 0
    BY DEF Completed
  <2>00. completedAt' = completedAt /\ done' = done
    BY DEF opVars
  <2>1. CASE CancelLookup(t, o)
    <3>1. tst'[t] = [tst[t] EXCEPT ![o] = "todo"] /\ tst[t] \in [Requests -> TSTs]
      BY <2>1 DEF CancelLookup
    <3>2. \A q \in Requests : tst'[t][q] # "out" => q = o
      BY <2>1, <3>1 DEF CancelLookup, CancelOK
    <3>3. tpc'[t] # "idle" /\ o \in ops
      BY <2>1 DEF CancelLookup
    <3>4. tpc'[t] = "done" => response'[t] = "terminal" /\ completedAt[o] # 0
      BY <2>1 DEF CancelLookup
    <3>5. QED
      BY <2>0, <2>00, <3>2, <3>3, <3>4 DEF CancelOK
  <2>2. CASE CancelBegin(t, o)
    <3>1. tpc'[t] = "done" => response'[t] # "none" /\ completedAt[o] # 0
      BY <2>0, <2>2 DEF CancelBegin, CancelOK
    <3>2. tst' = tst /\ tpc'[t] # "idle" /\ tst[t][o] # "out"
      BY <2>2 DEF CancelBegin
    <3>3. QED
      BY <2>00, <3>1, <3>2 DEF CancelOK
  <2>3. CASE CancelRespond(t, o)
    <3>1. completedAt[o] # 0
      BY <2>3 DEF CancelRespond, TerminationInv, LifeOK
    <3>2. tst' = tst /\ tpc'[t] = "done" /\ response'[t] = "waited" /\ tst[t][o] # "out"
      BY <2>3 DEF CancelRespond
    <3>3. QED
      BY <2>00, <3>1, <3>2 DEF CancelOK
  <2>4. QED
    BY <2>1, <2>2, <2>3
<1>10. ASSUME NEW u \in Cancellers, u # t PROVE CancelOK(u)'
  <2>1. CancelOK(u)
    BY DEF TerminationInv
  <2>2. QED
    BY <1>2, <1>3, <1>5, <1>10, <2>1 DEF CancelOK, opVars
<1>11. QED
  BY <1>1, <1>6, <1>7, <1>8, <1>9, <1>10 DEF TerminationInv

(* The process, the shutdown thread's entry and the launcher gates.        *)
LEMMA RestKeeps ==
    ASSUME TerminationInv,
           \/ \E r \in Requests : ProcessExit(r)
           \/ BeginShutdown \/ ShutdownSnapshot
           \/ \E l \in Launchers, closed \in BOOLEAN : SetQuiesced(l, closed)
           \/ UNCHANGED vars
    PROVE  TerminationInv'
<1>1. TypeOK /\ TypeOK' /\ PruneOK /\ ShutdownOK
  BY OtherType DEF TerminationInv, OtherStep
<1>2. UNCHANGED <<ops, opVars, pc, wasCancelled, toRemove, response, signals>>
  BY DEF ProcessExit, BeginShutdown, ShutdownSnapshot, SetQuiesced, vars,
     procVars, termVars
<1>3. Completed' = Completed
  BY <1>2 DEF opVars, Completed
<1>4. \A r \in Requests : proc'[r] = "alive" => proc[r] = "alive"
  BY <1>1 DEF ProcessExit, BeginShutdown, ShutdownSnapshot, SetQuiesced, vars,
     procVars, TypeOK, OperationTypeOK
<1>5. \A t \in Cancellers : tst'[t] = tst[t] /\ tpc'[t] = tpc[t]
  BY <1>1, TypeAssumption DEF ProcessExit, BeginShutdown, ShutdownSnapshot,
     SetQuiesced, vars, termVars, TypeOK, ThreadTypeOK
<1>6. ASSUME NEW r \in Requests PROVE LifeOK(r)' /\ ReasonOK(r)'
  <2>1. LifeOK(r) /\ ReasonOK(r)
    BY DEF TerminationInv
  <2>2. LifeOK(r)'
    BY <1>2, <1>4, <2>1 DEF LifeOK, opVars
  <2>3. QED
    BY <1>2, <1>5, <2>1, <2>2 DEF ReasonOK, opVars
<1>7. PruneOK'
  BY <1>1, <1>2, <1>3 DEF PruneOK
<1>8. ASSUME NEW t \in Cancellers PROVE CancelOK(t)'
  <2>1. CancelOK(t)
    BY DEF TerminationInv
  <2>2. QED
    BY <1>2, <1>3, <1>5, <2>1 DEF CancelOK, opVars
<1>9. ShutdownOK'
  <2>1. CASE BeginShutdown
    BY <1>1, <2>1 DEF BeginShutdown, ShutdownOK, TypeOK, ThreadTypeOK
  <2>2. CASE ShutdownSnapshot
    <3>1. tpc'[Shutdown] = "terminating" /\ shutting
      BY <1>1, <2>2 DEF ShutdownSnapshot, ShutdownOK, TypeOK, ThreadTypeOK
    <3>2. ASSUME NEW r \in Requests, r \in ops PROVE tst'[Shutdown][r] = "todo"
      BY <1>1, <2>2, <3>2 DEF ShutdownSnapshot, TypeOK, ThreadTypeOK
    <3>3. ASSUME NEW r \in Requests, Unstarted(r)' \/ proc'[r] = "alive"
          PROVE  r \in ops
      <4>1. LifeOK(r)
        BY DEF TerminationInv
      <4>2. QED
        BY <1>2, <1>4, <3>3, <4>1 DEF LifeOK, Unstarted, Registered
    <3>4. shutting' = shutting
      BY <2>2 DEF ShutdownSnapshot
    <3>5. QED
      BY <3>1, <3>2, <3>3, <3>4 DEF ShutdownOK
  <2>3. CASE UNCHANGED <<tpc, tst, shutting>>
    BY <1>1, <1>2, <1>4, <2>3 DEF ShutdownOK, Unstarted, opVars
  <2>4. QED
    BY <2>1, <2>2, <2>3 DEF ProcessExit, SetQuiesced, vars, termVars
<1>10. QED
  BY <1>1, <1>6, <1>7, <1>8, <1>9 DEF TerminationInv

(* The inductive invariant holds in every reachable state.                 *)
THEOREM TerminationInductive == Spec => []TerminationInv
<1>1. Init => TerminationInv
  <2> SUFFICES ASSUME Init PROVE TerminationInv
    OBVIOUS
  <2>1. TypeOK
    BY InitType
  <2>2. ASSUME NEW r \in Requests PROVE LifeOK(r) /\ ReasonOK(r)
    BY DEF Init, LifeOK, ReasonOK, Registered
  <2>3. PruneOK
    BY DEF Init, PruneOK
  <2>4. ASSUME NEW t \in Cancellers PROVE CancelOK(t)
    BY DEF Init, CancelOK
  <2>5. ShutdownOK
    BY DEF Init, ShutdownOK
  <2>6. QED
    BY <2>1, <2>2, <2>3, <2>4, <2>5 DEF TerminationInv
<1>2. TerminationInv /\ [Next]_vars => TerminationInv'
  <2> SUFFICES ASSUME TerminationInv, [Next]_vars PROVE TerminationInv'
    OBVIOUS
  <2>1. CASE \E r \in Requests : HandlerStep(r)
    BY <2>1, HandlerKeeps
  <2>2. CASE \E t \in Terminators : TerminatorStep(t)
    BY <2>2, TerminatorKeeps
  <2>3. CASE OtherStep
    BY <2>3, PollKeeps, CancelKeeps, RestKeeps DEF OtherStep, CancellerStep
  <2>4. QED
    BY <2>1, <2>2, <2>3, NextSplit
<1>3. QED
  BY <1>1, <1>2, PTL DEF Spec

(* When shutdown returns, no live docker process was left unsignalled.     *)
THEOREM ShutdownReachesAll == Spec => []ShutdownSignalsAll
<1>1. TerminationInv => ShutdownSignalsAll
  BY DEF TerminationInv, ShutdownOK, ShutdownSignalsAll
<1>2. QED
  BY <1>1, TerminationInductive, PTL

(* A live docker process is always reachable through s.ops.                *)
THEOREM LiveStaysRegistered == Spec => []LiveIsRegistered
<1>1. TerminationInv => LiveIsRegistered
  BY DEF TerminationInv, LifeOK, Registered, LiveIsRegistered
<1>2. QED
  BY <1>1, TerminationInductive, PTL

(* Every answer of the cancel handler is about an operation that is over.  *)
LEMMA AnswersAreLate == Spec => []AnsweredIsOver
<1>1. TerminationInv => AnsweredIsOver
  BY DEF TerminationInv, LifeOK, CancelOK, AnsweredIsOver
<1>2. QED
  BY <1>1, TerminationInductive, PTL

(* "cancelled" is only ever the result of a client's request.              *)
THEOREM CancelledIsRequested == Spec => []CancelledWasRequested
<1>1. TerminationInv => CancelledWasRequested
  BY DEF TerminationInv, ReasonOK, CancelledWasRequested
<1>2. QED
  BY <1>1, TerminationInductive, PTL

(* A recorded reason is never replaced.                                    *)
LEMMA ReasonStands ==
    ASSUME TypeOK, [Next]_vars, NEW o \in Requests, reason[o] # "none"
    PROVE  reason'[o] = reason[o]
<1>1. ASSUME NEW r \in Requests, HandlerStep(r) PROVE reason' = reason
  BY <1>1, HandlerFrame
<1>2. ASSUME NEW t \in Terminators, TerminatorStep(t) PROVE reason'[o] = reason[o]
  <2>1. ASSUME NEW q \in Requests, Mark(t, q) PROVE reason'[o] = reason[o]
    BY <2>1 DEF Mark, TypeOK, OperationTypeOK
  <2>2. CASE UNCHANGED reason
    BY <2>2
  <2>3. QED
    BY <1>2, <2>1, <2>2 DEF TerminatorStep, GraceDone, ForceClaim, ForceKill,
       FollowerReturns, GraceExpires, TerminateReturns, opVars
<1>3. CASE OtherStep
  BY <1>3 DEF OtherStep, CancellerStep, ProcessExit, PollDecide, PollRemove,
     CancelLookup, CancelBegin, CancelRespond, BeginShutdown, ShutdownSnapshot,
     SetQuiesced, opVars, vars
<1>4. QED
  BY <1>1, <1>2, <1>3, NextSplit

(* The first termination reason decides the result: an operation that      *)
(* daemon shutdown reached first never completes as cancelled, for every   *)
(* number of cancel calls (terminateOperations, waitRunCompletion).        *)
LEMMA FirstReasonIsKept == Spec => FirstReasonDecides
<1>1. TerminationInv /\ TerminationInv' /\ [Next]_vars =>
        [\A o \in Requests :
            /\ reason[o] # "none" => reason'[o] = reason[o]
            /\ reason[o] = "shutdown" => resultCode'[o] # "cancelled"]_vars
  <2> SUFFICES ASSUME TerminationInv, TerminationInv', [Next]_vars, NEW o \in Requests
               PROVE  /\ reason[o] # "none" => reason'[o] = reason[o]
                      /\ reason[o] = "shutdown" => resultCode'[o] # "cancelled"
    OBVIOUS
  <2>1. reason[o] # "none" => reason'[o] = reason[o]
    BY ReasonStands DEF TerminationInv
  <2>2. resultCode'[o] = "cancelled" => reason'[o] = "cancelled"
    BY DEF TerminationInv, ReasonOK
  <2>3. QED
    BY <2>1, <2>2
<1>2. QED
  BY <1>1, TerminationInductive, PTL DEF Spec, FirstReasonDecides

(* What a client learns of its cancel is true, for every number of cancel  *)
(* calls: the operation is over, and the first reason decided its result.  *)
THEOREM CancelIsTruthful == Spec => CancelAnswersTruthfully
  BY AnswersAreLate, FirstReasonIsKept DEF CancelAnswersTruthfully

-----------------------------------------------------------------------------
(***************************************************************************)
(* Force cleanup has a single owner for every number of terminating        *)
(* threads.  The invariant ties the flag forceOwned, tested and set under  *)
(* op.mu, to the existence of exactly one owner until forceDone.           *)
(***************************************************************************)

(* Ownership of the force cleanup of one operation.                        *)
OwnerOK(o) ==
    /\ \A t, u \in Terminators :
          tst[t][o] = "owner" /\ tst[u][o] = "owner" => t = u
    /\ \A t \in Terminators :
          tst[t][o] = "owner" => forceOwned[o] /\ ~forceDone[o]
    /\ forceDone[o] => forceOwned[o]
    /\ forceOwned[o] => forceDone[o] \/ \E t \in Terminators : tst[t][o] = "owner"
    /\ \A t \in Terminators : tst[t][o] = "follower" => forceOwned[o]

(* A thread that has not begun to terminate works on nothing.              *)
EntryOK(t) ==
    tpc[t] \in {"idle", "begun"} => \A o \in Requests : tst[t][o] = "out"

ForceInv ==
    /\ TypeOK
    /\ \A o \in Requests : OwnerOK(o)
    /\ \A t \in Terminators : EntryOK(t)

(* Steps that leave ownership as it is.                                    *)
OwnersKept ==
    /\ UNCHANGED <<forceOwned, forceDone>>
    /\ \A t \in Terminators, o \in Requests :
          /\ tst'[t][o] = "owner" <=> tst[t][o] = "owner"
          /\ tst'[t][o] = "follower" <=> tst[t][o] = "follower"

(* A step that touches no force-cleanup state keeps the owner relation.    *)
LEMMA KeptOwners ==
    ASSUME OwnersKept, NEW o \in Requests, OwnerOK(o) PROVE OwnerOK(o)'
  BY DEF OwnersKept, OwnerOK

(* Control of the terminating threads only moves forward.                  *)
LEMMA EntryKept ==
    ASSUME ForceInv, [Next]_vars, NEW t \in Terminators
    PROVE  EntryOK(t)'
<1>1. EntryOK(t) /\ TypeOK
  BY DEF ForceInv
<1> USE <1>1 DEF EntryOK, TypeOK, ThreadTypeOK
<1>2. CASE UNCHANGED <<tpc, tst>>
  BY <1>2
<1>3. ASSUME NEW u \in Terminators, TerminatorStep(u) PROVE EntryOK(t)'
  <2>1. tpc[u] = "terminating" \/ \E o \in Requests : tst[u][o] \in {"force", "owner", "follower"}
    BY <1>3 DEF TerminatorStep, Mark, GraceDone, ForceClaim, ForceKill,
       FollowerReturns, GraceExpires, TerminateReturns, Marked
  <2>2. tpc[u] \notin {"idle", "begun"}
    BY <2>1 DEF ForceInv
  <2>3. CASE TerminateReturns(u)
    BY <2>2, <2>3 DEF TerminateReturns
  <2>4. CASE ~TerminateReturns(u)
    <3>1. tpc' = tpc
      BY <1>3, <2>4 DEF TerminatorStep, Mark, GraceDone, ForceClaim, ForceKill,
         FollowerReturns, GraceExpires
    <3>2. t # u => tst'[t] = tst[t]
      BY <1>3, <2>4 DEF TerminatorStep, Mark, GraceDone, ForceClaim, ForceKill,
         FollowerReturns, GraceExpires
    <3>3. QED
      BY <2>2, <3>1, <3>2
  <2>5. QED
    BY <2>3, <2>4
<1>4. ASSUME NEW u \in Cancellers, NEW o \in Requests,
             CancelLookup(u, o) \/ CancelBegin(u, o) \/ CancelRespond(u, o)
      PROVE  EntryOK(t)'
  <2>1. tpc'[u] \notin {"idle", "begun"}
    BY <1>4 DEF CancelLookup, CancelBegin, CancelRespond
  <2>2. t # u => tst'[t] = tst[t] /\ tpc'[t] = tpc[t]
    BY <1>4 DEF CancelLookup, CancelBegin, CancelRespond
  <2>3. QED
    BY <2>1, <2>2
<1>5. CASE BeginShutdown
  BY <1>5 DEF BeginShutdown
<1>6. CASE ShutdownSnapshot
  BY <1>6 DEF ShutdownSnapshot
<1>7. ASSUME NEW r \in Requests, HandlerStep(r) PROVE UNCHANGED <<tpc, tst>>
  BY <1>7 DEF HandlerStep, Reserve, ReserveSync, ReserveRefused, SyncReturn,
     PrepareFail, CreateOperation, MaterializeFail, AdmitReserved, AdmitRefused,
     PruneDecide, PruneRemove, StartProcess, StartFails, StartRefused, Rollback,
     WaitReturns, ReadReason, Complete, CloseDone, termVars
<1>8. QED
  BY <1>2, <1>3, <1>4, <1>5, <1>6, <1>7, NextSplit DEF OtherStep, CancellerStep,
     ProcessExit, PollDecide, PollRemove, SetQuiesced, vars, termVars

(* Becoming a follower or the owner, under op.mu.                          *)
LEMMA ClaimOwner ==
    ASSUME ForceInv, NEW t \in Terminators, NEW p \in Requests, ForceClaim(t, p),
           NEW o \in Requests
    PROVE  OwnerOK(o)'
<1>1. OwnerOK(o) /\ TypeOK
  BY DEF ForceInv
<1>2. \A u \in Terminators, q \in Requests :
         (u # t \/ q # p) => tst'[u][q] = tst[u][q]
  BY <1>1 DEF ForceClaim, TypeOK, ThreadTypeOK
<1>3. forceDone' = forceDone /\ (o # p => forceOwned'[o] = forceOwned[o])
  BY <1>1 DEF ForceClaim, TypeOK, OperationTypeOK
<1>4. CASE o # p
  BY <1>1, <1>2, <1>3, <1>4 DEF OwnerOK
<1>5. CASE o = p
  <2>0. tst[t][p] = "force"
    BY DEF ForceClaim
  <2>1. CASE forceOwned[p]
    <3>1. forceOwned'[p] /\ tst'[t][p] = "follower"
      BY <1>1, <2>1 DEF ForceClaim, TypeOK, ThreadTypeOK, OperationTypeOK
    <3>2. QED
      BY <1>1, <1>2, <1>3, <1>5, <2>0, <2>1, <3>1 DEF OwnerOK
  <2>2. CASE ~forceOwned[p] /\ completedAt[p] # 0
    <3>1. forceOwned'[p] = FALSE /\ tst'[t][p] = "finished"
      BY <1>1, <2>2 DEF ForceClaim, TypeOK, ThreadTypeOK, OperationTypeOK
    <3>2. QED
      BY <1>1, <1>2, <1>3, <1>5, <2>0, <2>2, <3>1 DEF OwnerOK
  <2>3. CASE ~forceOwned[p] /\ completedAt[p] = 0
    <3>1. forceOwned'[p] /\ tst'[t][p] = "owner"
      BY <1>1, <2>3 DEF ForceClaim, TypeOK, ThreadTypeOK, OperationTypeOK
    <3>2. QED
      BY <1>1, <1>2, <1>3, <1>5, <2>0, <2>3, <3>1 DEF OwnerOK
  <2>4. QED
    BY <2>1, <2>2, <2>3
<1>6. QED
  BY <1>4, <1>5

(* The owner's close(forceDone).                                           *)
LEMMA KillOwner ==
    ASSUME ForceInv, NEW t \in Terminators, NEW p \in Requests, ForceKill(t, p),
           NEW o \in Requests
    PROVE  OwnerOK(o)'
<1>1. OwnerOK(o) /\ TypeOK
  BY DEF ForceInv
<1>2. /\ \A u \in Terminators, q \in Requests :
            (u # t \/ q # p) => tst'[u][q] = tst[u][q]
      /\ tst[t][p] = "owner" /\ tst'[t][p] = "finished"
  BY <1>1 DEF ForceKill, TypeOK, ThreadTypeOK
<1>3. /\ forceOwned' = forceOwned /\ forceDone'[p]
      /\ o # p => forceDone'[o] = forceDone[o]
  BY <1>1 DEF ForceKill, TypeOK, OperationTypeOK
<1>4. CASE o # p
  BY <1>1, <1>2, <1>3, <1>4 DEF OwnerOK
<1>5. CASE o = p
  BY <1>1, <1>2, <1>3, <1>5 DEF OwnerOK
<1>6. QED
  BY <1>4, <1>5

(* Every other step leaves the owners alone, or retires a follower.        *)
LEMMA OthersOwner ==
    ASSUME ForceInv, [Next]_vars, NEW o \in Requests
    PROVE  OwnerOK(o)'
<1>1. OwnerOK(o) /\ TypeOK
  BY DEF ForceInv
<1>2. ASSUME NEW t \in Terminators, TerminatorStep(t) PROVE OwnerOK(o)'
  <2>1. ASSUME NEW p \in Requests, Mark(t, p) \/ GraceDone(t, p) PROVE OwnerOK(o)'
    <3>1. /\ tst[t][p] \in {"todo", "grace"}
          /\ \E x \in {"grace", "skipped", "completed"} : tst' = [tst EXCEPT ![t][p] = x]
          /\ UNCHANGED <<forceOwned, forceDone>>
      BY <2>1 DEF Mark, GraceDone, opVars
    <3>2. OwnersKept
      BY <1>1, <3>1 DEF OwnersKept, TypeOK, ThreadTypeOK
    <3>3. QED
      BY <1>1, <3>2, KeptOwners
  <2>2. ASSUME NEW p \in Requests, FollowerReturns(t, p) PROVE OwnerOK(o)'
    <3>1. /\ tst[t][p] = "follower" /\ tst'[t][p] = "finished"
          /\ UNCHANGED <<forceOwned, forceDone>>
          /\ \A u \in Terminators, q \in Requests :
                (u # t \/ q # p) => tst'[u][q] = tst[u][q]
      BY <1>1, <2>2 DEF FollowerReturns, opVars, TypeOK, ThreadTypeOK
    <3>2. \A u \in Terminators :
             /\ tst'[u][o] = "owner" <=> tst[u][o] = "owner"
             /\ tst'[u][o] = "follower" => tst[u][o] = "follower"
      BY <3>1
    <3>3. QED
      BY <1>1, <3>1, <3>2 DEF OwnerOK
  <2>3. CASE GraceExpires(t)
    <3>1. OwnersKept
      BY <1>1, <2>3 DEF GraceExpires, OwnersKept, opVars, TypeOK, ThreadTypeOK
    <3>2. QED
      BY <1>1, <3>1, KeptOwners
  <2>4. CASE TerminateReturns(t)
    <3>1. OwnersKept
      BY <2>4 DEF TerminateReturns, OwnersKept, opVars
    <3>2. QED
      BY <1>1, <3>1, KeptOwners
  <2>5. QED
    BY <1>2, <2>1, <2>2, <2>3, <2>4, ClaimOwner, KillOwner DEF TerminatorStep
<1>3. ASSUME NEW t \in Cancellers, NEW p \in Requests, CancelLookup(t, p)
      PROVE  OwnerOK(o)'
  <2>1. tst[t][p] = "out"
    BY <1>3 DEF CancelLookup, ForceInv, EntryOK
  <2>2. OwnersKept
    BY <1>1, <1>3, <2>1 DEF CancelLookup, OwnersKept, opVars, TypeOK, ThreadTypeOK
  <2>3. QED
    BY <1>1, <2>2, KeptOwners
<1>4. CASE ShutdownSnapshot
  <2>1. \A p \in Requests : tst[Shutdown][p] = "out"
    BY <1>4 DEF ShutdownSnapshot, ForceInv, EntryOK
  <2>2. OwnersKept
    BY <1>1, <1>4, <2>1 DEF ShutdownSnapshot, OwnersKept, opVars, TypeOK, ThreadTypeOK
  <2>3. QED
    BY <1>1, <2>2, KeptOwners
<1>5. CASE UNCHANGED <<tst, forceOwned, forceDone>>
  BY <1>1, <1>5 DEF OwnerOK
<1>6. ASSUME NEW r \in Requests, HandlerStep(r)
      PROVE  UNCHANGED <<tst, forceOwned, forceDone>>
  BY <1>6 DEF HandlerStep, Reserve, ReserveSync, ReserveRefused, SyncReturn,
     PrepareFail, CreateOperation, MaterializeFail, AdmitReserved, AdmitRefused,
     PruneDecide, PruneRemove, StartProcess, StartFails, StartRefused, Rollback,
     WaitReturns, ReadReason, Complete, CloseDone, termVars, opVars
<1>7. ASSUME OtherStep, ~\E t \in Cancellers, p \in Requests : CancelLookup(t, p),
             ~ShutdownSnapshot
      PROVE  UNCHANGED <<tst, forceOwned, forceDone>>
  BY <1>7 DEF OtherStep, CancellerStep, CancelBegin, CancelRespond, BeginShutdown,
     ProcessExit, PollDecide, PollRemove, SetQuiesced, vars, termVars, opVars
<1>8. QED
  BY <1>2, <1>3, <1>4, <1>5, <1>6, <1>7, NextSplit

(* close(forceDone) runs at most once per operation, and no follower waits *)
(* on a channel that nobody is going to close.                             *)
THEOREM ForceHasOneOwner == Spec => []SingleForceOwner
<1>1. Init => ForceInv
  <2> SUFFICES ASSUME Init PROVE ForceInv
    OBVIOUS
  <2>1. ASSUME NEW o \in Requests PROVE OwnerOK(o)
    BY DEF Init, OwnerOK
  <2>2. ASSUME NEW t \in Terminators PROVE EntryOK(t)
    BY DEF Init, EntryOK
  <2>3. QED
    BY <2>1, <2>2, InitType DEF ForceInv
<1>2. ForceInv /\ [Next]_vars => ForceInv'
  <2> SUFFICES ASSUME ForceInv, [Next]_vars PROVE ForceInv'
    OBVIOUS
  <2>1. TypeOK'
    BY NextSplit, HandlerType, TerminatorType, OtherType DEF ForceInv
  <2>2. QED
    BY <2>1, EntryKept, OthersOwner DEF ForceInv
<1>3. ForceInv => SingleForceOwner
  <2> SUFFICES ASSUME ForceInv, NEW o \in Requests
               PROVE  LET owners == {t \in Terminators : tst[t][o] = "owner"} IN
                      /\ Cardinality(owners) <= 1
                      /\ forceDone[o] => owners = {}
                      /\ (\E t \in Terminators : tst[t][o] = "follower")
                            => forceDone[o] \/ owners # {}
    BY DEF SingleForceOwner
  <2> DEFINE owners == {t \in Terminators : tst[t][o] = "owner"}
  <2>1. OwnerOK(o)
    BY DEF ForceInv
  <2>2. owners = {} \/ \E t \in Terminators : owners = {t}
    BY <2>1 DEF OwnerOK
  <2>3. Cardinality(owners) <= 1
    <3>1. CASE owners = {}
      BY <3>1, FS_EmptySet
    <3>2. ASSUME NEW t \in Terminators, owners = {t} PROVE Cardinality(owners) = 1
      BY <3>2, FS_Singleton
    <3>3. QED
      BY <2>2, <3>1, <3>2
  <2>4. QED
    BY <2>1, <2>3 DEF OwnerOK
<1>4. QED
  BY <1>1, <1>2, <1>3, PTL DEF Spec

===============================================================================
