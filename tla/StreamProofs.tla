----------------------------- MODULE StreamProofs -----------------------------
(***************************************************************************)
(* Streamed answers of any shape, cut into chunks anywhere, with any limit *)
(* of the buffer: no line that fits is lost, repeated or torn.  What buf   *)
(* begins with decides it (Progress): the head of a line, or the tail of   *)
(* one that did not fit.  And a client that stays gets every byte, once    *)
(* and in its place (Delivery).                                            *)
(***************************************************************************)
EXTENDS Stream, TLAPS

USE BoundsAssumption

(* What an answer's newlines allow.                                        *)
LEMMA Newlines ==
  ASSUME answer \in Answers
  PROVE  /\ answer.total \in Nat /\ Len(answer.ends) \in Nat
         /\ Lines = 1 .. Len(answer.ends)
         /\ \A i \in Lines : /\ End(i) \in 1 .. answer.total
                             /\ Start(i) \in 0 .. answer.total /\ Start(i) < End(i)
         /\ \A i, j \in Lines : i < j => End(i) <= Start(j) /\ End(i) < End(j)
         /\ \A i \in Lines : \/ (i = 1 /\ Start(i) = 0)
                             \/ (i - 1 \in Lines /\ Start(i) = End(i - 1))
<1>1. /\ answer.total \in Nat /\ answer.ends \in Seq(1 .. answer.total)
      /\ \A i, j \in DOMAIN answer.ends : i < j => answer.ends[i] < answer.ends[j]
  BY AnswersAssumption
<1>2. Len(answer.ends) \in Nat /\ Lines = 1 .. Len(answer.ends)
  BY <1>1 DEF Lines
<1>3. \A i \in Lines : End(i) \in 1 .. answer.total
  BY <1>1 DEF Lines, End
<1>4. \A i, j \in Lines : i < j => End(i) < End(j)
  BY <1>1 DEF Lines, End
<1>5. \A i \in Lines : (i = 1 /\ Start(i) = 0) \/ (i - 1 \in Lines /\ Start(i) = End(i - 1))
  BY <1>2 DEF Start
<1>6. \A i \in Lines : Start(i) \in 0 .. answer.total /\ Start(i) < End(i)
  <2> SUFFICES ASSUME NEW i \in Lines
               PROVE  Start(i) \in 0 .. answer.total /\ Start(i) < End(i)
    OBVIOUS
  <2>1. i \in Nat /\ End(i) \in 1 .. answer.total
    BY <1>2, <1>3
  <2>2. CASE i = 1 /\ Start(i) = 0
    BY <1>1, <2>1, <2>2
  <2>3. CASE i - 1 \in Lines /\ Start(i) = End(i - 1)
    <3>1. End(i - 1) \in 1 .. answer.total /\ End(i - 1) < End(i)
      BY <1>3, <1>4, <2>1, <2>3
    <3> QED
      BY <1>1, <2>1, <2>3, <3>1
  <2> QED
    BY <1>5, <2>2, <2>3
<1>7. \A i, j \in Lines : i < j => End(i) <= Start(j)
  <2> SUFFICES ASSUME NEW i \in Lines, NEW j \in Lines, i < j
               PROVE  End(i) <= Start(j)
    OBVIOUS
  <2>1. i \in Nat /\ j \in Nat /\ i >= 1 /\ End(i) \in Nat
    BY <1>2, <1>3
  <2>2. j - 1 \in Lines /\ Start(j) = End(j - 1)
    BY <1>5, <2>1
  <2>3. End(j - 1) \in Nat /\ (i = j - 1 \/ End(i) < End(j - 1))
    BY <1>3, <1>4, <2>1, <2>2
  <2> QED
    BY <2>1, <2>2, <2>3
<1> QED
  BY <1>1, <1>2, <1>3, <1>4, <1>5, <1>6, <1>7

(* Where the line after the first n begins.                                *)
LEMMA NextLine ==
  ASSUME answer \in Answers, NEW n \in Nat, n < Len(answer.ends)
  PROVE  n + 1 \in Lines /\ Start(n + 1) = IF n = 0 THEN 0 ELSE End(n)
<1>1. n + 1 \in Lines
  BY Newlines
<1>2. (n + 1) - 1 = n /\ (n + 1 = 1 <=> n = 0)
  OBVIOUS
<1> QED
  BY <1>1, <1>2 DEF Start

(* The same as numbers, one line or two at a time.                         *)
LEMMA LineType ==
  ASSUME answer \in Answers
  PROVE  \A i \in Lines : i \in Nat /\ End(i) \in Nat /\ Start(i) \in Nat /\ Start(i) < End(i)
<1>1. \A i \in Lines : i \in Nat /\ End(i) \in Nat /\ Start(i) \in Nat
  BY Newlines
<1>2. \A i \in Lines : Start(i) < End(i)
  BY Newlines
<1> QED
  BY <1>1, <1>2

LEMMA LineOrder ==
  ASSUME answer \in Answers
  PROVE  \A i, j \in Lines : i < j => End(i) <= Start(j) /\ End(i) < End(j)
  BY Newlines

(* The answer stays the same.                                              *)
LEMMA SameAnswer ==
  ASSUME UNCHANGED answer
  PROVE  /\ Lines' = Lines
         /\ \A i : End(i)' = End(i) /\ Start(i)' = Start(i) /\ Short(i)' = Short(i)
  BY DEF Lines, End, Start, Short

LEMMA NothingQueued == <<>> \in Seq(Items) /\ Len(<<>>) <= ChannelCap
  OBVIOUS

LEMMA InitCollect == Init => CollectInv
<1> SUFFICES ASSUME Init PROVE CollectInv
  OBVIOUS
<1>1. TypeOK
  <2>1. BufferType
    BY Newlines DEF Init, BufferType
  <2>2. BodyType
    BY NothingQueued DEF Init, BodyType
  <2>3. chunk \in Items
    BY DEF Init, Bytes, Items
  <2> QED
    BY <2>1, <2>2, <2>3 DEF Init, TypeOK
<1>2. Rested /\ Progress
  BY Newlines DEF Init, Rested, Progress, InOrder
<1>3. WhenAllShort
  BY Newlines DEF Init, WhenAllShort, Sofar
<1> QED
  BY <1>1, <1>2, <1>3 DEF Init, CollectInv

(* The buffer and what has been fed are as before.                         *)
LEMMA SameBuffer ==
  ASSUME CollectInv, UNCHANGED <<source, from, fed>>
  PROVE  /\ Progress' <=> Progress
         /\ WhenAllShort' <=> WhenAllShort
         /\ Collected(fed)' = Collected(fed)
<1>1. UNCHANGED <<answer, from, fed>>
  BY DEF source
<1>2. Progress' <=> Progress
  BY <1>1, SameAnswer DEF Progress, InOrder
<1>3. WhenAllShort' <=> WhenAllShort
  BY <1>1, SameAnswer DEF WhenAllShort, Sofar
<1>4. Collected(fed)' = Collected(fed)
  BY <1>1 DEF Collected, LastGiving
<1> QED
  BY <1>2, <1>3, <1>4

LEMMA SameType ==
  ASSUME TypeOK
  PROVE  /\ UNCHANGED <<source, buffer>> => BufferType'
         /\ UNCHANGED body => BodyType'
         /\ UNCHANGED <<client, queue, given>> => BodyType'
  BY SameAnswer DEF TypeOK, BufferType, BodyType, source, buffer, body, given

LEMMA SentType ==
  ASSUME TypeOK, NEW item \in Items, Sent(item) \/ UNCHANGED queue,
         UNCHANGED <<client, given>>
  PROVE  BodyType'
  BY DEF TypeOK, BodyType, Sent, given

LEMMA BytesType == ASSUME got \in Nat, NEW n \in Nat PROVE Bytes(n) \in Items
  BY DEF Bytes, Items

(* A chunk arrives.                                                        *)
LEMMA ReadInv ==
  ASSUME CollectInv, NEW n, Read(n)
  PROVE  CollectInv'
<1>1. TypeOK'
  <2>1. BufferType'
    BY Newlines, SameAnswer DEF Read, CollectInv, TypeOK, BufferType, source
  <2>2. chunk' \in Items
    BY Newlines, BytesType DEF Read, CollectInv, TypeOK, BufferType
  <2> QED
    BY <2>1, <2>2, SameType DEF Read, Forward, CollectInv, TypeOK, outcome, marks
<1>2. recording' => Rested'
  BY DEF Read, Rested, source
<1>3. how' = "eof" => got' = answer'.total
  BY Newlines DEF Read, CollectInv, TypeOK, BufferType, source, outcome
<1> QED
  BY <1>1, <1>2, <1>3, SameBuffer DEF Read, Forward, CollectInv, source, outcome, marks

(* A line leaves the buffer.                                               *)
LEMMA FeedInv ==
  ASSUME CollectInv, NEW i, Feed(i)
  PROVE  CollectInv'
<1>1. /\ i \in Lines /\ Start(i) <= from /\ from < End(i) /\ End(i) <= got
      /\ answer \in Answers /\ got \in 0 .. answer.total /\ from \in 0 .. got
      /\ fed \in Seq(Lines)
  <2>1. /\ i \in Lines /\ from < End(i) /\ End(i) <= got /\ \A j \in Lines : Newline(j) => i <= j
        /\ answer \in Answers /\ got \in 0 .. answer.total /\ from \in 0 .. got
        /\ fed \in Seq(Lines)
    BY DEF Feed, Newline, CollectInv, TypeOK, BufferType
  <2>2. i \in Nat /\ from \in Nat /\ got \in Nat /\ End(i) \in Nat
    BY <2>1, Newlines
  <2>3. CASE i = 1 /\ Start(i) = 0
    BY <2>1, <2>2, <2>3
  <2>4. CASE i - 1 \in Lines /\ Start(i) = End(i - 1)
    <3>1. End(i - 1) \in Nat /\ End(i - 1) < End(i) /\ ~Newline(i - 1)
      BY <2>1, <2>2, <2>4, Newlines
    <3> QED
      BY <2>1, <2>2, <2>4, <3>1 DEF Newline
  <2> QED
    BY <2>1, <2>3, <2>4, Newlines
<1>a. /\ i \in Nat /\ from \in Nat /\ got \in Nat /\ End(i) \in Nat /\ Start(i) \in Nat
      /\ Start(i) < End(i)
  BY <1>1, LineType
<1>b. \A j \in Lines : j \in Nat /\ End(j) \in Nat /\ Start(j) \in Nat
  BY <1>1, LineType
<1>c. \A j, k \in Lines : j < k => End(j) <= Start(k) /\ End(j) < End(k)
  BY <1>1, LineOrder
<1>2. /\ from' = End(i) /\ fed' = (IF Start(i) = from THEN Append(fed, i) ELSE fed)
      /\ UNCHANGED <<answer, recording, got, chunk, task, how, turn>> /\ task = "split"
  BY DEF Feed, Drain, source, outcome
<1>3. TypeOK'
  <2>1. BufferType'
    BY <1>1, <1>2, Newlines, SameAnswer DEF CollectInv, TypeOK, BufferType
  <2> QED
    BY <1>2, <2>1, SameType DEF Feed, CollectInv, TypeOK, marks
<1>4. ASSUME recording PROVE Progress'
  <2>1. \A k \in DOMAIN fed : fed[k] \in Lines /\ End(fed[k]) <= from
    BY <1>1, <1>4 DEF CollectInv, Progress
  <2>2. \A k \in DOMAIN fed : fed[k] < i
    <3> SUFFICES ASSUME NEW k \in DOMAIN fed PROVE fed[k] < i
      OBVIOUS
    <3> DEFINE j == fed[k]
    <3>1. j \in Lines /\ End(j) <= from /\ from < End(i) /\ i \in Lines
      BY <1>1, <2>1
    <3> HIDE DEF j
    <3>2. j \in Nat /\ End(j) \in Nat /\ End(j) < End(i)
      BY <1>a, <1>b, <3>1
    <3>3. j < i
      BY <1>a, <1>c, <3>1, <3>2
    <3> QED
      BY <3>3 DEF j
  <2>3. InOrder'
    BY <1>1, <1>2, <1>4, <2>1, <2>2 DEF CollectInv, Progress, InOrder
  <2>4. \A k \in DOMAIN fed' : End(fed'[k]) <= from'
    <3>1. \A k \in DOMAIN fed' : fed'[k] = i \/ (k \in DOMAIN fed /\ fed'[k] = fed[k])
      BY <1>1, <1>2
    <3>2. /\ from \in Int /\ End(i) \in Int /\ from < End(i) /\ from' = End(i) /\ i \in Lines
          /\ \A j \in Lines : End(j) \in Int
      BY <1>1, <1>2, <1>a, <1>b
    <3>3. \A j \in Lines : End(j)' = End(j)
      BY <1>2 DEF End
    <3> QED
      BY <2>1, <3>1, <3>2, <3>3
  <2>5. ASSUME NEW j \in Lines, Start(j) < from', from' < End(j) PROVE FALSE
    <3>1. /\ j \in Nat /\ End(j) \in Nat /\ Start(j) \in Nat
          /\ Start(j) < End(i) /\ End(i) < End(j)
      BY <1>2, <1>b, <2>5
    <3>2. (i < j => End(i) <= Start(j)) /\ (j < i => End(j) < End(i)) /\ i \in Lines
      BY <1>1, <1>c, <2>5
    <3> QED
      BY <1>a, <3>1, <3>2
  <2>6. ASSUME NEW j \in Lines, Short(j), End(j) <= from'
        PROVE  \E k \in DOMAIN fed' : fed'[k] = j
    <3>1. CASE End(j) <= from
      <4>1. PICK k \in DOMAIN fed : fed[k] = j
        BY <1>4, <2>6, <3>1 DEF CollectInv, Progress
      <4> QED
        BY <1>1, <1>2, <4>1
    <3>2. CASE from < End(j)
      <4>1. j = i
        <5>1. j \in Nat /\ End(j) \in Nat /\ End(j) <= End(i) /\ from < End(j)
          BY <1>2, <1>b, <2>6, <3>2
        <5>2. ~(j < i)
          <6>1. j < i => End(j) <= Start(i)
            BY <1>1, <1>c, <2>6
          <6>2. Start(i) <= from
            BY <1>1
          <6> QED
            BY <1>a, <5>1, <6>1, <6>2
        <5>3. ~(i < j)
          <6>1. i < j => End(i) < End(j)
            BY <1>1, <1>c, <2>6
          <6> QED
            BY <1>a, <5>1, <6>1
        <5> QED
          BY <1>a, <5>1, <5>2, <5>3
      <4>2. Start(i) = from
        <5>1. ~(Start(i) < from /\ from < End(i))
          BY <1>1, <1>4, <2>6, <4>1 DEF CollectInv, Progress
        <5> QED
          BY <1>1, <1>a, <5>1
      <4> QED
        BY <1>1, <1>2, <4>1, <4>2
    <3>3. End(j) \in Nat
      BY <1>b, <2>6
    <3> QED
      BY <1>a, <3>1, <3>2, <3>3
  <2> QED
    BY <1>2, <2>3, <2>4, <2>5, <2>6, SameAnswer DEF Progress
<1>5. ASSUME recording PROVE WhenAllShort'
  <2> SUFFICES ASSUME \A j \in Lines : Short(j)
               PROVE  /\ fed' = [j \in 1 .. Len(fed') |-> j] /\ Len(fed') <= Len(answer.ends)
                      /\ Len(fed') < Len(answer.ends) => from' = Sofar'
    BY <1>2, SameAnswer DEF WhenAllShort
  <2>1. /\ fed = [j \in 1 .. Len(fed) |-> j] /\ Len(fed) <= Len(answer.ends)
        /\ Len(fed) < Len(answer.ends) => from = Sofar
        /\ \A k \in DOMAIN fed : End(fed[k]) <= from
    BY <1>5 DEF CollectInv, WhenAllShort, Progress
  <2>2. Start(i) = from
    <3>1. ~(Start(i) < from /\ from < End(i))
      BY <1>1, <1>5 DEF CollectInv, Progress
    <3> QED
      BY <1>1, <1>a, <3>1
  <2>3. Len(fed) \in Nat /\ DOMAIN fed = 1 .. Len(fed)
    BY <1>1
  <2>4. i = Len(fed) + 1
    <3>1. Len(fed) < i
      <4>1. ASSUME i <= Len(fed) PROVE FALSE
        <5>1. i \in DOMAIN fed /\ fed[i] = i
          BY <1>1, <1>a, <2>1, <2>3, <4>1, Newlines
        <5>2. End(i) <= from
          BY <2>1, <5>1
        <5> QED
          BY <1>1, <1>a, <5>2
      <4> QED
        BY <1>a, <2>3, <4>1
    <3>2. Len(fed) + 1 \in Lines /\ Start(Len(fed) + 1) = from
      <4>1. Len(fed) < Len(answer.ends)
        BY <1>1, <1>a, <2>3, <3>1, Newlines
      <4>2. (Len(fed) = 0 <=> fed = <<>>) /\ from = Sofar
        BY <1>1, <2>1, <4>1
      <4> QED
        BY <1>1, <2>3, <4>1, <4>2, NextLine DEF Sofar
    <3> DEFINE k == Len(fed) + 1
    <3>3. k \in Lines /\ Start(k) = from /\ Start(i) = from /\ i \in Lines /\ k \in Nat
      BY <1>1, <2>2, <2>3, <3>2
    <3> HIDE DEF k
    <3>4. Start(k) < End(k) /\ Start(k) \in Nat /\ End(k) \in Nat
      BY <1>1, <3>3, LineType
    <3>5. ~(k < i) /\ ~(i < k)
      BY <1>a, <1>c, <3>3, <3>4
    <3>6. k = i
      BY <1>a, <3>3, <3>5
    <3> QED
      BY <3>6 DEF k
  <2>5. fed' = Append(fed, i) /\ Len(fed') = Len(fed) + 1 /\ fed' # <<>>
    BY <1>1, <1>2, <2>2
  <2>6. fed' = [j \in 1 .. Len(fed') |-> j]
    BY <1>1, <2>1, <2>3, <2>4, <2>5
  <2>7. Len(fed') <= Len(answer.ends) /\ from' = Sofar'
    BY <1>1, <1>2, <2>4, <2>5, Newlines, SameAnswer DEF Sofar
  <2> QED
    BY <2>6, <2>7
<1> QED
  BY <1>2, <1>3, <1>4, <1>5 DEF Feed, CollectInv, Rested, marks

(* No newline is left; a tail that is too long is dropped.                 *)
LEMMA RestInv ==
  ASSUME CollectInv, Rest
  PROVE  CollectInv'
<1>1. /\ answer \in Answers /\ got \in 0 .. answer.total /\ from \in 0 .. got
      /\ fed \in Seq(Lines)
      /\ \A i \in Lines : ~Newline(i)
      /\ UNCHANGED <<answer, recording, got, fed, how, turn>> /\ task = "split"
  BY DEF Rest, CollectInv, TypeOK, BufferType, source, outcome
<1>a. from \in Nat /\ got \in Nat /\ from <= got
  BY <1>1, Newlines
<1>b. \A j \in Lines : j \in Nat /\ End(j) \in Nat /\ Start(j) \in Nat
  BY <1>1, LineType
<1>2. from' = (IF got - from > MaxBuf THEN got ELSE from) /\ task' \in {"send", "read"}
  BY DEF Rest, Cleared, Forward
<1>3. TypeOK'
  <2>1. BufferType'
    BY <1>1, <1>2, SameAnswer DEF CollectInv, TypeOK, BufferType
  <2> QED
    BY <1>1, <1>2, <2>1, SameType DEF Rest, CollectInv, TypeOK, marks
<1>4. ASSUME recording PROVE \A i \in Lines : End(i) <= got => End(i) <= from
  BY <1>1, Newlines DEF Newline
<1>5. ASSUME recording PROVE Rested' /\ Progress'
  <2>1. Rested'
    BY <1>1, <1>2, <1>4, <1>5, Newlines, SameAnswer DEF Rested
  <2>2. \A i \in Lines : Start(i) < from' /\ from' < End(i) => ~Short(i)
    <3> SUFFICES ASSUME NEW i \in Lines, Start(i) < from', from' < End(i), Short(i)
                 PROVE  FALSE
      OBVIOUS
    <3>1. /\ Start(i) \in Nat /\ End(i) \in Nat /\ from \in Nat /\ got \in Nat /\ from <= got
          /\ ~(Start(i) < from /\ from < End(i))
      BY <1>1, <1>5, Newlines DEF CollectInv, Progress
    <3>2. from' = got /\ got - from > MaxBuf /\ from <= Start(i)
      BY <1>2, <3>1
    <3>3. Start(i) <= from
      <4>1. CASE i - 1 \in Lines /\ Start(i) = End(i - 1)
        BY <1>4, <1>5, <3>1, <3>2, <4>1
      <4>2. CASE Start(i) = 0
        BY <3>1, <4>2
      <4> QED
        BY <1>1, <4>1, <4>2, Newlines
    <3> QED
      BY <3>1, <3>2, <3>3 DEF Short
  <2>3. \A i \in Lines : Short(i) /\ End(i) <= from' => \E k \in DOMAIN fed : fed[k] = i
    BY <1>1, <1>2, <1>4, <1>5, Newlines DEF CollectInv, Progress
  <2>4. \A k \in DOMAIN fed : fed[k] \in Lines /\ End(fed[k]) <= from'
    <3>1. \A k \in DOMAIN fed : fed[k] \in Lines /\ End(fed[k]) <= from
      BY <1>1, <1>5 DEF CollectInv, Progress
    <3>2. from' \in Nat /\ from <= from'
      BY <1>2, <1>a
    <3> QED
      BY <1>a, <1>b, <3>1, <3>2
  <2> QED
    BY <1>1, <1>5, <2>1, <2>2, <2>3, <2>4, SameAnswer DEF CollectInv, Progress, InOrder
<1>6. ASSUME recording PROVE WhenAllShort'
  <2> SUFFICES ASSUME \A j \in Lines : Short(j)
               PROVE  /\ fed = [j \in 1 .. Len(fed) |-> j] /\ Len(fed) <= Len(answer.ends)
                      /\ Len(fed) < Len(answer.ends) => from' = Sofar
    BY <1>1, SameAnswer DEF WhenAllShort, Sofar
  <2>1. /\ fed = [j \in 1 .. Len(fed) |-> j] /\ Len(fed) <= Len(answer.ends)
        /\ Len(fed) < Len(answer.ends) => from = Sofar
    BY <1>6 DEF CollectInv, WhenAllShort
  <2>2. ASSUME Len(fed) < Len(answer.ends) PROVE from' = from
    <3> DEFINE k == Len(fed) + 1
    <3>1. k \in Lines /\ Start(k) = from
      <4>1. Len(fed) \in Nat /\ (Len(fed) = 0 <=> fed = <<>>) /\ from = Sofar
        BY <1>1, <2>1, <2>2
      <4> QED
        BY <1>1, <2>2, <4>1, NextLine DEF Sofar
    <3> HIDE DEF k
    <3>2. Short(k) /\ End(k) \in Nat /\ Start(k) < End(k)
      BY <1>1, <3>1, LineType
    <3>3. got < End(k)
      <4>1. End(k) <= got => End(k) <= from
        BY <1>4, <1>6, <3>1
      <4> QED
        BY <1>a, <3>1, <3>2, <4>1
    <3>4. End(k) - from - 1 <= MaxBuf
      BY <3>1, <3>2 DEF Short
    <3> QED
      BY <1>2, <1>a, <3>2, <3>3, <3>4
  <2> QED
    BY <2>1, <2>2
<1> QED
  BY <1>1, <1>2, <1>3, <1>5, <1>6 DEF Rest, CollectInv, marks

(* Steps at the end of the loop and after it.                              *)
LEMMA LeaveInv ==
  ASSUME CollectInv, NEW why \in {"eof", "error", "deadline"}, Leave(why),
         task \in {"read", "fail"}, why = "eof" => got = answer.total,
         UNCHANGED queue \/ Sent(Err)
  PROVE  CollectInv'
<1>1. TypeOK'
  <2>1. Err \in Items
    BY Newlines, BytesType DEF CollectInv, TypeOK, BufferType, Err
  <2>2. BufferType' /\ BodyType'
    BY <2>1, SameType, SentType DEF Leave, CollectInv
  <2> QED
    BY <2>2 DEF Leave, CollectInv, TypeOK, marks
<1>2. Rested /\ UNCHANGED <<answer, got, from>> => Rested'
  BY SameAnswer DEF Rested
<1> QED
  BY <1>1, <1>2, SameBuffer DEF Leave, CollectInv, Rested, source, buffer, marks
(* Steps that touch neither the buffer nor the turn.                       *)
LEMMA OtherInv ==
  ASSUME CollectInv, UNCHANGED <<source, buffer, outcome>>, TypeOK',
         \/ task' \in {"read", "fail"} /\ task \in {"read", "send"}
         \/ task' \in {"write", "none"} /\ task \in {"stash", "write"}
         \/ task' = task,
         stored' => stored \/ task' = "none"
  PROVE  CollectInv'
<1>1. recording => Rested'
  BY SameAnswer DEF CollectInv, Rested, source, buffer
<1> QED
  BY <1>1, SameBuffer DEF CollectInv, source, buffer, outcome

LEMMA LoopInv == CollectInv /\ Loop => CollectInv'
<1> SUFFICES ASSUME CollectInv, Loop PROVE CollectInv'
  OBVIOUS
<1>1. CASE Send
  <2>1. TypeOK'
    BY <1>1, SameType, SentType DEF Send, CollectInv, TypeOK, outcome, marks
  <2> QED
    BY <1>1, <2>1, OtherInv DEF Send, outcome, marks
<1>2. CASE Eof
  BY <1>2, LeaveInv DEF Eof
<1>3. CASE Deadline
  BY <1>3, LeaveInv DEF Deadline
<1>4. CASE Error
  <2>1. CASE client = "open"
    <3>1. TypeOK'
      BY <1>4, <2>1, SameType DEF Error, CollectInv, TypeOK, outcome, marks
    <3> QED
      BY <1>4, <2>1, <3>1, OtherInv DEF Error, marks
  <2>2. CASE client # "open"
    BY <1>4, <2>2, LeaveInv DEF Error
  <2> QED
    BY <2>1, <2>2
<1>5. CASE SendErr
  BY <1>5, LeaveInv DEF SendErr
<1> QED
  BY <1>1, <1>2, <1>3, <1>4, <1>5, ReadInv, FeedInv, RestInv DEF Loop

LEMMA NextCollect == CollectInv /\ [Next]_vars => CollectInv'
<1> SUFFICES ASSUME CollectInv, [Next]_vars PROVE CollectInv'
  OBVIOUS
<1>1. CASE Stash \/ RecordEnds
  <2>1. TypeOK'
    BY <1>1, SameType DEF Stash, RecordEnds, CollectInv, TypeOK, outcome
  <2> QED
    BY <1>1, <2>1, OtherInv DEF Stash, RecordEnds
<1>2. CASE Fetch
  <2>1. Head(queue).upto \in Nat /\ Tail(queue) \in Seq(Items) /\ Len(Tail(queue)) <= ChannelCap
    <3>1. queue \in Seq(Items) /\ queue # <<>> /\ Len(queue) <= ChannelCap
      BY <1>2 DEF Fetch, CollectInv, TypeOK, BodyType
    <3>2. Head(queue) \in Items
      BY <3>1
    <3> QED
      BY <3>1, <3>2 DEF Items
  <2>2. BodyType'
    BY <1>2, <2>1 DEF Fetch, IsErr, CollectInv, TypeOK, BodyType
  <2>3. TypeOK'
    BY <1>2, <2>2, SameType DEF Fetch, CollectInv, TypeOK, outcome, marks
  <2> QED
    BY <1>2, <2>3, OtherInv DEF Fetch, marks
<1>3. CASE BodyEnds \/ Disconnect
  <2>1. TypeOK'
    <3>1. BodyType'
      BY <1>3, NothingQueued DEF BodyEnds, Disconnect, CollectInv, TypeOK, BodyType, given
    <3> QED
      BY <1>3, <3>1, SameType DEF BodyEnds, Disconnect, CollectInv, TypeOK, outcome, marks
  <2> QED
    BY <1>3, <2>1, OtherInv DEF BodyEnds, Disconnect, marks
<1>4. CASE UNCHANGED vars
  <2>1. TypeOK'
    BY <1>4, SameType DEF vars, outcome, marks, CollectInv, TypeOK
  <2> QED
    BY <1>4, <2>1, OtherInv DEF vars, marks
<1> QED
  BY <1>1, <1>2, <1>3, <1>4, LoopInv DEF Next

-----------------------------------------------------------------------------
(* What the client gets.                                                   *)

LEMMA InitDelivery == Init => Delivery
  BY DEF Init, Delivery, Over, Reached, Sending, ErrQueued, Bytes

(* The channel and what the client got are as before.                      *)
LEMMA SameBody ==
  ASSUME UNCHANGED <<queue, given>>
  PROVE  /\ \A k : Reached(k)' = Reached(k)
         /\ ErrQueued' <=> ErrQueued
  BY DEF Reached, ErrQueued, IsErr, given

(* Steps that leave the channel alone.                                     *)
LEMMA KeepDelivery ==
  ASSUME Delivery, UNCHANGED <<queue, given>>,
         client = "left" \/ (Sending' = Sending /\ ((how' = "error") <=> (how = "error"))),
         (how' = "running") <=> ~Over', task' = "none" \/ task # "none",
         task' \in {"split", "send"} => chunk'.upto = got' /\ ~IsErr(chunk)',
         client' = client \/ (client' = "ended" /\ client = "open" /\ queue = <<>> /\ task = "none")
  PROVE  Delivery'
<1>1. intact' /\ ((how' = "running") <=> ~Over')
  BY DEF Delivery, given
<1>2. client' = "ended" => queue' = <<>> /\ task' = "none"
  BY DEF Delivery
<1>3. ASSUME client # "left"
      PROVE  /\ \A k \in DOMAIN queue' : queue'[k].after = Reached(k - 1)'
             /\ Reached(Len(queue))' = Sending'
             /\ \A k \in DOMAIN queue' : IsErr(queue[k])' => k = Len(queue')
             /\ ((failed' \/ ErrQueued') <=> (how' = "error"))
             /\ (failed' => queue' = <<>>)
  <2>1. UNCHANGED <<queue, seen, failed, Sending>> /\ ((how' = "error") <=> (how = "error"))
    BY <1>3 DEF given
  <2>2. ErrQueued' <=> ErrQueued
    BY SameBody
  <2>3. \A k : Reached(k)' = Reached(k)
    BY SameBody
  <2> QED
    BY <1>3, <2>1, <2>2, <2>3 DEF Delivery, IsErr
<1>4. client' = "left" => client = "left"
  OBVIOUS
<1> QED
  BY <1>1, <1>2, <1>3, <1>4 DEF Delivery

(* An item is put behind the others: the last ends where it begins.        *)
LEMMA PutDelivery ==
  ASSUME BodyType, Delivery, client = "open", how = "running", UNCHANGED <<client, given>>,
         NEW item \in Items, queue' = Append(queue, item),
         item.after = Sending, item.upto = Sending', task' \notin {"split", "send"},
         IsErr(item) <=> how' = "error", (how' = "running") <=> ~Over'
  PROVE  Delivery'
<1>1. /\ queue \in Seq(Items) /\ Len(queue) \in Nat /\ DOMAIN queue = 1 .. Len(queue)
      /\ ~failed /\ UNCHANGED <<seen, intact, failed>>
      /\ \A k \in DOMAIN queue : queue[k].after = Reached(k - 1) /\ ~IsErr(queue[k])
      /\ Reached(Len(queue)) = Sending /\ intact
  BY DEF Delivery, BodyType, given, ErrQueued
<1>2. /\ Len(queue') = Len(queue) + 1 /\ DOMAIN queue' = 1 .. Len(queue) + 1
      /\ queue'[Len(queue) + 1] = item
      /\ \A k \in DOMAIN queue : queue'[k] = queue[k]
  BY <1>1
<1>3. \A k \in 0 .. Len(queue) : Reached(k)' = Reached(k)
  BY <1>1, <1>2 DEF Reached
<1>4. \A k \in 1 .. Len(queue) + 1 : queue'[k].after = Reached(k - 1)'
  <2> SUFFICES ASSUME NEW k \in 1 .. Len(queue) + 1
               PROVE  queue'[k].after = Reached(k - 1)'
    OBVIOUS
  <2>1. k - 1 \in 0 .. Len(queue) /\ (k = Len(queue) + 1 \/ k \in DOMAIN queue)
    BY <1>1
  <2>2. Reached(k - 1)' = Reached(k - 1)
    BY <1>3, <2>1
  <2>3. CASE k = Len(queue) + 1
    BY <1>1, <1>2, <2>2, <2>3
  <2>4. CASE k \in DOMAIN queue
    BY <1>1, <1>2, <2>2, <2>4
  <2> QED
    BY <2>1, <2>3, <2>4
<1>5. Reached(Len(queue))' = Sending'
  BY <1>1, <1>2 DEF Reached
<1>6. \A k \in DOMAIN queue' : IsErr(queue[k])' <=> (k = Len(queue') /\ how' = "error")
  <2> SUFFICES ASSUME NEW k \in DOMAIN queue'
               PROVE  IsErr(queue[k])' <=> (k = Len(queue') /\ how' = "error")
    OBVIOUS
  <2>1. CASE k = Len(queue) + 1
    BY <1>2, <2>1 DEF IsErr
  <2>2. CASE k \in DOMAIN queue
    BY <1>1, <1>2, <2>2 DEF IsErr
  <2> QED
    BY <1>1, <1>2, <2>1, <2>2
<1>7. ErrQueued' <=> how' = "error"
  BY <1>1, <1>2, <1>6 DEF ErrQueued
<1> QED
  BY <1>1, <1>2, <1>4, <1>5, <1>6, <1>7 DEF Delivery

(* The client takes the first item.                                        *)
LEMMA FetchDelivery ==
  ASSUME BodyType, Delivery, Fetch
  PROVE  Delivery'
<1> DEFINE first == Head(queue)
<1>1. /\ queue \in Seq(Items) /\ queue # <<>> /\ client = "open" /\ intact /\ ~failed
      /\ \A k \in DOMAIN queue : queue[k].after = Reached(k - 1)
      /\ \A k \in DOMAIN queue : IsErr(queue[k]) => k = Len(queue)
      /\ Reached(Len(queue)) = Sending
      /\ (failed \/ ErrQueued) <=> how = "error"
  <2>1. queue # <<>> /\ client = "open"
    BY DEF Fetch
  <2> QED
    BY <2>1 DEF Delivery, BodyType
<1>2. /\ queue' = Tail(queue) /\ seen' = first.upto
      /\ intact' <=> first.after = seen
      /\ failed' <=> IsErr(first)
      /\ UNCHANGED <<client, task, chunk, got, how>>
  <2>1. /\ queue' = Tail(queue) /\ seen' = first.upto
        /\ intact' = (intact /\ ~failed /\ first.after = seen)
        /\ failed' = (failed \/ IsErr(first))
        /\ UNCHANGED <<client, task, chunk, got, how>>
    BY DEF Fetch, buffer, outcome
  <2> QED
    BY <1>1, <2>1
<1>3. Len(queue) \in Nat \ {0} /\ DOMAIN queue = 1 .. Len(queue) /\ first = queue[1]
  BY <1>1
<1>4. /\ Len(queue') = Len(queue) - 1 /\ DOMAIN queue' = 1 .. Len(queue) - 1
      /\ \A k \in 1 .. Len(queue) - 1 : queue'[k] = queue[k + 1]
  BY <1>1, <1>2
<1>5. \A k \in 0 .. Len(queue) - 1 : Reached(k)' = Reached(k + 1)
  BY <1>2, <1>3, <1>4 DEF Reached
<1>6. intact'
  BY <1>1, <1>2, <1>3 DEF Reached
<1>7. \A k \in DOMAIN queue' : queue'[k].after = Reached(k - 1)'
  <2> SUFFICES ASSUME NEW k \in DOMAIN queue' PROVE queue'[k].after = Reached(k - 1)'
    OBVIOUS
  <2>1. /\ k - 1 \in 0 .. Len(queue) - 1 /\ (k - 1) + 1 = k /\ (k + 1) - 1 = k
        /\ k + 1 \in DOMAIN queue /\ queue'[k] = queue[k + 1]
    BY <1>3, <1>4
  <2>2. queue[k + 1].after = Reached(k)
    BY <1>1, <2>1
  <2>3. Reached(k - 1)' = Reached(k)
    BY <1>5, <2>1
  <2> QED
    BY <2>1, <2>2, <2>3
<1>8. Reached(Len(queue))' = Sending'
  <2>1. Len(queue') \in 0 .. Len(queue) - 1 /\ Len(queue') + 1 = Len(queue)
    BY <1>3, <1>4
  <2>2. Reached(Len(queue))' = Reached(Len(queue))
    BY <1>5, <2>1 DEF Reached
  <2> QED
    BY <1>1, <1>2, <2>2 DEF Sending
<1>9. \A k \in DOMAIN queue' : IsErr(queue[k])' => k = Len(queue')
  <2> SUFFICES ASSUME NEW k \in DOMAIN queue', IsErr(queue[k])'
               PROVE  k = Len(queue')
    OBVIOUS
  <2>1. k \in 1 .. Len(queue) - 1 /\ k + 1 \in DOMAIN queue /\ queue'[k] = queue[k + 1]
    BY <1>3, <1>4
  <2>2. IsErr(queue[k + 1])
    BY <2>1 DEF IsErr
  <2>3. k + 1 = Len(queue)
    BY <1>1, <2>1, <2>2
  <2> QED
    BY <1>3, <1>4, <2>1, <2>3
<1>10. IsErr(first) => queue' = <<>>
  BY <1>1, <1>2, <1>3, <1>4
<1>11. (failed' \/ ErrQueued') <=> ErrQueued
  <2>1. ErrQueued <=> \E k \in 1 .. Len(queue) : IsErr(queue[k])
    BY <1>3 DEF ErrQueued
  <2>2. ErrQueued' <=> \E k \in 1 .. Len(queue) - 1 : IsErr(queue[k + 1])
    <3>1. \A k \in 1 .. Len(queue) - 1 : IsErr(queue[k])' <=> IsErr(queue[k + 1])
      BY <1>4 DEF IsErr
    <3>2. DOMAIN queue' = 1 .. Len(queue) - 1
      BY <1>4
    <3> QED
      BY <3>1, <3>2 DEF ErrQueued
  <2>3. ASSUME NEW k \in 1 .. Len(queue), k # 1
        PROVE  k - 1 \in 1 .. Len(queue) - 1 /\ (k - 1) + 1 = k
    <3>1. Len(queue) \in Nat
      BY <1>3
    <3> QED
      BY <2>3, <3>1
  <2>4. \A k \in 1 .. Len(queue) - 1 : k + 1 \in 1 .. Len(queue)
    BY <1>3
  <2>5. failed' <=> IsErr(queue[1])
    BY <1>2, <1>3
  <2>6. ErrQueued => failed' \/ ErrQueued'
    BY <2>1, <2>2, <2>3, <2>5
  <2>7. failed' \/ ErrQueued' => ErrQueued
    BY <1>3, <2>1, <2>2, <2>4, <2>5
  <2> QED
    BY <2>6, <2>7
<1>12. /\ (how' = "running") <=> ~Over'
       /\ task' \in {"split", "send"} => chunk'.upto = got' /\ ~IsErr(chunk)'
       /\ client' # "ended"
  BY <1>1, <1>2 DEF Delivery, Over, IsErr
<1> QED
  BY <1>1, <1>2, <1>6, <1>7, <1>8, <1>9, <1>10, <1>11, <1>12 DEF Delivery

(* What the loop's steps can assume of it.                                 *)
LEMMA InLoop ==
  ASSUME CollectInv, Delivery, task \in {"read", "split", "send", "fail"}
  PROVE  /\ how = "running" /\ client \in {"open", "left"} /\ got \in Nat
         /\ task \in {"split", "send"} => chunk.upto = got /\ ~IsErr(chunk)
  BY Newlines DEF CollectInv, TypeOK, BufferType, BodyType, Delivery, Over

LEMMA NextDelivery == CollectInv /\ Delivery /\ [Next]_vars => Delivery'
<1> SUFFICES ASSUME CollectInv, Delivery, [Next]_vars PROVE Delivery'
  OBVIOUS
<1>1. ASSUME NEW n, Read(n) PROVE Delivery'
  <2>1. /\ task = "read" /\ n \in Nat \ {0} /\ got' = got + n /\ chunk' = Bytes(n)
        /\ UNCHANGED <<queue, given, client, how>>
    BY <1>1, InLoop DEF Read, body, outcome
  <2>2. task' = "split" \/ (task' = "send" /\ client = "open") \/ (task' = "read" /\ client # "open")
    BY <1>1 DEF Read, Forward
  <2>3. how = "running" /\ client \in {"open", "left"} /\ got \in Nat
    BY <2>1, InLoop
  <2>4. chunk'.upto = got' /\ chunk'.after = got /\ ~IsErr(chunk)'
    BY <2>1, <2>3 DEF Bytes, IsErr
  <2> QED
    BY <2>1, <2>2, <2>3, <2>4, KeepDelivery DEF Sending, Over
<1>2. ASSUME (\E i \in Lines : Feed(i)) \/ Rest PROVE Delivery'
  <2>1. /\ task = "split" /\ UNCHANGED <<queue, given, client, how, got, chunk>>
        /\ task' = "split" \/ (task' = "send" /\ client = "open") \/ (task' = "read" /\ client # "open")
    BY <1>2 DEF Feed, Rest, Forward, body, outcome
  <2>2. how = "running" /\ client \in {"open", "left"} /\ chunk'.upto = got' /\ ~IsErr(chunk)'
    BY <2>1, InLoop DEF IsErr
  <2> QED
    BY <2>1, <2>2, KeepDelivery DEF Sending, Over
<1>3. CASE Send
  <2>1. /\ task = "send" /\ task' = "read" /\ Sent(chunk)
        /\ UNCHANGED <<given, client, how, got, chunk>>
    BY <1>3 DEF Send, outcome, buffer
  <2>2. /\ how = "running" /\ client \in {"open", "left"} /\ chunk.upto = got /\ ~IsErr(chunk)
        /\ chunk \in Items /\ BodyType
    BY <2>1, InLoop DEF CollectInv, TypeOK
  <2>3. Sending = chunk.after /\ Sending' = got /\ ~Over'
    BY <2>1 DEF Sending, Over
  <2>4. CASE client = "open"
    BY <2>1, <2>2, <2>3, <2>4, PutDelivery DEF Sent
  <2>5. CASE client = "left"
    BY <2>1, <2>2, <2>3, <2>5, KeepDelivery DEF Sent
  <2> QED
    BY <2>2, <2>4, <2>5
<1>4. ASSUME Eof \/ Deadline \/ (Error /\ client # "open") PROVE Delivery'
  <2>1. /\ task = "read" /\ task' \in {"stash", "none"} /\ how' \in {"eof", "deadline", "error"}
        /\ client = "open" => how' # "error"
        /\ UNCHANGED <<queue, given, client, got, chunk>>
    BY <1>4 DEF Eof, Deadline, Error, Leave, buffer
  <2>2. how = "running" /\ client \in {"open", "left"}
    BY <2>1, InLoop
  <2>3. Sending' = Sending /\ Over'
    BY <2>1 DEF Sending, Over
  <2> QED
    BY <2>1, <2>2, <2>3, KeepDelivery
<1>5. CASE Error /\ client = "open"
  <2>1. /\ task = "read" /\ task' = "fail" /\ UNCHANGED <<queue, given, client, got, chunk, how>>
    BY <1>5 DEF Error, buffer, outcome
  <2> QED
    BY <2>1, InLoop, KeepDelivery DEF Sending, Over
<1>6. CASE SendErr
  <2>1. /\ task = "fail" /\ task' \in {"stash", "none"} /\ how' = "error" /\ Sent(Err)
        /\ UNCHANGED <<given, client, got, chunk>>
    BY <1>6 DEF SendErr, Leave, buffer
  <2>2. how = "running" /\ client \in {"open", "left"} /\ got \in Nat /\ BodyType
    BY <2>1, InLoop DEF CollectInv, TypeOK
  <2>3. Err \in Items /\ Err.after = got /\ Err.upto = got /\ IsErr(Err)
    BY <2>2, BytesType DEF Err, Bytes, IsErr
  <2>4. Sending = got /\ Sending' = got /\ Over'
    BY <2>1 DEF Sending, Over
  <2>5. CASE client = "open"
    BY <2>1, <2>2, <2>3, <2>4, <2>5, PutDelivery DEF Sent
  <2>6. CASE client = "left"
    BY <2>1, <2>2, <2>4, <2>6, KeepDelivery DEF Sent
  <2> QED
    BY <2>2, <2>5, <2>6
<1>7. CASE Stash \/ RecordEnds
  <2>1. /\ task \in {"stash", "write"} /\ task' \in {"write", "none"}
        /\ UNCHANGED <<queue, given, client, got, chunk, how>>
    BY <1>7 DEF Stash, RecordEnds, body, buffer, outcome
  <2>2. how # "running"
    BY <2>1 DEF Delivery, Over
  <2> QED
    BY <2>1, <2>2, KeepDelivery DEF Sending, Over
<1>8. CASE Fetch
  BY <1>8, FetchDelivery DEF CollectInv, TypeOK
<1>9. CASE BodyEnds
  <2>1. /\ task = "none" /\ queue = <<>> /\ client = "open" /\ client' = "ended"
        /\ UNCHANGED <<queue, given, got, chunk, how, task>>
    BY <1>9 DEF BodyEnds, buffer, outcome
  <2>2. how # "running"
    BY <2>1 DEF Delivery, Over
  <2> QED
    BY <2>1, <2>2, KeepDelivery DEF Sending, Over
<1>10. CASE Disconnect
  BY <1>10 DEF Disconnect, Delivery, Over, IsErr, buffer, outcome, given
<1>11. CASE UNCHANGED vars
  <2>1. UNCHANGED <<queue, given, client, got, chunk, how, task>>
    BY <1>11 DEF vars, body, buffer, outcome
  <2>2. /\ (how' = "running") <=> ~Over'
        /\ task' \in {"split", "send"} => chunk'.upto = got' /\ ~IsErr(chunk)'
    BY <2>1 DEF Delivery, Over, IsErr
  <2> QED
    BY <2>1, <2>2, KeepDelivery DEF Sending
<1> QED
  BY <1>1, <1>2, <1>3, <1>4, <1>5, <1>6, <1>7, <1>8, <1>9, <1>10, <1>11 DEF Next, Loop

-----------------------------------------------------------------------------
(* What a reader should know                                               *)

(* The inductive invariant, for every answer and every way to cut it.      *)
THEOREM StreamInvariance == Spec => []StreamInv
<1>1. Init => StreamInv
  BY InitCollect, InitDelivery DEF StreamInv
<1>2. StreamInv /\ [Next]_vars => StreamInv'
  BY NextCollect, NextDelivery DEF StreamInv
<1> QED
  BY <1>1, <1>2, PTL DEF Spec

(* proxy.rs:477-489: each line that fits the buffer is fed once, in turn.  *)
THEOREM EveryLineFed == Spec => []LinesFed
<1>1. StreamInv => LinesFed
  BY Newlines DEF StreamInv, CollectInv, TypeOK, BufferType, LinesFed, Rested, Progress
<1> QED
  BY <1>1, StreamInvariance, PTL

(* proxy.rs:491-516: after a clean end the recorded turn is the answer's,  *)
(* whether the client stayed or left.                                      *)
THEOREM WholeTurnRecorded == Spec => []TurnWhole
<1>1. StreamInv => TurnWhole
  <2> SUFFICES ASSUME StreamInv, turn # NoTurn, how = "eof", \A i \in Lines : Short(i)
               PROVE  turn = Collected([i \in 1 .. Len(answer.ends) |-> i])
    BY DEF TurnWhole
  <2>1. /\ recording /\ turn = Collected(fed) /\ got = answer.total
        /\ fed = [i \in 1 .. Len(fed) |-> i] /\ Len(fed) <= Len(answer.ends)
        /\ \A i \in Lines : Short(i) /\ End(i) <= got => \E k \in DOMAIN fed : fed[k] = i
    BY Newlines DEF StreamInv, CollectInv, TypeOK, BufferType, WhenAllShort, Rested, Progress
  <2>2. Len(fed) = Len(answer.ends)
    <3>1. Len(fed) \in Nat /\ Len(answer.ends) \in Nat /\ DOMAIN fed = 1 .. Len(fed)
      BY Newlines DEF StreamInv, CollectInv, TypeOK, BufferType
    <3>2. answer \in Answers
      BY DEF StreamInv, CollectInv, TypeOK, BufferType
    <3>3. ASSUME Len(answer.ends) \in Lines PROVE Len(answer.ends) \in DOMAIN fed
      <4> DEFINE n == Len(answer.ends)
      <4>1. End(n) \in 1 .. answer.total /\ answer.total \in Nat
        BY <3>2, <3>3, Newlines
      <4>2. Short(n) /\ End(n) <= got
        BY <2>1, <3>3, <4>1
      <4>3. PICK k \in DOMAIN fed : fed[k] = n
        BY <2>1, <3>3, <4>2
      <4> QED
        BY <2>1, <3>1, <4>3
    <3>4. Len(answer.ends) = 0 \/ Len(answer.ends) \in Lines
      BY <3>1, <3>2, Newlines
    <3> QED
      BY <2>1, <3>1, <3>3, <3>4
  <2> QED
    BY <2>1, <2>2
<1> QED
  BY <1>1, StreamInvariance, PTL

(* proxy.rs:453-508: whatever the client gets is the answer's bytes in     *)
(* their order; a body that ends without an error was whole, unless the    *)
(* deadline cut it short.                                                  *)
THEOREM BodyIsWhole == Spec => []CleanEnd
<1>1. StreamInv => CleanEnd
  <2> SUFFICES ASSUME StreamInv PROVE CleanEnd
    OBVIOUS
  <2>1. intact
    BY DEF StreamInv, Delivery
  <2>2. ASSUME client = "ended", ~failed PROVE seen = answer.total \/ how = "deadline"
    <3>1. queue = <<>> /\ task = "none" /\ how # "running" /\ Reached(Len(queue)) = Sending
      BY <2>2 DEF StreamInv, Delivery, Over
    <3>2. seen = got
      BY <3>1 DEF Reached, Sending
    <3>3. how # "error"
      BY <2>2, <3>1 DEF StreamInv, Delivery, ErrQueued
    <3>4. how \in {"eof", "deadline"}
      BY <3>1, <3>3 DEF StreamInv, CollectInv, TypeOK
    <3> QED
      BY <3>2, <3>4 DEF StreamInv, CollectInv
  <2> QED
    BY <2>1, <2>2 DEF CleanEnd
<1> QED
  BY <1>1, StreamInvariance, PTL

-----------------------------------------------------------------------------
(* The stream task of module Proxy.                                        *)

(* A step of which that module sees nothing.                               *)
LEMMA Unseen ==
  ASSUME CollectInv, UNCHANGED <<client, last_turn, stored, recording, queue>>,
         task' = task \/ (task' \in {"split", "read"} /\ task \in {"split", "read"})
  PROVE  UNCHANGED P!vars
  BY DEF P!vars, P!worker, P!gate, P!request, P!marks, CollectInv, TypeOK

(* A chunk goes on to the body that is there.                              *)
LEMMA ForwardSeen ==
  ASSUME CollectInv, UNCHANGED <<client, last_turn, stored, recording, queue>>,
         task \in {"split", "read"}, Forward
  PROVE  TaskOfProxy \/ UNCHANGED P!vars
<1>1. CASE client = "open"
  <2>1. P!TaskChunk("c")
    BY <1>1 DEF Forward, P!TaskChunk, P!Listening, P!worker, P!gate, P!request, P!marks,
       CollectInv, TypeOK
  <2> QED
    BY <2>1 DEF TaskOfProxy, P!TaskStep
<1>2. CASE client # "open"
  BY <1>2, Unseen DEF Forward
<1> QED
  BY <1>1, <1>2

(* The end of the loop: the task is over, or it records.                   *)
LEMMA LeaveSeen ==
  ASSUME CollectInv, NEW why, Leave(why), task \in {"read", "fail"}
  PROVE  P!TaskRecord("c")
<1>1. CASE recording
  BY <1>1 DEF Leave, P!TaskRecord, P!request, CollectInv, TypeOK, source
<1>2. CASE ~recording
  BY <1>2 DEF Leave, P!TaskRecord, P!TaskDone, CollectInv, TypeOK, source
<1> QED
  BY <1>1, <1>2

LEMMA SentSeen ==
  ASSUME CollectInv, NEW item, Sent(item), UNCHANGED client
  PROVE  P!Sent("c")
  BY DEF Sent, P!Sent, P!Listening, CollectInv, TypeOK, BodyType

LEMMA LoopSeen ==
  ASSUME CollectInv, Loop
  PROVE  TaskOfProxy \/ UNCHANGED P!vars
<1>1. ASSUME NEW n, Read(n) PROVE TaskOfProxy \/ UNCHANGED P!vars
  <2>1. UNCHANGED <<client, last_turn, stored, recording, queue>>
    BY <1>1 DEF Read, source, marks, body
  <2>2. CASE recording
    BY <1>1, <2>1, <2>2, Unseen DEF Read
  <2>3. CASE ~recording
    BY <1>1, <2>1, <2>3, ForwardSeen DEF Read
  <2> QED
    BY <2>2, <2>3
<1>2. ASSUME NEW i, Feed(i) PROVE UNCHANGED P!vars
  BY <1>2, Unseen DEF Feed, source, marks, body
<1>3. CASE Rest
  BY <1>3, ForwardSeen DEF Rest, source, marks, body
<1>4. CASE Send
  <2>1. P!TaskSend("c")
    BY <1>4, SentSeen DEF Send, P!TaskSend, P!worker, P!gate, P!request, P!marks, CollectInv,
       TypeOK, source, marks
  <2> QED
    BY <2>1 DEF TaskOfProxy, P!TaskStep
<1>5. CASE Eof \/ Deadline
  <2>1. /\ task = "read" /\ P!TaskRecord("c")
        /\ UNCHANGED <<client, queue, last_turn, stored>>
    BY <1>5, LeaveSeen DEF Eof, Deadline, Leave, marks
  <2>2. P!TaskEnd("c")
    BY <2>1 DEF P!TaskEnd, P!worker, P!gate, P!marks
  <2> QED
    BY <2>2 DEF TaskOfProxy, P!TaskStep
<1>6. CASE Error
  <2>1. P!TaskError("c")
    <3>1. CASE client = "open"
      BY <1>6, <3>1 DEF Error, P!TaskError, P!Listening, P!worker, P!gate, P!request, P!marks,
         CollectInv, TypeOK, source, marks
    <3>2. CASE client # "open"
      BY <1>6, <3>2, LeaveSeen DEF Error, Leave, P!TaskError, P!Listening, P!worker, P!gate,
         P!marks, CollectInv, TypeOK, source, marks
    <3> QED
      BY <3>1, <3>2
  <2> QED
    BY <2>1 DEF TaskOfProxy, P!TaskStep
<1>7. CASE SendErr
  <2>1. P!TaskFail("c")
    BY <1>7, SentSeen, LeaveSeen DEF SendErr, Leave, P!TaskFail, P!worker, P!gate, P!marks,
       CollectInv, TypeOK, source, marks
  <2> QED
    BY <2>1 DEF TaskOfProxy, P!TaskStep
<1> QED
  BY <1>1, <1>2, <1>3, <1>4, <1>5, <1>6, <1>7 DEF Loop

LEMMA RecordSeen ==
  ASSUME CollectInv, Stash \/ RecordEnds
  PROVE  TaskOfProxy
<1>1. recording
  BY DEF Stash, RecordEnds, CollectInv
<1>2. CASE Stash
  <2>1. P!Stash("c")
    BY <1>2 DEF Stash, P!Stash, P!worker, P!gate, P!request, CollectInv, TypeOK, source, body
  <2> QED
    BY <2>1 DEF TaskOfProxy, P!RecordStep
<1>3. CASE RecordEnds
  <2>1. P!RecordDone("c")
    BY <1>3 DEF RecordEnds, P!RecordDone, P!TaskDone, P!gate, CollectInv, TypeOK, source, body
  <2>2. P!MayBeStored("c")
    BY <1>3 DEF RecordEnds, P!MayBeStored, CollectInv, TypeOK
  <2>3. P!DbTimeout("c")
    BY <1>3, <2>1, <2>2 DEF RecordEnds, P!DbTimeout, P!Expires, P!worker, body
  <2> QED
    BY <2>3 DEF TaskOfProxy, P!RecordStep
<1> QED
  BY <1>2, <1>3

LEMMA ClientSeen ==
  ASSUME CollectInv, Fetch \/ BodyEnds \/ Disconnect
  PROVE  TaskOfProxy
<1>1. CASE Fetch
  <2>1. Len(queue) > 0 /\ Len(queue') = Len(queue) - 1
    BY <1>1 DEF Fetch, CollectInv, TypeOK, BodyType
  <2>2. P!ClientReads("c")
    BY <1>1, <2>1 DEF Fetch, P!ClientReads, P!worker, P!gate, P!request, P!marks, CollectInv,
       TypeOK, source, marks
  <2> QED
    BY <2>2 DEF TaskOfProxy
<1>2. CASE BodyEnds
  <2>1. P!BodyEnds("c")
    BY <1>2 DEF BodyEnds, P!BodyEnds, P!Goto, P!worker, P!gate, P!request, P!marks, CollectInv,
       TypeOK, source, marks
  <2> QED
    BY <2>1 DEF TaskOfProxy
<1>3. CASE Disconnect
  <2>1. P!Disconnect("c")
    BY <1>3, NothingQueued DEF Disconnect, P!Disconnect, P!Goto, P!worker, P!gate, P!request,
       P!HandlerLabels, CollectInv, TypeOK, source, marks
  <2> QED
    BY <2>1 DEF TaskOfProxy
<1> QED
  BY <1>1, <1>2, <1>3

(* proxy.rs:449-530: the task that works on bytes takes only the steps the *)
(* stream task of module Proxy may take, so what is proved there of the    *)
(* gate holds with it in place of that one.                                *)
THEOREM TaskRefinement == Spec => ImplementsTask
<1>1. CollectInv /\ [Next]_vars => [TaskOfProxy]_(P!vars)
  <2> SUFFICES ASSUME CollectInv, [Next]_vars PROVE [TaskOfProxy]_(P!vars)
    OBVIOUS
  <2>1. CASE UNCHANGED vars
    BY <2>1, Unseen DEF vars, source, marks, body
  <2> QED
    BY <2>1, LoopSeen, RecordSeen, ClientSeen DEF Next
<1>2. StreamInv => CollectInv
  BY DEF StreamInv
<1> QED
  BY <1>1, <1>2, StreamInvariance, PTL DEF Spec, ImplementsTask
===============================================================================
