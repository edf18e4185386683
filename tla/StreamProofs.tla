---------------------------- MODULE StreamProofs ----------------------------
(***************************************************************************)
(* Stream buffers, for every length and every choice of calls: the types,  *)
(* that neither side sleeps through what the other did for it, that bytes  *)
(* and messages arrive complete, once and in order, and that the two sides *)
(* do not wait for one another.                                            *)
(***************************************************************************)
EXTENDS StreamBuffer, ListOpsProofs

-----------------------------------------------------------------------------
(***************************************************************************)
(* The ring                                                                *)
(***************************************************************************)

\* An index less than twice the length is brought back into the ring.
LEMMA WrappedInRing ==
    ASSUME NEW n \in 0 .. 2 * xLength - 1
    PROVE  Wrapped(n) \in 0 .. xLength - 1
BY StreamBufferAssumption DEF Wrapped

\* Bytes and spaces are what the ring holds, which is one byte less than its length.
LEMMA BytesAndSpaces ==
    ASSUME TypeOK
    PROVE  /\ BytesInBuffer \in 0 .. xLength - 1
           /\ SpacesAvailable \in 0 .. xLength - 1
           /\ BytesInBuffer + SpacesAvailable = xLength - 1
BY StreamBufferAssumption DEF TypeOK, BytesInBuffer, SpacesAvailable, Wrapped

LEMMA FrameBytesType == FrameBytes \in Nat
BY StreamBufferAssumption DEF FrameBytes

LEMMA RequiredSpaceType ==
    ASSUME NEW data \in Seq(Nat)
    PROVE  RequiredSpace(data) \in Nat
BY StreamBufferAssumption DEF RequiredSpace, Min2

LEMMA PayloadType ==
    ASSUME NEW data \in Payloads
    PROVE  data \in Seq(Nat)
BY StreamBufferAssumption

LEMMA FrameType ==
    ASSUME NEW data \in Seq(Nat)
    PROVE  Frame(data) \in Seq(Nat) /\ Len(Frame(data)) = LengthBytes + Len(data)
<1> DEFINE length == [i \in 1 .. LengthBytes |-> IF i = 1 THEN Len(data) ELSE 0]
<1>1. length \in Seq(Nat) /\ Len(length) = LengthBytes
  BY StreamBufferAssumption
<1> HIDE DEF length
<1>2. length \o data \in Seq(Nat) /\ Len(length \o data) = LengthBytes + Len(data)
  BY <1>1, StreamBufferAssumption
<1> QED  BY <1>2 DEF Frame, length

\* What is written fits the space it was measured for.
LEMMA ToWriteFits ==
    ASSUME NEW data \in Seq(Nat), NEW space \in 0 .. xLength - 1
    PROVE  ToWrite(data, space) \in Seq(Nat) /\ Len(ToWrite(data, space)) <= space
<1>1. CASE isMessageBuffer /\ space >= Len(data) + LengthBytes
  BY <1>1, FrameType, StreamBufferAssumption DEF ToWrite
<1>2. CASE isMessageBuffer /\ ~(space >= Len(data) + LengthBytes)
  <2>1. ToWrite(data, space) = <<>>
    BY <1>2 DEF ToWrite
  <2> QED  BY <2>1, StreamBufferAssumption
<1>3. CASE ~isMessageBuffer
  <2> DEFINE n == Min2(Len(data), space)
  <2>1. n \in 0 .. Len(data) /\ n <= space
    BY StreamBufferAssumption DEF Min2
  <2>2. ToWrite(data, space) = SubSeq(data, 1, n)
    BY <1>3 DEF ToWrite
  <2> HIDE DEF n
  <2>3. SubSeq(data, 1, n) \in Seq(Nat) /\ Len(SubSeq(data, 1, n)) = n
    BY <2>1
  <2> QED  BY <2>1, <2>2, <2>3
<1> QED  BY <1>1, <1>2, <1>3

\* A write keeps the types of the ring.
LEMMA WriteKeepsRing ==
    ASSUME TypeOK, NEW bytes \in Seq(Nat), Len(bytes) <= xLength - 1, Write(bytes)
    PROVE  /\ xHead' \in 0 .. xLength - 1 /\ xTail' \in 0 .. xLength - 1
           /\ pucBuffer' \in [0 .. xLength - 1 -> Nat]
<1>1. xHead' \in 0 .. xLength - 1
  <2>1. xHead + Len(bytes) \in 0 .. 2 * xLength - 1
    BY StreamBufferAssumption DEF TypeOK
  <2> QED  BY <2>1, WrappedInRing DEF Write
<1>2. RingWith(bytes) \in [0 .. xLength - 1 -> Nat]
  <2> DEFINE Offset(i) == IF i >= xHead THEN i - xHead ELSE i + xLength - xHead
  <2>1. ASSUME NEW i \in 0 .. xLength - 1
        PROVE  (IF Offset(i) < Len(bytes) THEN bytes[Offset(i) + 1] ELSE pucBuffer[i]) \in Nat
    <3>1. Offset(i) \in Nat
      BY StreamBufferAssumption DEF TypeOK
    <3> HIDE DEF Offset
    <3>2. CASE Offset(i) < Len(bytes)
      <4>1. Offset(i) + 1 \in 1 .. Len(bytes)
        BY <3>1, <3>2
      <4> QED  BY <3>2, <4>1
    <3>3. CASE ~(Offset(i) < Len(bytes))
      BY <3>3 DEF TypeOK
    <3> QED  BY <3>2, <3>3
  <2> QED  BY <2>1 DEF RingWith
<1> QED  BY <1>1, <1>2 DEF Write, TypeOK

\* What is read was available, with the length that precedes it.
LEMMA ToReadIsThere ==
    ASSUME TypeOK, NEW wanted \in Nat, NEW available \in 0 .. xLength - 1,
           ~(available <= FrameBytes)
    PROVE  /\ ToRead(wanted, available) \in Nat
           /\ FrameBytes + ToRead(wanted, available) <= available
<1>1. pucBuffer[xTail] \in Nat
  BY DEF TypeOK
<1> QED  BY <1>1, StreamBufferAssumption DEF ToRead, FrameBytes, Min2

LEMMA ReadKeepsRing ==
    ASSUME TypeOK, NEW count \in Nat, FrameBytes + count <= xLength - 1, Read(count)
    PROVE  /\ xHead' \in 0 .. xLength - 1 /\ xTail' \in 0 .. xLength - 1
           /\ pucBuffer' \in [0 .. xLength - 1 -> Nat]
           /\ pvRxData' \in Seq(Nat)
<1>1. xTail' \in 0 .. xLength - 1
  <2>1. xTail + (FrameBytes + count) \in 0 .. 2 * xLength - 1
    BY FrameBytesType, StreamBufferAssumption DEF TypeOK
  <2> QED  BY <2>1, WrappedInRing DEF Read
<1>2. pucBuffer' \in [0 .. xLength - 1 -> Nat]
  BY DEF Read, TypeOK
<1>3. pvRxData' \in Seq(Nat)
  <2> DEFINE index == Wrapped(xTail + FrameBytes)
  <2>1. index \in 0 .. xLength - 1
    <3>1. xTail + FrameBytes \in 0 .. 2 * xLength - 1
      BY FrameBytesType, StreamBufferAssumption DEF TypeOK
    <3> QED  BY <3>1, WrappedInRing
  <2> HIDE DEF index
  <2>2. ASSUME NEW k \in 1 .. count
        PROVE  pucBuffer[Wrapped(index + k - 1)] \in Nat
    <3>1. index + k - 1 \in 0 .. 2 * xLength - 1
      BY <2>1, FrameBytesType, StreamBufferAssumption
    <3>2. Wrapped(index + k - 1) \in 0 .. xLength - 1
      BY <3>1, WrappedInRing
    <3> QED  BY <3>2 DEF TypeOK
  <2>3. BytesFrom(index, count) \in Seq(Nat)
    BY <2>2 DEF BytesFrom
  <2> QED  BY <2>3 DEF Read, index
<1> QED  BY <1>1, <1>2, <1>3 DEF Read, TypeOK

-----------------------------------------------------------------------------
(***************************************************************************)
(* Types                                                                   *)
(***************************************************************************)

LEMMA InitType == Init => TypeOK
<1> SUFFICES ASSUME Init
             PROVE  TypeOK
  OBVIOUS
<1>1. xHead \in 0 .. xLength - 1 /\ xTail \in 0 .. xLength - 1
  BY StreamBufferAssumption DEF Init
<1>2. pucBuffer \in [0 .. xLength - 1 -> Nat]
  BY DEF Init
<1>3. xTriggerLevelBytes \in 1 .. xLength - 1
  BY StreamBufferAssumption DEF Init
<1>4. xTaskWaitingToSend \in BOOLEAN /\ xTaskWaitingToReceive \in BOOLEAN
  BY DEF Init
<1>5. ucNotifyState \in [Sides -> NotifyStates] /\ pc \in [Sides -> Steps]
  BY DEF Init, NotifyStates, Steps
<1>6. xTicksToWait \in [Sides -> {"none", "finite", "forever"}]
  BY DEF Init
<1>7. pvTxData \in Seq(Nat) /\ pvRxData \in Seq(Nat)
  BY DEF Init
<1>8. xSpace \in 0 .. xLength - 1 /\ xBytesAvailable \in 0 .. xLength - 1
  BY StreamBufferAssumption DEF Init
<1>9. isMessageBuffer \in BOOLEAN /\ isrs \subseteq Sides /\ xBufferLengthBytes \in Nat
  BY DEF Init
<1> QED  BY <1>1, <1>2, <1>3, <1>4, <1>5, <1>6, <1>7, <1>8, <1>9 DEF Init, TypeOK

\* The two ends of a call.
LEMMA ReturnType ==
    ASSUME TypeOK, NEW s \in Sides, Return(s)
    PROVE  /\ pc' \in [Sides -> Steps] /\ late' \subseteq Sides
           /\ xTicksToWait' \in [Sides -> {"none", "finite", "forever"}]
<1>1. pc' \in [Sides -> Steps]
  BY DEF TypeOK, Return, Go, Steps
<1>2. late' \subseteq Sides
  BY DEF TypeOK, Return
<1>3. xTicksToWait' \in [Sides -> {"none", "finite", "forever"}]
  BY DEF TypeOK, Return
<1> QED  BY <1>1, <1>2, <1>3

LEMMA GoType ==
    ASSUME TypeOK, NEW s \in Sides, NEW step \in Steps, Go(s, step)
    PROVE  pc' \in [Sides -> Steps]
BY DEF TypeOK, Go

LEMMA NotifyType ==
    ASSUME TypeOK, NEW s \in Sides, Notify(s)
    PROVE  ucNotifyState' \in [Sides -> NotifyStates] /\ blocked' \subseteq Sides
<1>1. ucNotifyState' \in [Sides -> NotifyStates]
  BY DEF TypeOK, Notify, NotifyStates
<1>2. blocked' \subseteq Sides
  <2>1. CASE ucNotifyState[s] = "waiting"
    BY <2>1 DEF TypeOK, Notify
  <2>2. CASE ucNotifyState[s] # "waiting"
    BY <2>2 DEF TypeOK, Notify
  <2> QED  BY <2>1, <2>2
<1> QED  BY <1>1, <1>2

LEMMA SendTypes ==
    ASSUME TypeOK,
           \/ \E data \in Payloads : \E w \in Waits : Send(data, w)
           \/ \E data \in Payloads : SendFromISR(data)
           \/ SendSteps
    PROVE  TypeOK'
<1> USE DEF ring, setup, noted, times, txCall, rxCall, notifyVars
<1>0. "writer" \in Sides /\ "reader" \in Sides
  BY DEF Sides
<1>1. ASSUME NEW data \in Payloads, NEW w \in Waits, Send(data, w)
      PROVE  TypeOK'
  <2>1. pvTxData' \in Seq(Nat)
    BY <1>1, PayloadType DEF Send
  <2>2. xTicksToWait' \in [Sides -> {"none", "finite", "forever"}]
    BY <1>1, StreamBufferAssumption DEF Send, TypeOK
  <2>3. pc' \in [Sides -> Steps]
    BY <1>1, <1>0 DEF Send, Go, Steps, TypeOK
  <2> QED  BY <1>1, <2>1, <2>2, <2>3 DEF Send, TypeOK
<1>2. ASSUME NEW data \in Payloads, SendFromISR(data)
      PROVE  TypeOK'
  <2> DEFINE bytes == ToWrite(data, SpacesAvailable)
  <2>1. pvTxData' \in Seq(Nat)
    BY <1>2, PayloadType DEF SendFromISR
  <2>2. bytes \in Seq(Nat) /\ Len(bytes) <= xLength - 1
    BY PayloadType, BytesAndSpaces, ToWriteFits, StreamBufferAssumption
  <2>3. CASE bytes = <<>>
    BY <1>2, <2>1, <2>3 DEF SendFromISR, TypeOK
  <2>4. CASE bytes # <<>>
    <3>1. Write(bytes)
      BY <1>2, <2>4 DEF SendFromISR
    <3> HIDE DEF bytes
    <3>2. /\ xHead' \in 0 .. xLength - 1 /\ xTail' \in 0 .. xLength - 1
          /\ pucBuffer' \in [0 .. xLength - 1 -> Nat]
      BY <2>2, <3>1, WriteKeepsRing
    <3>3. \/ SendCompleted
          \/ UNCHANGED <<notifyVars, xTaskWaitingToReceive>>
      BY <1>2, <2>4 DEF SendFromISR, bytes
    <3>4. /\ ucNotifyState' \in [Sides -> NotifyStates] /\ blocked' \subseteq Sides
          /\ xTaskWaitingToReceive' \in BOOLEAN
      BY <1>0, <3>3, NotifyType DEF SendCompleted, TypeOK
    <3>5. xTaskWaitingToSend' \in BOOLEAN
      BY <1>2, <2>4 DEF SendFromISR, bytes, TypeOK
    <3> QED  BY <1>2, <2>1, <3>2, <3>4, <3>5 DEF SendFromISR, TypeOK
  <2> QED  BY <2>3, <2>4
<1>3. CASE SendCheck
  <2>1. xSpace' \in 0 .. xLength - 1
    BY <1>3, BytesAndSpaces DEF SendCheck
  <2>2. ucNotifyState' \in [Sides -> NotifyStates]
    BY <1>3 DEF SendCheck, ClearedState, NotifyStates, TypeOK
  <2>3. pc' \in [Sides -> Steps]
    BY <1>3, <1>0, GoType DEF SendCheck, Steps
  <2> QED  BY <1>3, <2>1, <2>2, <2>3 DEF SendCheck, TypeOK
<1>4. CASE SendClear
  BY <1>4, <1>0 DEF SendClear, Go, Steps, TypeOK
<1>5. CASE SendMeasure
  <2>1. xSpace' \in 0 .. xLength - 1
    BY <1>5, BytesAndSpaces DEF SendMeasure, TypeOK
  <2> QED  BY <1>5, <1>0, <2>1, GoType DEF SendMeasure, Steps, TypeOK
<1>6. CASE SendCopy
  <2> DEFINE bytes == ToWrite(pvTxData, xSpace)
  <2>1. bytes \in Seq(Nat) /\ Len(bytes) <= xLength - 1
    BY ToWriteFits, StreamBufferAssumption DEF TypeOK
  <2>2. CASE bytes = <<>>
    <3>1. Return("writer") /\ pvTxData' = <<>> /\ xSpace' = 0 /\ UNCHANGED ring
      BY <1>6, <2>2 DEF SendCopy, SendReturn
    <3>2. /\ pc' \in [Sides -> Steps] /\ late' \subseteq Sides
          /\ xTicksToWait' \in [Sides -> {"none", "finite", "forever"}]
      BY <1>0, <3>1, ReturnType
    <3>3. pvTxData' \in Seq(Nat) /\ xSpace' \in 0 .. xLength - 1
      BY <3>1, StreamBufferAssumption
    <3>4. UNCHANGED <<ring, setup, noted, notifyVars, rxCall>>
      BY <1>6, <3>1 DEF SendCopy
    <3> HIDE DEF bytes
    <3> QED  BY <3>2, <3>3, <3>4 DEF TypeOK
  <2>3. CASE bytes # <<>>
    <3>1. Write(bytes) /\ Go("writer", "completed") /\ UNCHANGED <<times, txCall>>
      BY <1>6, <2>3 DEF SendCopy
    <3> HIDE DEF bytes
    <3>2. /\ xHead' \in 0 .. xLength - 1 /\ xTail' \in 0 .. xLength - 1
          /\ pucBuffer' \in [0 .. xLength - 1 -> Nat]
      BY <2>1, <3>1, WriteKeepsRing
    <3>3. pc' \in [Sides -> Steps]
      BY <1>0, <3>1, GoType DEF Steps
    <3> QED  BY <1>6, <3>1, <3>2, <3>3 DEF SendCopy, TypeOK
  <2> QED  BY <2>2, <2>3
<1>7. CASE SendEnough
  BY <1>7, <1>0, GoType DEF SendEnough, Steps, TypeOK
<1>8. CASE SendTooLittle
  <2>1. Return("writer") /\ pvTxData' = <<>> /\ xSpace' = 0
    BY <1>8 DEF SendTooLittle, SendReturn
  <2>2. /\ pc' \in [Sides -> Steps] /\ late' \subseteq Sides
        /\ xTicksToWait' \in [Sides -> {"none", "finite", "forever"}]
    BY <1>0, <2>1, ReturnType
  <2> QED  BY <1>8, <2>1, <2>2, StreamBufferAssumption DEF SendTooLittle, TypeOK
<1>9. CASE SendNotify
  <2>1. Return("writer") /\ pvTxData' = <<>> /\ xSpace' = 0
    BY <1>9 DEF SendNotify, SendReturn
  <2>2. /\ pc' \in [Sides -> Steps] /\ late' \subseteq Sides
        /\ xTicksToWait' \in [Sides -> {"none", "finite", "forever"}]
    BY <1>0, <2>1, ReturnType
  <2>3. /\ ucNotifyState' \in [Sides -> NotifyStates] /\ blocked' \subseteq Sides
        /\ xTaskWaitingToReceive' \in BOOLEAN
    BY <1>9, <1>0, NotifyType DEF SendNotify, SendCompleted, TypeOK
  <2> QED  BY <1>9, <2>1, <2>2, <2>3, StreamBufferAssumption DEF SendNotify, TypeOK
<1> QED  BY <1>1, <1>2, <1>3, <1>4, <1>5, <1>6, <1>7, <1>8, <1>9 DEF SendSteps

LEMMA ReceiveTypes ==
    ASSUME TypeOK,
           \/ \E size \in ReadSizes : \E w \in Waits : Receive(size, w)
           \/ \E size \in ReadSizes : ReceiveFromISR(size)
           \/ ReceiveSteps
    PROVE  TypeOK'
<1> USE DEF ring, setup, noted, times, txCall, rxCall, notifyVars
<1>0. "writer" \in Sides /\ "reader" \in Sides
  BY DEF Sides
<1>1. ASSUME NEW size \in ReadSizes, NEW w \in Waits, Receive(size, w)
      PROVE  TypeOK'
  <2>1. xBufferLengthBytes' \in Nat
    BY <1>1, StreamBufferAssumption DEF Receive
  <2>2. xTicksToWait' \in [Sides -> {"none", "finite", "forever"}]
    BY <1>1, StreamBufferAssumption DEF Receive, TypeOK
  <2>3. pc' \in [Sides -> Steps]
    BY <1>1, <1>0 DEF Receive, Go, Steps, TypeOK
  <2> QED  BY <1>1, <2>1, <2>2, <2>3 DEF Receive, TypeOK
<1>2. ASSUME NEW size \in ReadSizes, ReceiveFromISR(size)
      PROVE  TypeOK'
  <2> DEFINE count == ToRead(size, BytesInBuffer)
  <2>1. count \in Nat /\ FrameBytes + count <= xLength - 1
    <3>1. size \in Nat
      BY StreamBufferAssumption
    <3>2. count \in Nat /\ FrameBytes + count <= BytesInBuffer
      BY <1>2, <3>1, BytesAndSpaces, ToReadIsThere DEF ReceiveFromISR, NothingToRead
    <3> HIDE DEF count
    <3> QED  BY <3>2, BytesAndSpaces, FrameBytesType, StreamBufferAssumption
  <2>2. Read(count)
    BY <1>2 DEF ReceiveFromISR
  <2> HIDE DEF count
  <2>3. /\ xHead' \in 0 .. xLength - 1 /\ xTail' \in 0 .. xLength - 1
        /\ pucBuffer' \in [0 .. xLength - 1 -> Nat]
        /\ pvRxData' \in Seq(Nat)
    BY <2>1, <2>2, ReadKeepsRing
  <2>4. /\ ucNotifyState' \in [Sides -> NotifyStates] /\ blocked' \subseteq Sides
        /\ xTaskWaitingToSend' \in BOOLEAN
    BY <1>2, <1>0, NotifyType DEF ReceiveFromISR, ReceiveCompleted, TypeOK
  <2> QED  BY <1>2, <2>3, <2>4 DEF ReceiveFromISR, TypeOK
<1>3. CASE ReceiveCheck
  <2>1. xBytesAvailable' \in 0 .. xLength - 1
    BY <1>3, BytesAndSpaces DEF ReceiveCheck, TypeOK
  <2>2. ucNotifyState' \in [Sides -> NotifyStates]
    BY <1>3 DEF ReceiveCheck, ClearedState, NotifyStates, TypeOK
  <2>3. pc' \in [Sides -> Steps]
    BY <1>3, <1>0, GoType DEF ReceiveCheck, Steps
  <2> QED  BY <1>3, <2>1, <2>2, <2>3 DEF ReceiveCheck, TypeOK
<1>4. CASE ReceiveClear
  BY <1>4, <1>0, GoType DEF ReceiveClear, Steps, TypeOK
<1>5. CASE ReceiveMeasure
  <2>1. xBytesAvailable' \in 0 .. xLength - 1
    BY <1>5, BytesAndSpaces DEF ReceiveMeasure
  <2> QED  BY <1>5, <1>0, <2>1, GoType DEF ReceiveMeasure, Steps, TypeOK
<1>6. CASE ReceiveCopy
  <2> DEFINE count == ToRead(xBufferLengthBytes, xBytesAvailable)
  <2>1. CASE xBytesAvailable <= FrameBytes \/ count = 0
    <3>1. ReceiveReturn /\ UNCHANGED ring
      BY <1>6, <2>1 DEF ReceiveCopy
    <3>2. /\ pc' \in [Sides -> Steps] /\ late' \subseteq Sides
          /\ xTicksToWait' \in [Sides -> {"none", "finite", "forever"}]
      BY <1>0, <3>1, ReturnType DEF ReceiveReturn
    <3> QED  BY <1>6, <3>1, <3>2, StreamBufferAssumption DEF ReceiveCopy, ReceiveReturn, TypeOK
  <2>2. CASE ~(xBytesAvailable <= FrameBytes) /\ count # 0
    <3>1. count \in Nat /\ FrameBytes + count <= xLength - 1
      <4>1. count \in Nat /\ FrameBytes + count <= xBytesAvailable
        BY <2>2, ToReadIsThere DEF TypeOK
      <4> HIDE DEF count
      <4> QED  BY <4>1, FrameBytesType, StreamBufferAssumption DEF TypeOK
    <3>2. Read(count) /\ Go("reader", "notify")
      BY <1>6, <2>2 DEF ReceiveCopy
    <3>3. UNCHANGED <<times, xBufferLengthBytes, xBytesAvailable>>
      BY <1>6, <2>2 DEF ReceiveCopy
    <3> HIDE DEF count
    <3>4. /\ xHead' \in 0 .. xLength - 1 /\ xTail' \in 0 .. xLength - 1
          /\ pucBuffer' \in [0 .. xLength - 1 -> Nat]
          /\ pvRxData' \in Seq(Nat)
      BY <3>1, <3>2, ReadKeepsRing
    <3>5. pc' \in [Sides -> Steps]
      BY <1>0, <3>2, GoType DEF Steps
    <3> QED  BY <1>6, <3>3, <3>4, <3>5 DEF ReceiveCopy, TypeOK
  <2> QED  BY <2>1, <2>2
<1>7. CASE ReceiveNotify
  <2>1. ReceiveReturn
    BY <1>7 DEF ReceiveNotify
  <2>2. /\ pc' \in [Sides -> Steps] /\ late' \subseteq Sides
        /\ xTicksToWait' \in [Sides -> {"none", "finite", "forever"}]
    BY <1>0, <2>1, ReturnType DEF ReceiveReturn
  <2>3. /\ ucNotifyState' \in [Sides -> NotifyStates] /\ blocked' \subseteq Sides
        /\ xTaskWaitingToSend' \in BOOLEAN
    BY <1>7, <1>0, NotifyType DEF ReceiveNotify, ReceiveCompleted, TypeOK
  <2> QED  BY <1>7, <2>1, <2>2, <2>3, StreamBufferAssumption
           DEF ReceiveNotify, ReceiveReturn, TypeOK
<1> QED  BY <1>1, <1>2, <1>3, <1>4, <1>5, <1>6, <1>7 DEF ReceiveSteps

LEMMA StepType == TypeOK /\ [Next]_vars => TypeOK'
<1> SUFFICES ASSUME TypeOK, [Next]_vars
             PROVE  TypeOK'
  OBVIOUS
<1> USE DEF ring, setup, noted, times, txCall, rxCall, notifyVars
<1>1. CASE \/ \E data \in Payloads : \E w \in Waits : Send(data, w)
           \/ \E data \in Payloads : SendFromISR(data)
           \/ SendSteps
  BY <1>1, SendTypes
<1>2. CASE \/ \E size \in ReadSizes : \E w \in Waits : Receive(size, w)
           \/ \E size \in ReadSizes : ReceiveFromISR(size)
           \/ ReceiveSteps
  BY <1>2, ReceiveTypes
<1>3. ASSUME NEW s \in Sides, Wait(s)
      PROVE  TypeOK'
  BY <1>3 DEF Wait, WaitForNotification, Go, Steps, NotifyStates, TypeOK
<1>4. ASSUME NEW s \in Sides, Woken(s)
      PROVE  TypeOK'
  BY <1>4 DEF Woken, EndWait, Go, Steps, NotifyStates, TypeOK
<1>5. ASSUME NEW s \in Sides, Expire(s)
      PROVE  TypeOK'
  BY <1>5 DEF Expire, WakeUp, TypeOK
<1>6. ASSUME NEW n \in TriggerLevels, SetTriggerLevel(n)
      PROVE  TypeOK'
  BY <1>6, StreamBufferAssumption DEF SetTriggerLevel, TypeOK
<1>7. CASE Reset
  BY <1>7, StreamBufferAssumption DEF Reset, TypeOK
<1>8. CASE UNCHANGED vars
  BY <1>8 DEF vars, TypeOK
<1> QED  BY <1>1, <1>2, <1>3, <1>4, <1>5, <1>6, <1>7, <1>8 DEF Next

\* The variables keep their types: indices, counts and the trigger level stay within
\* the ring whatever is written and read.
THEOREM TypeCorrect == Spec => []TypeOK
<1>1. Init => TypeOK
  BY InitType
<1>2. TypeOK /\ [Next]_vars => TypeOK'
  BY StepType
<1> QED  BY <1>1, <1>2, PTL DEF Spec

-----------------------------------------------------------------------------
(***************************************************************************)
(* The inductive invariant: who is blocked, or about to block, is noted,   *)
(* and misses nothing that the other side has already looked past.         *)
(***************************************************************************)

Noted(s) == IF s = "reader" THEN xTaskWaitingToReceive ELSE xTaskWaitingToSend

\* Nothing but a notification or the end of the block time lets it go on.
Asleep(s) == s \in blocked \/ (pc[s] = "wait" /\ ucNotifyState[s] # "received")

InterruptsDoNotWait == \A s \in isrs : pc[s] = "out"
BlockedInWait == \A s \in blocked : pc[s] = "woken" /\ ucNotifyState[s] = "waiting"
AsleepIsNoted == \A s \in Sides : Asleep(s) => Noted(s)
\* Only while the trigger level is not changed beside a waiting reader.
DataIsSeen ==
    ~LevelWhileWaiting /\ Asleep("reader") /\ ~NothingToRead /\ TriggerReached =>
        pc["writer"] \in {"completed", "notify"}
SpaceIsSeen ==
    Asleep("writer") /\ SpacesAvailable >= RequiredSpace(pvTxData) =>
        pc["reader"] = "notify"

WakeupInv == /\ TypeOK /\ InterruptsDoNotWait /\ BlockedInWait /\ AsleepIsNoted
             /\ DataIsSeen /\ SpaceIsSeen

\* What the two sides compare, while the ring and its setup stay as they are.
LEMMA RingUnmoved ==
    ASSUME UNCHANGED <<xHead, xTail, xTriggerLevelBytes, isMessageBuffer>>
    PROVE  /\ NothingToRead' <=> NothingToRead
           /\ TriggerReached' <=> TriggerReached
           /\ SpacesAvailable' = SpacesAvailable
           /\ RequiredSpace(pvTxData)' = RequiredSpace(pvTxData')
           /\ RequiredSpace(pvTxData') = IF isMessageBuffer THEN Len(pvTxData') + LengthBytes
                                         ELSE Min2(Len(pvTxData'), xLength - 1)
BY DEF NothingToRead, TriggerReached, SpacesAvailable, RequiredSpace, BytesInBuffer, FrameBytes,
       Wrapped, Min2

LEMMA InitWakeup == Init => WakeupInv
BY InitType DEF Init, WakeupInv, InterruptsDoNotWait, BlockedInWait, AsleepIsNoted, DataIsSeen,
                SpaceIsSeen, Asleep, Sides

\* A step of one side that is awake before and after, and leaves the other no worse.
LEMMA AwakeStep ==
    ASSUME WakeupInv, TypeOK', NEW s \in Sides, NEW o \in Sides, o # s,
           UNCHANGED isrs,
           pc[s] \notin {"wait", "woken"}, pc'[s] # "wait", s \in isrs => pc'[s] = pc[s],
           pc'[o] = pc[o],
           blocked' \subseteq blocked,
           o \in blocked' => ucNotifyState'[o] = ucNotifyState[o],
           Asleep(o)' => Noted(o)'
    PROVE  ~Asleep(s)' /\ InterruptsDoNotWait' /\ BlockedInWait' /\ AsleepIsNoted'
<1>1. \A u \in Sides : u = s \/ u = o
  BY DEF Sides
<1>2. s \notin blocked'
  BY DEF WakeupInv, BlockedInWait
<1>3. ~Asleep(s)'
  BY <1>2 DEF Asleep
<1>4. InterruptsDoNotWait'
  BY <1>1 DEF InterruptsDoNotWait, WakeupInv, TypeOK
<1>5. BlockedInWait'
  BY <1>1, <1>2 DEF BlockedInWait, WakeupInv, TypeOK
<1>6. AsleepIsNoted'
  BY <1>1, <1>3 DEF AsleepIsNoted
<1> QED  BY <1>3, <1>4, <1>5, <1>6

\* A notification ends the sleep of the task it is for.
LEMMA NotifiedIsAwake ==
    ASSUME TypeOK, BlockedInWait, NEW s \in Sides, Notify(s)
    PROVE  ~Asleep(s)' /\ s \notin blocked' /\ blocked' \subseteq blocked
<1>1. ucNotifyState'[s] = "received"
  BY DEF Notify, TypeOK
<1>2. s \notin blocked'
  BY DEF Notify, BlockedInWait
<1>3. blocked' \subseteq blocked
  BY DEF Notify
<1> QED  BY <1>1, <1>2, <1>3 DEF Asleep

\* So a reader is awake after a send, for one that slept is noted; and a writer after
\* a receive.
LEMMA ReaderIsAwake ==
    ASSUME WakeupInv, SendCompleted, pc'["reader"] = pc["reader"]
    PROVE  ~Asleep("reader")' /\ "reader" \notin blocked' /\ blocked' \subseteq blocked
<1>0. "reader" \in Sides
  BY DEF Sides
<1>1. CASE xTaskWaitingToReceive
  <2>1. Notify("reader")
    BY <1>1 DEF SendCompleted
  <2> QED  BY <1>0, <2>1, NotifiedIsAwake DEF WakeupInv
<1>2. CASE ~xTaskWaitingToReceive
  <2>1. ~Asleep("reader")
    BY <1>0, <1>2 DEF WakeupInv, AsleepIsNoted, Noted
  <2>2. UNCHANGED <<ucNotifyState, blocked>>
    BY <1>2 DEF SendCompleted, notifyVars
  <2> QED  BY <2>1, <2>2 DEF Asleep
<1> QED  BY <1>1, <1>2

LEMMA WriterIsAwake ==
    ASSUME WakeupInv, ReceiveCompleted, pc'["writer"] = pc["writer"]
    PROVE  ~Asleep("writer")' /\ "writer" \notin blocked' /\ blocked' \subseteq blocked
<1>0. "writer" \in Sides
  BY DEF Sides
<1>1. CASE xTaskWaitingToSend
  <2>1. Notify("writer")
    BY <1>1 DEF ReceiveCompleted
  <2> QED  BY <1>0, <2>1, NotifiedIsAwake DEF WakeupInv
<1>2. CASE ~xTaskWaitingToSend
  <2>1. ~Asleep("writer")
    BY <1>0, <1>2 DEF WakeupInv, AsleepIsNoted, Noted
  <2>2. UNCHANGED <<ucNotifyState, blocked>>
    BY <1>2 DEF ReceiveCompleted, notifyVars
  <2> QED  BY <2>1, <2>2 DEF Asleep
<1> QED  BY <1>1, <1>2

\* Steps of a writer that notify nobody: either it is still to look at the trigger
\* level, or it leaves the ring as it was.
LEMMA QuietWriter ==
    ASSUME WakeupInv, TypeOK',
           UNCHANGED <<setup, notifyVars, xTaskWaitingToReceive>>,
           pc["writer"] \notin {"wait", "woken"}, pc'["writer"] # "wait",
           "writer" \in isrs => pc'["writer"] = pc["writer"],
           pc'["reader"] = pc["reader"],
           \/ pc'["writer"] \in {"completed", "notify"}
           \/ ~TriggerReached'
           \/ /\ UNCHANGED ring
              /\ pc["writer"] \notin {"completed", "notify"}
    PROVE  WakeupInv'
<1>0. "writer" \in Sides /\ "reader" \in Sides
  BY DEF Sides
<1>1. Asleep("reader")' <=> Asleep("reader")
  BY DEF Asleep, notifyVars
<1>2. Asleep("reader")' => Noted("reader")'
  BY <1>0, <1>1 DEF WakeupInv, AsleepIsNoted, Noted
<1>3. ~Asleep("writer")' /\ InterruptsDoNotWait' /\ BlockedInWait' /\ AsleepIsNoted'
  BY <1>0, <1>2, AwakeStep DEF setup, notifyVars
<1>4. DataIsSeen'
  <2>1. CASE pc'["writer"] \in {"completed", "notify"}
    BY <2>1 DEF DataIsSeen
  <2>2. CASE ~TriggerReached'
    BY <2>2 DEF DataIsSeen
  <2>3. CASE UNCHANGED ring /\ pc["writer"] \notin {"completed", "notify"}
    <3>1. LevelWhileWaiting \/ ~(Asleep("reader") /\ ~NothingToRead /\ TriggerReached)
      BY <2>3 DEF WakeupInv, DataIsSeen
    <3> QED  BY <1>1, <2>3, <3>1, RingUnmoved DEF DataIsSeen, ring, setup
  <2> QED  BY <2>1, <2>2, <2>3
<1>5. SpaceIsSeen'
  BY <1>3 DEF SpaceIsSeen
<1> QED  BY <1>3, <1>4, <1>5 DEF WakeupInv

\* A step of the writer that notifies the reader.
LEMMA WriterNotifies ==
    ASSUME WakeupInv, TypeOK', SendCompleted, UNCHANGED <<isrs, xTaskWaitingToSend>>,
           pc["writer"] \notin {"wait", "woken"}, pc'["writer"] # "wait",
           "writer" \in isrs => pc'["writer"] = pc["writer"],
           pc'["reader"] = pc["reader"]
    PROVE  WakeupInv'
<1>0. "writer" \in Sides /\ "reader" \in Sides
  BY DEF Sides
<1>1. ~Asleep("reader")' /\ "reader" \notin blocked' /\ blocked' \subseteq blocked
  BY ReaderIsAwake
<1>2. ~Asleep("writer")' /\ InterruptsDoNotWait' /\ BlockedInWait' /\ AsleepIsNoted'
  BY <1>0, <1>1, AwakeStep
<1> QED  BY <1>1, <1>2 DEF WakeupInv, DataIsSeen, SpaceIsSeen

\* The critical section of a writer that may begin to wait.
LEMMA SendCheckKeepsWakeup ==
    ASSUME WakeupInv, TypeOK', SendCheck
    PROVE  WakeupInv'
<1> USE DEF ring, setup, noted, times, txCall, rxCall, notifyVars
<1>0. /\ "writer" \in Sides /\ "reader" \in Sides
      /\ \A s \in Sides : s = "writer" \/ s = "reader"
  BY DEF Sides
<1>t. TypeOK
  BY DEF WakeupInv
<1>1. /\ pc["writer"] = "check" /\ pc'["writer"] \in {"wait", "copy"}
      /\ pc'["reader"] = pc["reader"] /\ ucNotifyState'["reader"] = ucNotifyState["reader"]
      /\ "writer" \notin isrs
      /\ UNCHANGED <<ring, setup, xTaskWaitingToReceive, blocked, pvTxData>>
  BY <1>0, <1>t DEF SendCheck, At, Go, ClearedState, TypeOK
<1>2. "writer" \notin blocked
  BY <1>1 DEF BlockedInWait, WakeupInv
<1>3. Asleep("reader")' <=> Asleep("reader")
  BY <1>1 DEF Asleep
<1>4. InterruptsDoNotWait' /\ BlockedInWait'
  <2>1. InterruptsDoNotWait'
    BY <1>0, <1>1, <1>t DEF InterruptsDoNotWait, WakeupInv, TypeOK
  <2>2. blocked \subseteq {"reader"}
    BY <1>0, <1>2, <1>t DEF TypeOK
  <2> QED  BY <1>1, <2>1, <2>2 DEF BlockedInWait, WakeupInv
<1>5. Asleep("writer")' => xTaskWaitingToSend' /\ ~(SpacesAvailable >= RequiredSpace(pvTxData))
  <2>1. Asleep("writer")' => SpacesAvailable < RequiredSpace(pvTxData) /\ xTaskWaitingToSend'
    BY <1>0, <1>1, <1>2, <1>t DEF SendCheck, Go, Asleep, TypeOK
  <2>2. SpacesAvailable \in 0 .. xLength - 1
    BY <1>t, BytesAndSpaces
  <2>3. pvTxData \in Seq(Nat)
    BY <1>t DEF TypeOK
  <2>4. RequiredSpace(pvTxData) \in Nat
    BY <2>3, RequiredSpaceType
  <2> QED  BY <2>1, <2>2, <2>4, StreamBufferAssumption
<1>6. AsleepIsNoted'
  BY <1>0, <1>1, <1>3, <1>5 DEF AsleepIsNoted, Noted, WakeupInv
<1>7. DataIsSeen'
  <2>1. LevelWhileWaiting \/ ~(Asleep("reader") /\ ~NothingToRead /\ TriggerReached)
    BY <1>1 DEF DataIsSeen, WakeupInv
  <2> QED  BY <1>1, <1>3, <2>1, RingUnmoved DEF DataIsSeen
<1>8. SpaceIsSeen'
  <2>1. RequiredSpace(pvTxData)' = RequiredSpace(pvTxData) /\ SpacesAvailable' = SpacesAvailable
    BY <1>1 DEF RequiredSpace, SpacesAvailable, Wrapped, Min2
  <2> QED  BY <1>5, <2>1 DEF SpaceIsSeen
<1> QED  BY <1>4, <1>6, <1>7, <1>8 DEF WakeupInv

LEMMA SendKeepsWakeup ==
    ASSUME WakeupInv, TypeOK',
           \/ \E data \in Payloads : \E w \in Waits : Send(data, w)
           \/ \E data \in Payloads : SendFromISR(data)
           \/ SendSteps
    PROVE  WakeupInv'
<1> USE DEF ring, setup, noted, times, txCall, rxCall, notifyVars
<1>0. "writer" \in Sides /\ "reader" \in Sides
  BY DEF Sides
<1>t. TypeOK
  BY DEF WakeupInv
<1>1. ASSUME NEW data \in Payloads, NEW w \in Waits, Send(data, w)
      PROVE  WakeupInv'
  BY <1>0, <1>1, <1>t, QuietWriter DEF Send, At, Go, TypeOK
<1>2. ASSUME NEW data \in Payloads, SendFromISR(data)
      PROVE  WakeupInv'
  <2>1. pc["writer"] = "out" /\ pc' = pc /\ UNCHANGED <<setup, xTaskWaitingToSend>>
    BY <1>2 DEF SendFromISR, WakeupInv, InterruptsDoNotWait
  <2>2. \/ UNCHANGED <<ring, noted, notifyVars>>
        \/ ~TriggerReached' /\ UNCHANGED <<notifyVars, xTaskWaitingToReceive>>
        \/ SendCompleted
    BY <1>2 DEF SendFromISR
  <2>3. CASE UNCHANGED <<ring, noted, notifyVars>>
    BY <2>1, <2>3, QuietWriter
  <2>4. CASE ~TriggerReached' /\ UNCHANGED <<notifyVars, xTaskWaitingToReceive>>
    BY <2>1, <2>4, QuietWriter
  <2>5. CASE SendCompleted
    BY <2>1, <2>5, WriterNotifies
  <2> QED  BY <2>2, <2>3, <2>4, <2>5
<1>3. CASE SendCheck
  BY <1>3, SendCheckKeepsWakeup
<1>4. CASE SendClear
  BY <1>0, <1>4, <1>t, QuietWriter DEF SendClear, At, Go, TypeOK
<1>5. CASE SendMeasure
  BY <1>0, <1>5, <1>t, QuietWriter DEF SendMeasure, At, Go, TypeOK
<1>6. CASE SendCopy
  <2>1. /\ pc["writer"] = "copy" /\ "writer" \notin isrs
        /\ UNCHANGED <<setup, noted, notifyVars>>
    BY <1>6 DEF SendCopy, At
  <2>2. \/ Go("writer", "out") /\ UNCHANGED ring
        \/ Go("writer", "completed")
    BY <1>6 DEF SendCopy, SendReturn, Return
  <2> QED  BY <1>0, <1>t, <2>1, <2>2, QuietWriter DEF Go, TypeOK
<1>7. CASE SendEnough
  BY <1>0, <1>7, <1>t, QuietWriter DEF SendEnough, At, Go, TypeOK
<1>8. CASE SendTooLittle
  <2>1. /\ pc["writer"] = "completed" /\ "writer" \notin isrs /\ ~TriggerReached
        /\ Go("writer", "out") /\ UNCHANGED <<ring, setup, noted, notifyVars>>
    BY <1>8 DEF SendTooLittle, SendReturn, Return, At
  <2>2. ~TriggerReached'
    BY <2>1, RingUnmoved
  <2> QED  BY <1>0, <1>t, <2>1, <2>2, QuietWriter DEF Go, TypeOK
<1>9. CASE SendNotify
  <2>1. /\ pc["writer"] = "notify" /\ "writer" \notin isrs
        /\ SendCompleted /\ Go("writer", "out") /\ UNCHANGED <<setup, xTaskWaitingToSend>>
    BY <1>9 DEF SendNotify, SendReturn, Return, At
  <2> QED  BY <1>0, <1>t, <2>1, WriterNotifies DEF Go, TypeOK
<1> QED  BY <1>1, <1>2, <1>3, <1>4, <1>5, <1>6, <1>7, <1>8, <1>9 DEF SendSteps

\* Steps of a reader that notify nobody: it is still to notify the writer, or leaves
\* the ring as it was.
LEMMA QuietReader ==
    ASSUME WakeupInv, TypeOK',
           UNCHANGED <<setup, notifyVars, xTaskWaitingToSend, pvTxData>>,
           pc["reader"] \notin {"wait", "woken"}, pc'["reader"] # "wait",
           "reader" \in isrs => pc'["reader"] = pc["reader"],
           pc'["writer"] = pc["writer"],
           \/ pc'["reader"] = "notify"
           \/ UNCHANGED ring /\ pc["reader"] # "notify"
    PROVE  WakeupInv'
<1>0. "writer" \in Sides /\ "reader" \in Sides
  BY DEF Sides
<1>1. Asleep("writer")' <=> Asleep("writer")
  BY DEF Asleep, notifyVars
<1>2. Asleep("writer")' => Noted("writer")'
  BY <1>0, <1>1 DEF WakeupInv, AsleepIsNoted, Noted
<1>3. ~Asleep("reader")' /\ InterruptsDoNotWait' /\ BlockedInWait' /\ AsleepIsNoted'
  BY <1>0, <1>2, AwakeStep DEF setup, notifyVars
<1>4. DataIsSeen'
  BY <1>3 DEF DataIsSeen
<1>5. SpaceIsSeen'
  <2>1. CASE pc'["reader"] = "notify"
    BY <2>1 DEF SpaceIsSeen
  <2>2. CASE UNCHANGED ring /\ pc["reader"] # "notify"
    <3>1. ~(Asleep("writer") /\ SpacesAvailable >= RequiredSpace(pvTxData))
      BY <2>2 DEF WakeupInv, SpaceIsSeen
    <3>2. RequiredSpace(pvTxData)' = RequiredSpace(pvTxData) /\ SpacesAvailable' = SpacesAvailable
      BY <2>2 DEF RequiredSpace, SpacesAvailable, Wrapped, Min2, ring, setup
    <3> QED  BY <1>1, <3>1, <3>2 DEF SpaceIsSeen
  <2> QED  BY <2>1, <2>2
<1> QED  BY <1>3, <1>4, <1>5 DEF WakeupInv

\* A step of the reader that notifies the writer.
LEMMA ReaderNotifies ==
    ASSUME WakeupInv, TypeOK', ReceiveCompleted, UNCHANGED <<isrs, xTaskWaitingToReceive>>,
           pc["reader"] \notin {"wait", "woken"}, pc'["reader"] # "wait",
           "reader" \in isrs => pc'["reader"] = pc["reader"],
           pc'["writer"] = pc["writer"]
    PROVE  WakeupInv'
<1>0. "writer" \in Sides /\ "reader" \in Sides
  BY DEF Sides
<1>1. ~Asleep("writer")' /\ "writer" \notin blocked' /\ blocked' \subseteq blocked
  BY WriterIsAwake
<1>2. ~Asleep("reader")' /\ InterruptsDoNotWait' /\ BlockedInWait' /\ AsleepIsNoted'
  BY <1>0, <1>1, AwakeStep
<1> QED  BY <1>1, <1>2 DEF WakeupInv, DataIsSeen, SpaceIsSeen

\* The critical section of a reader that may begin to wait.
LEMMA ReceiveCheckKeepsWakeup ==
    ASSUME WakeupInv, TypeOK', ReceiveCheck
    PROVE  WakeupInv'
<1> USE DEF ring, setup, noted, times, txCall, rxCall, notifyVars
<1>0. /\ "writer" \in Sides /\ "reader" \in Sides
      /\ \A s \in Sides : s = "writer" \/ s = "reader"
  BY DEF Sides
<1>t. TypeOK
  BY DEF WakeupInv
<1>1. /\ pc["reader"] = "check" /\ pc'["reader"] \in {"wait", "copy"}
      /\ pc'["writer"] = pc["writer"] /\ ucNotifyState'["writer"] = ucNotifyState["writer"]
      /\ "reader" \notin isrs
      /\ UNCHANGED <<ring, setup, xTaskWaitingToSend, blocked, pvTxData>>
  BY <1>0, <1>t DEF ReceiveCheck, At, Go, ClearedState, TypeOK
<1>2. "reader" \notin blocked
  BY <1>1 DEF BlockedInWait, WakeupInv
<1>3. Asleep("writer")' <=> Asleep("writer")
  BY <1>1 DEF Asleep
<1>4. InterruptsDoNotWait' /\ BlockedInWait'
  <2>1. InterruptsDoNotWait'
    <3>1. isrs \subseteq {"writer"} /\ isrs' = isrs
      BY <1>0, <1>1, <1>t DEF TypeOK
    <3> QED  BY <1>1, <3>1 DEF InterruptsDoNotWait, WakeupInv
  <2>2. blocked \subseteq {"writer"}
    BY <1>0, <1>2, <1>t DEF TypeOK
  <2> QED  BY <1>1, <2>1, <2>2 DEF BlockedInWait, WakeupInv
<1>5. Asleep("reader")' => xTaskWaitingToReceive' /\ NothingToRead
  BY <1>0, <1>1, <1>2, <1>t DEF ReceiveCheck, Go, Asleep, TypeOK
<1>6. AsleepIsNoted'
  BY <1>0, <1>1, <1>3, <1>5 DEF AsleepIsNoted, Noted, WakeupInv
<1>7. DataIsSeen'
  BY <1>1, <1>5, RingUnmoved DEF DataIsSeen
<1>8. SpaceIsSeen'
  <2>1. ~(Asleep("writer") /\ SpacesAvailable >= RequiredSpace(pvTxData))
    BY <1>1 DEF WakeupInv, SpaceIsSeen
  <2>2. RequiredSpace(pvTxData)' = RequiredSpace(pvTxData) /\ SpacesAvailable' = SpacesAvailable
    BY <1>1 DEF RequiredSpace, SpacesAvailable, Wrapped, Min2
  <2> QED  BY <1>3, <2>1, <2>2 DEF SpaceIsSeen
<1> QED  BY <1>4, <1>6, <1>7, <1>8 DEF WakeupInv

LEMMA ReceiveKeepsWakeup ==
    ASSUME WakeupInv, TypeOK',
           \/ \E size \in ReadSizes : \E w \in Waits : Receive(size, w)
           \/ \E size \in ReadSizes : ReceiveFromISR(size)
           \/ ReceiveSteps
    PROVE  WakeupInv'
<1> USE DEF ring, setup, noted, times, txCall, rxCall, notifyVars
<1>0. "writer" \in Sides /\ "reader" \in Sides
  BY DEF Sides
<1>t. TypeOK
  BY DEF WakeupInv
<1>1. ASSUME NEW size \in ReadSizes, NEW w \in Waits, Receive(size, w)
      PROVE  WakeupInv'
  BY <1>0, <1>1, <1>t, QuietReader DEF Receive, At, Go, TypeOK
<1>2. ASSUME NEW size \in ReadSizes, ReceiveFromISR(size)
      PROVE  WakeupInv'
  <2>1. /\ pc["reader"] = "out" /\ pc' = pc /\ UNCHANGED <<setup, xTaskWaitingToReceive>>
        /\ ReceiveCompleted
    BY <1>2 DEF ReceiveFromISR, WakeupInv, InterruptsDoNotWait
  <2> QED  BY <2>1, ReaderNotifies
<1>3. CASE ReceiveCheck
  BY <1>3, ReceiveCheckKeepsWakeup
<1>4. CASE ReceiveClear
  BY <1>0, <1>4, <1>t, QuietReader DEF ReceiveClear, At, Go, TypeOK
<1>5. CASE ReceiveMeasure
  BY <1>0, <1>5, <1>t, QuietReader DEF ReceiveMeasure, At, Go, TypeOK
<1>6. CASE ReceiveCopy
  <2>1. /\ pc["reader"] = "copy" /\ "reader" \notin isrs
        /\ UNCHANGED <<setup, noted, notifyVars, pvTxData>>
    BY <1>6 DEF ReceiveCopy, At
  <2>2. \/ Go("reader", "out") /\ UNCHANGED ring
        \/ Go("reader", "notify")
    BY <1>6 DEF ReceiveCopy, ReceiveReturn, Return
  <2> QED  BY <1>0, <1>t, <2>1, <2>2, QuietReader DEF Go, TypeOK
<1>7. CASE ReceiveNotify
  <2>1. /\ pc["reader"] = "notify" /\ "reader" \notin isrs
        /\ ReceiveCompleted /\ Go("reader", "out")
        /\ UNCHANGED <<setup, xTaskWaitingToReceive>>
    BY <1>7 DEF ReceiveNotify, ReceiveReturn, Return, At
  <2> QED  BY <1>0, <1>t, <2>1, ReaderNotifies DEF Go, TypeOK
<1> QED  BY <1>1, <1>2, <1>3, <1>4, <1>5, <1>6, <1>7 DEF ReceiveSteps

\* Steps that neither write nor read: who sleeps afterwards slept before, and is
\* still noted.
LEMMA NobodyFallsAsleep ==
    ASSUME WakeupInv, TypeOK',
           \A s \in Sides : Asleep(s)' => Asleep(s),
           UNCHANGED <<ring, setup, noted, pvTxData>>,
           \A s \in Sides : pc[s] \in {"completed", "notify", "out"} => pc'[s] = pc[s],
           \A s \in blocked' : pc'[s] = "woken" /\ ucNotifyState'[s] = "waiting"
    PROVE  WakeupInv'
<1> USE DEF ring, setup, noted
<1>0. "writer" \in Sides /\ "reader" \in Sides
  BY DEF Sides
<1>1. InterruptsDoNotWait'
  BY DEF InterruptsDoNotWait, WakeupInv, TypeOK
<1>2. AsleepIsNoted'
  BY DEF AsleepIsNoted, Noted, WakeupInv
<1>3. DataIsSeen'
  BY <1>0, RingUnmoved DEF DataIsSeen, WakeupInv
<1>4. SpaceIsSeen'
  <2>1. RequiredSpace(pvTxData)' = RequiredSpace(pvTxData) /\ SpacesAvailable' = SpacesAvailable
    BY DEF RequiredSpace, SpacesAvailable, Wrapped, Min2
  <2> QED  BY <1>0, <2>1 DEF SpaceIsSeen, WakeupInv
<1> QED  BY <1>1, <1>2, <1>3, <1>4 DEF WakeupInv, BlockedInWait

LEMMA WakeupStep == WakeupInv /\ [Next]_vars => WakeupInv'
<1> SUFFICES ASSUME WakeupInv, [Next]_vars
             PROVE  WakeupInv'
  OBVIOUS
<1> USE DEF ring, setup, noted, times, txCall, rxCall, notifyVars
<1>0. "writer" \in Sides /\ "reader" \in Sides
  BY DEF Sides
<1>t. TypeOK /\ TypeOK'
  BY StepType DEF WakeupInv
<1>1. CASE \/ \E data \in Payloads : \E w \in Waits : Send(data, w)
           \/ \E data \in Payloads : SendFromISR(data)
           \/ SendSteps
  BY <1>1, <1>t, SendKeepsWakeup
<1>2. CASE \/ \E size \in ReadSizes : \E w \in Waits : Receive(size, w)
           \/ \E size \in ReadSizes : ReceiveFromISR(size)
           \/ ReceiveSteps
  BY <1>2, <1>t, ReceiveKeepsWakeup
<1>3. ASSUME NEW s \in Sides, Wait(s)
      PROVE  WakeupInv'
  <2>1. /\ pc[s] = "wait" /\ pc' = [pc EXCEPT ![s] = "woken"]
        /\ UNCHANGED <<ring, setup, noted, pvTxData>>
        /\ s \notin blocked
    BY <1>3 DEF Wait, At, Go, WakeupInv, BlockedInWait
  <2>2. CASE ucNotifyState[s] = "received"
    <3>1. UNCHANGED notifyVars
      BY <1>3, <2>2 DEF Wait, WaitForNotification
    <3>2. \A u \in Sides : Asleep(u)' => Asleep(u)
      BY <2>1, <3>1, <1>t DEF Asleep, TypeOK
    <3>3. \A u \in blocked' : pc'[u] = "woken" /\ ucNotifyState'[u] = "waiting"
      BY <2>1, <3>1, <1>t DEF WakeupInv, BlockedInWait, TypeOK
    <3> QED  BY <1>t, <2>1, <3>2, <3>3, NobodyFallsAsleep DEF TypeOK
  <2>3. CASE ucNotifyState[s] # "received"
    <3>1. /\ ucNotifyState' = [ucNotifyState EXCEPT ![s] = "waiting"]
          /\ blocked' = blocked \cup {s}
      BY <1>3, <2>3 DEF Wait, WaitForNotification
    <3>2. \A u \in Sides : Asleep(u)' => Asleep(u)
      BY <2>1, <2>3, <3>1, <1>t DEF Asleep, TypeOK
    <3>3. \A u \in blocked' : pc'[u] = "woken" /\ ucNotifyState'[u] = "waiting"
      BY <2>1, <3>1, <1>t DEF WakeupInv, BlockedInWait, TypeOK
    <3> QED  BY <1>t, <2>1, <3>2, <3>3, NobodyFallsAsleep DEF TypeOK
  <2> QED  BY <2>2, <2>3
<1>4. ASSUME NEW s \in Sides, Woken(s)
      PROVE  WakeupInv'
  <2>1. /\ pc[s] = "woken" /\ pc' = [pc EXCEPT ![s] = "clear"]
        /\ UNCHANGED <<ring, setup, noted, pvTxData, blocked>>
        /\ s \notin blocked
        /\ ucNotifyState' = [ucNotifyState EXCEPT ![s] = "not"]
    BY <1>4 DEF Woken, EndWait, At, Go
  <2>2. \A u \in Sides : Asleep(u)' => Asleep(u)
    BY <2>1, <1>t DEF Asleep, TypeOK
  <2>3. \A u \in blocked' : pc'[u] = "woken" /\ ucNotifyState'[u] = "waiting"
    BY <2>1, <1>t DEF WakeupInv, BlockedInWait, TypeOK
  <2> QED  BY <1>t, <2>1, <2>2, <2>3, NobodyFallsAsleep DEF TypeOK
<1>5. ASSUME NEW s \in Sides, Expire(s)
      PROVE  WakeupInv'
  <2>1. /\ UNCHANGED <<ring, setup, noted, pvTxData, pc, ucNotifyState>>
        /\ blocked' = blocked \ {s}
    BY <1>5 DEF Expire, WakeUp
  <2>2. \A u \in Sides : Asleep(u)' => Asleep(u)
    BY <2>1 DEF Asleep
  <2>3. \A u \in blocked' : pc'[u] = "woken" /\ ucNotifyState'[u] = "waiting"
    BY <2>1 DEF WakeupInv, BlockedInWait
  <2> QED  BY <1>t, <2>1, <2>2, <2>3, NobodyFallsAsleep
<1>6. ASSUME NEW n \in TriggerLevels, SetTriggerLevel(n)
      PROVE  WakeupInv'
  <2>1. LevelWhileWaiting \/ ~Asleep("reader")'
    BY <1>0, <1>6 DEF SetTriggerLevel, WakeupInv, AsleepIsNoted, Noted, Asleep
  <2>2. SpaceIsSeen'
    <3>1. RequiredSpace(pvTxData)' = RequiredSpace(pvTxData) /\ SpacesAvailable' = SpacesAvailable
      BY <1>6 DEF SetTriggerLevel, RequiredSpace, SpacesAvailable, Wrapped, Min2
    <3> QED  BY <1>6, <3>1 DEF SetTriggerLevel, SpaceIsSeen, Asleep, WakeupInv
  <2>3. InterruptsDoNotWait' /\ BlockedInWait' /\ AsleepIsNoted'
    BY <1>6 DEF SetTriggerLevel, InterruptsDoNotWait, BlockedInWait, AsleepIsNoted, Noted,
                Asleep, WakeupInv
  <2> QED  BY <1>t, <2>1, <2>2, <2>3 DEF WakeupInv, DataIsSeen
<1>7. CASE Reset
  <2>1. ~Asleep("reader")' /\ ~Asleep("writer")'
    BY <1>0, <1>7 DEF Reset, WakeupInv, AsleepIsNoted, Noted, Asleep
  <2>2. InterruptsDoNotWait' /\ BlockedInWait' /\ AsleepIsNoted'
    BY <1>7 DEF Reset, InterruptsDoNotWait, BlockedInWait, AsleepIsNoted, Noted, Asleep, WakeupInv
  <2> QED  BY <1>t, <2>1, <2>2 DEF WakeupInv, DataIsSeen, SpaceIsSeen
<1>8. CASE UNCHANGED vars
  <2>1. UNCHANGED <<ring, setup, noted, pvTxData, pc, ucNotifyState, blocked>>
    BY <1>8 DEF vars
  <2>2. \A u \in Sides : Asleep(u)' => Asleep(u)
    BY <2>1 DEF Asleep
  <2>3. \A u \in blocked' : pc'[u] = "woken" /\ ucNotifyState'[u] = "waiting"
    BY <2>1 DEF WakeupInv, BlockedInWait
  <2> QED  BY <1>t, <2>1, <2>2, <2>3, NobodyFallsAsleep
<1> QED  BY <1>1, <1>2, <1>3, <1>4, <1>5, <1>6, <1>7, <1>8 DEF Next

\* The wake-up invariant holds of every execution; what it says of data (DataIsSeen)
\* only if the trigger level is not changed while a reader waits.
THEOREM WakeupInvariant == Spec => []WakeupInv
<1>1. Init => WakeupInv
  BY InitWakeup
<1>2. WakeupInv /\ [Next]_vars => WakeupInv'
  BY WakeupStep
<1> QED  BY <1>1, <1>2, PTL DEF Spec

\* As long as the trigger level is not changed while a reader waits, a reader does not
\* stay blocked beside bytes that it could read and that reach the trigger level, unless
\* the writer is about to notify it.
THEOREM NoDataIsLost == ~LevelWhileWaiting => (Spec => []NoLostData)
<1> SUFFICES ASSUME ~LevelWhileWaiting PROVE Spec => []NoLostData
  OBVIOUS
<1>1. WakeupInv => NoLostData
  BY DEF WakeupInv, DataIsSeen, Asleep, NoLostData
<1> QED  BY <1>1, WakeupInvariant, PTL

\* A writer does not stay blocked beside the space it asked for, unless the reader
\* is about to notify it.
THEOREM NoSpaceIsLost == Spec => []NoLostSpace
<1>1. WakeupInv => NoLostSpace
  BY DEF WakeupInv, SpaceIsSeen, Asleep, NoLostSpace
<1> QED  BY <1>1, WakeupInvariant, PTL

-----------------------------------------------------------------------------
(***************************************************************************)
(* The bytes of a stream                                                   *)
(***************************************************************************)

Bytes == BytesFrom(xTail, BytesInBuffer)

LEMMA BytesType ==
    ASSUME TypeOK
    PROVE  /\ Bytes \in Seq(Nat) /\ Len(Bytes) = BytesInBuffer
           /\ \A k \in 1 .. BytesInBuffer :
                /\ Wrapped(xTail + k - 1) \in 0 .. xLength - 1
                /\ Bytes[k] = pucBuffer[Wrapped(xTail + k - 1)]
<1>1. BytesInBuffer \in 0 .. xLength - 1
  BY BytesAndSpaces
<1>2. ASSUME NEW k \in 1 .. BytesInBuffer
      PROVE  /\ Wrapped(xTail + k - 1) \in 0 .. xLength - 1
             /\ pucBuffer[Wrapped(xTail + k - 1)] \in Nat
  <2>1. xTail + k - 1 \in 0 .. 2 * xLength - 1
    BY <1>1, StreamBufferAssumption DEF TypeOK
  <2> QED  BY <2>1, WrappedInRing DEF TypeOK
<1> HIDE DEF BytesInBuffer
<1>3. Bytes = [k \in 1 .. BytesInBuffer |-> pucBuffer[Wrapped(xTail + k - 1)]]
  BY DEF Bytes, BytesFrom
<1> QED  BY <1>1, <1>2, <1>3

LEMMA BytesTypeNext ==
    ASSUME TypeOK'
    PROVE  /\ Bytes' \in Seq(Nat) /\ Len(Bytes') = BytesInBuffer'
           /\ \A k \in 1 .. BytesInBuffer' :
                /\ Wrapped(xTail' + k - 1) \in 0 .. xLength - 1
                /\ Bytes'[k] = pucBuffer'[Wrapped(xTail' + k - 1)]
<1>1. (TypeOK => /\ Bytes \in Seq(Nat) /\ Len(Bytes) = BytesInBuffer
                 /\ \A k \in 1 .. BytesInBuffer :
                      /\ Wrapped(xTail + k - 1) \in 0 .. xLength - 1
                      /\ Bytes[k] = pucBuffer[Wrapped(xTail + k - 1)])'
  BY BytesType, PTL
<1> QED  BY <1>1

\* The head moves on by n bytes, of which there is space for all.
LEMMA HeadMoves ==
    ASSUME NEW h \in 0 .. xLength - 1, NEW t \in 0 .. xLength - 1, NEW n \in Nat,
           n <= Wrapped(xLength + t - h - 1)
    PROVE  /\ Wrapped(xLength + Wrapped(h + n) - t) = Wrapped(xLength + h - t) + n
           /\ Wrapped(xLength + t - Wrapped(h + n) - 1) = Wrapped(xLength + t - h - 1) - n
<1>1. xLength \in Nat
  BY StreamBufferAssumption
<1> QED  BY <1>1 DEF Wrapped

\* The tail moves on by n bytes, all of which were written.
LEMMA TailMoves ==
    ASSUME NEW h \in 0 .. xLength - 1, NEW t \in 0 .. xLength - 1, NEW n \in Nat,
           n <= Wrapped(xLength + h - t)
    PROVE  /\ Wrapped(xLength + h - Wrapped(t + n)) = Wrapped(xLength + h - t) - n
           /\ Wrapped(xLength + Wrapped(t + n) - h - 1) = Wrapped(xLength + t - h - 1) + n
<1>1. xLength \in Nat
  BY StreamBufferAssumption
<1> QED  BY <1>1 DEF Wrapped

\* Where the k-th byte from the tail is: among those there were, or behind the head.
LEMMA CellOfByte ==
    ASSUME NEW h \in 0 .. xLength - 1, NEW t \in 0 .. xLength - 1, NEW n \in Nat,
           n <= Wrapped(xLength + t - h - 1), NEW k \in 1 .. Wrapped(xLength + h - t) + n
    PROVE  LET i == Wrapped(t + k - 1)
               o == IF i >= h THEN i - h ELSE i + xLength - h
           IN  IF k <= Wrapped(xLength + h - t) THEN ~(o < n)
               ELSE o = k - 1 - Wrapped(xLength + h - t) /\ o < n
<1>1. xLength \in Nat
  BY StreamBufferAssumption
<1> QED  BY <1>1 DEF Wrapped

\* Where the k-th byte is from a tail that moved on by n.
LEMMA CellOfByteLeft ==
    ASSUME NEW h \in 0 .. xLength - 1, NEW t \in 0 .. xLength - 1, NEW n \in Nat,
           n <= Wrapped(xLength + h - t), NEW k \in 1 .. Wrapped(xLength + h - t) - n
    PROVE  LET i == Wrapped(Wrapped(t + n) + k - 1)
           IN  i = Wrapped(t + (n + k) - 1) /\ ~(Wrapped(i + xLength - t) < n)
<1>1. xLength \in Nat
  BY StreamBufferAssumption
<1> QED  BY <1>1 DEF Wrapped

\* Bytes that fit are added to what the ring holds.
LEMMA WriteAppends ==
    ASSUME TypeOK, TypeOK', NEW bytes \in Seq(Nat), Len(bytes) <= SpacesAvailable, Write(bytes)
    PROVE  /\ BytesInBuffer' = BytesInBuffer + Len(bytes)
           /\ SpacesAvailable' = SpacesAvailable - Len(bytes)
           /\ Bytes' = Bytes \o bytes
<1>0. /\ xHead \in 0 .. xLength - 1 /\ xTail \in 0 .. xLength - 1 /\ xLength \in Nat \ {0, 1}
      /\ xHead' = Wrapped(xHead + Len(bytes)) /\ xTail' = xTail /\ Len(bytes) \in Nat
  BY StreamBufferAssumption DEF TypeOK, Write
<1>1. BytesInBuffer' = BytesInBuffer + Len(bytes)
  BY <1>0, HeadMoves DEF BytesInBuffer, SpacesAvailable
<1>2. SpacesAvailable' = SpacesAvailable - Len(bytes)
  BY <1>0, HeadMoves DEF SpacesAvailable
<1>3. BytesInBuffer \in 0 .. xLength - 1 /\ BytesInBuffer' \in 0 .. xLength - 1
  BY <1>1, <1>0, BytesAndSpaces
<1>4. /\ Bytes \in Seq(Nat) /\ Len(Bytes) = BytesInBuffer
      /\ \A k \in 1 .. BytesInBuffer : /\ Wrapped(xTail + k - 1) \in 0 .. xLength - 1
                                       /\ Bytes[k] = pucBuffer[Wrapped(xTail + k - 1)]
  BY BytesType
<1>5. /\ Bytes' \in Seq(Nat) /\ Len(Bytes') = BytesInBuffer'
      /\ \A k \in 1 .. BytesInBuffer' : /\ Wrapped(xTail' + k - 1) \in 0 .. xLength - 1
                                        /\ Bytes'[k] = pucBuffer'[Wrapped(xTail' + k - 1)]
  BY BytesTypeNext
<1>6. ASSUME NEW k \in 1 .. BytesInBuffer + Len(bytes)
      PROVE  Bytes'[k] = IF k <= BytesInBuffer THEN Bytes[k] ELSE bytes[k - BytesInBuffer]
  <2> DEFINE i == Wrapped(xTail + k - 1)
             o == IF i >= xHead THEN i - xHead ELSE i + xLength - xHead
  <2>1. i \in 0 .. xLength - 1 /\ Bytes'[k] = pucBuffer'[i]
    BY <1>0, <1>1, <1>5
  <2>2. pucBuffer'[i] = IF o < Len(bytes) THEN bytes[o + 1] ELSE pucBuffer[i]
    BY <2>1 DEF Write, RingWith
  <2>3. IF k <= BytesInBuffer THEN ~(o < Len(bytes))
        ELSE o = k - 1 - BytesInBuffer /\ o < Len(bytes)
    BY <1>0, CellOfByte DEF BytesInBuffer, SpacesAvailable
  <2> HIDE DEF i, o
  <2>4. CASE k <= BytesInBuffer
    BY <2>1, <2>2, <2>3, <2>4, <1>3, <1>4 DEF i
  <2>5. CASE ~(k <= BytesInBuffer)
    <3>1. o + 1 = k - BytesInBuffer
      BY <2>3, <2>5, <1>3
    <3> QED  BY <2>1, <2>2, <2>3, <2>5, <3>1
  <2> QED  BY <2>4, <2>5
<1>7. /\ Bytes \o bytes \in Seq(Nat) /\ Len(Bytes \o bytes) = BytesInBuffer + Len(bytes)
      /\ \A k \in 1 .. BytesInBuffer + Len(bytes) :
           (Bytes \o bytes)[k] = IF k <= BytesInBuffer THEN Bytes[k] ELSE bytes[k - BytesInBuffer]
  BY <1>4, ConcatProperties
<1>8. Bytes' = Bytes \o bytes
  BY <1>1, <1>5, <1>6, <1>7, SeqEqual
<1> QED  BY <1>1, <1>2, <1>8

\* The oldest bytes are read, those of a message without the length before it, and all
\* leave the ring.
LEMMA ReadRemoves ==
    ASSUME TypeOK, TypeOK', NEW count \in Nat, NEW gone, gone = FrameBytes + count,
           gone <= BytesInBuffer, Read(count)
    PROVE  /\ BytesInBuffer' = BytesInBuffer - gone
           /\ SpacesAvailable' = SpacesAvailable + gone
           /\ pvRxData' = SubSeq(Bytes, FrameBytes + 1, gone)
           /\ Bytes' = SubSeq(Bytes, gone + 1, Len(Bytes))
<1>0. /\ xHead \in 0 .. xLength - 1 /\ xTail \in 0 .. xLength - 1 /\ xLength \in Nat \ {0, 1}
      /\ FrameBytes \in Nat /\ gone \in Nat
      /\ xTail' = Wrapped(xTail + gone) /\ xHead' = xHead
  BY StreamBufferAssumption, FrameBytesType DEF TypeOK, Read
<1>1. BytesInBuffer' = BytesInBuffer - gone
  BY <1>0, TailMoves DEF BytesInBuffer
<1>2. SpacesAvailable' = SpacesAvailable + gone
  BY <1>0, TailMoves DEF BytesInBuffer, SpacesAvailable
<1>3. BytesInBuffer \in 0 .. xLength - 1
  BY BytesAndSpaces
<1>4. /\ Bytes \in Seq(Nat) /\ Len(Bytes) = BytesInBuffer
      /\ \A k \in 1 .. BytesInBuffer : /\ Wrapped(xTail + k - 1) \in 0 .. xLength - 1
                                       /\ Bytes[k] = pucBuffer[Wrapped(xTail + k - 1)]
  BY BytesType
<1>5. /\ Bytes' \in Seq(Nat) /\ Len(Bytes') = BytesInBuffer'
      /\ \A k \in 1 .. BytesInBuffer' : /\ Wrapped(xTail' + k - 1) \in 0 .. xLength - 1
                                        /\ Bytes'[k] = pucBuffer'[Wrapped(xTail' + k - 1)]
  BY BytesTypeNext
<1> HIDE DEF BytesInBuffer, SpacesAvailable, FrameBytes
<1>6. pvRxData' = SubSeq(Bytes, FrameBytes + 1, gone)
  <2>1. pvRxData' = [k \in 1 .. count |-> pucBuffer[Wrapped(Wrapped(xTail + FrameBytes) + k - 1)]]
    BY DEF Read, BytesFrom
  <2>2. ASSUME NEW k \in 1 .. count
        PROVE  pucBuffer[Wrapped(Wrapped(xTail + FrameBytes) + k - 1)] = Bytes[FrameBytes + k]
    <3> DEFINE i == FrameBytes + k
    <3>1. i \in 1 .. BytesInBuffer
      BY <1>0, <1>3
    <3>2. Wrapped(Wrapped(xTail + FrameBytes) + k - 1) = Wrapped(xTail + i - 1)
      BY <1>0, <1>3, <3>1 DEF Wrapped
    <3> HIDE DEF i
    <3>3. Bytes[i] = pucBuffer[Wrapped(xTail + i - 1)]
      BY <1>4, <3>1
    <3> QED  BY <3>2, <3>3 DEF i
  <2> DEFINE p == FrameBytes + 1
             message == SubSeq(Bytes, p, gone)
  <2>3. p \in Int /\ gone \in Int /\ gone - p + 1 = count /\ (p <= gone <=> count # 0)
        /\ \A k \in 1 .. count : p + k - 1 = FrameBytes + k
    BY <1>0
  <2>4. \A i \in p .. gone : Bytes[i] \in Nat
    BY <1>0, <1>3, <1>4
  <2> HIDE DEF p
  <2>5. /\ message \in Seq(Nat) /\ Len(message) = count
        /\ \A k \in 1 .. count : message[k] = Bytes[FrameBytes + k]
    BY <2>3, <2>4, SubSeqProperties
  <2> HIDE DEF message
  <2>6. message = [k \in 1 .. count |-> Bytes[FrameBytes + k]]
    BY <2>5
  <2> QED  BY <2>1, <2>2, <2>6 DEF message, p
<1>7. Bytes' = SubSeq(Bytes, gone + 1, Len(Bytes))
  <2> DEFINE rest == SubSeq(Bytes, gone + 1, Len(Bytes))
  <2>1. /\ rest \in Seq(Nat) /\ Len(rest) = BytesInBuffer - gone
        /\ \A k \in 1 .. BytesInBuffer - gone : rest[k] = Bytes[gone + k]
    BY <1>0, <1>3, <1>4
  <2> HIDE DEF rest
  <2>2. ASSUME NEW k \in 1 .. BytesInBuffer - gone
        PROVE  Bytes'[k] = rest[k]
    <3> DEFINE i == Wrapped(xTail' + k - 1)
    <3>1. i \in 0 .. xLength - 1 /\ Bytes'[k] = pucBuffer'[i]
      BY <1>1, <1>5, <2>2
    <3>2. pucBuffer'[i] = IF Wrapped(i + xLength - xTail) < gone THEN 0 ELSE pucBuffer[i]
      BY <1>0, <3>1 DEF Read
    <3>3. i = Wrapped(xTail + (gone + k) - 1) /\ ~(Wrapped(i + xLength - xTail) < gone)
      BY <1>0, CellOfByteLeft DEF BytesInBuffer
    <3> HIDE DEF i
    <3>4. gone + k \in 1 .. BytesInBuffer
      BY <1>0, <1>3
    <3> QED  BY <1>4, <2>1, <3>1, <3>2, <3>3, <3>4
  <2> QED  BY <1>1, <1>5, <2>1, <2>2, SeqEqual DEF rest
<1> QED  BY <1>1, <1>2, <1>6, <1>7

-----------------------------------------------------------------------------
(***************************************************************************)
(* The messages.  Messages parses bytes from their beginning, by recursion *)
(* on places that come later.  While the bytes are whole frames, a frame   *)
(* that is added behind them adds a message, and the first frame is the    *)
(* first message.                                                          *)
(***************************************************************************)

\* The frame that begins at place i, if one ends before the bytes do.
NoFrame(bytes, i) == i + LengthBytes > Len(bytes) \/ i + LengthBytes + bytes[i] - 1 > Len(bytes)
MessageAt(bytes, i) == SubSeq(bytes, i + LengthBytes, i + LengthBytes + bytes[i] - 1)
NextFrame(bytes, i) == i + LengthBytes + bytes[i]

\* What a parse says of place i: no message from there on, or one and then the rest.
ParseFrom(f, bytes, i) ==
    IF NoFrame(bytes, i) THEN <<>> ELSE <<MessageAt(bytes, i)>> \o f[NextFrame(bytes, i)]

\* f is the function that Messages defines by recursion.
IsParse(f, bytes) == f = [i \in 1 .. Len(bytes) + 1 |-> ParseFrom(f, bytes, i)]

\* What is true at the last place, and at every place if it is true at all later
\* ones, is true at every place.
LEMMA BackwardInduction ==
    ASSUME NEW n \in Nat, NEW Q,
           \A i \in 1 .. n + 1 : (\A j \in i + 1 .. n + 1 : Q[j]) => Q[i]
    PROVE  \A i \in 1 .. n + 1 : Q[i]
<1> DEFINE P == [m \in Nat |-> \A i \in 1 .. n + 1 : i + m > n => Q[i]]
<1>1. P[0]
  <2>1. \A j \in n + 1 + 1 .. n + 1 : Q[j]
    OBVIOUS
  <2>2. Q[n + 1]
    BY <2>1
  <2> QED  BY <2>2
<1>2. ASSUME NEW m \in Nat, P[m]
      PROVE  P[m + 1]
  <2> SUFFICES ASSUME NEW i \in 1 .. n + 1, i + (m + 1) > n
               PROVE  Q[i]
    OBVIOUS
  <2>1. \A j \in i + 1 .. n + 1 : Q[j]
    BY <1>2
  <2> QED  BY <2>1
<1>3. \A m \in Nat : P[m]
  <2> HIDE DEF P
  <2> QED  BY <1>1, <1>2, Induction
<1>4. P[n]
  BY <1>3
<1> QED  BY <1>4

LEMMA FrameFits ==
    ASSUME NEW bytes \in Seq(Nat), NEW i \in 1 .. Len(bytes) + 1, ~NoFrame(bytes, i)
    PROVE  /\ i \in 1 .. Len(bytes) /\ bytes[i] \in Nat
           /\ NextFrame(bytes, i) \in i + 1 .. Len(bytes) + 1
           /\ MessageAt(bytes, i) \in Seq(Nat)
<1>0. LengthBytes \in Nat \ {0} /\ Len(bytes) \in Nat
  BY StreamBufferAssumption
<1>1. i \in 1 .. Len(bytes) /\ bytes[i] \in Nat
  BY <1>0 DEF NoFrame
<1>2. NextFrame(bytes, i) \in i + 1 .. Len(bytes) + 1
  BY <1>0, <1>1 DEF NoFrame, NextFrame
<1>3. MessageAt(bytes, i) \in Seq(Nat)
  <2> DEFINE j == i + LengthBytes
             k == i + LengthBytes + bytes[i] - 1
  <2>1. j \in 1 .. Len(bytes) + 1 /\ k \in 0 .. Len(bytes)
    BY <1>0, <1>1 DEF NoFrame
  <2>2. MessageAt(bytes, i) = SubSeq(bytes, j, k)
    BY DEF MessageAt
  <2> HIDE DEF j, k
  <2> QED  BY <2>1, <2>2, SubSeqProperties
<1> QED  BY <1>1, <1>2, <1>3

LEMMA ParseFromType ==
    ASSUME NEW bytes \in Seq(Nat), NEW i \in 1 .. Len(bytes) + 1, NEW f,
           \A j \in i + 1 .. Len(bytes) + 1 : f[j] \in Seq(Seq(Nat))
    PROVE  ParseFrom(f, bytes, i) \in Seq(Seq(Nat))
<1>1. CASE NoFrame(bytes, i)
  BY <1>1 DEF ParseFrom
<1>2. CASE ~NoFrame(bytes, i)
  <2>1. <<MessageAt(bytes, i)>> \in Seq(Seq(Nat)) /\ f[NextFrame(bytes, i)] \in Seq(Seq(Nat))
    BY <1>2, FrameFits
  <2> QED  BY <1>2, <2>1 DEF ParseFrom
<1> QED  BY <1>1, <1>2

\* What a parse says of a place depends on later places only.
LEMMA ParseFromLater ==
    ASSUME NEW bytes \in Seq(Nat), NEW i \in 1 .. Len(bytes) + 1, NEW f, NEW g,
           \A j \in i + 1 .. Len(bytes) + 1 : f[j] = g[j]
    PROVE  ParseFrom(f, bytes, i) = ParseFrom(g, bytes, i)
BY FrameFits DEF ParseFrom

\* The recursion of Messages is well founded, so there is such a function.
LEMMA ParseExists ==
    ASSUME NEW bytes \in Seq(Nat)
    PROVE  \E f : IsParse(f, bytes)
<1> DEFINE n == Len(bytes)
           Solves(f, m) == \A i \in 1 .. n + 1 : i + m > n => f[i] = ParseFrom(f, bytes, i)
           Solvable(m) == \E f : f = [i \in 1 .. n + 1 |-> f[i]] /\ Solves(f, m)
           P == [m \in Nat |-> Solvable(m)]
<1>0. n \in Nat /\ LengthBytes \in Nat \ {0}
  BY StreamBufferAssumption
<1> HIDE DEF n
<1>1. Solvable(0)
  <2> DEFINE f == [i \in 1 .. n + 1 |-> <<>>]
  <2>1. f[n + 1] = <<>> /\ ParseFrom(f, bytes, n + 1) = <<>>
    BY <1>0 DEF ParseFrom, NoFrame, n
  <2>2. \A i \in 1 .. n + 1 : i + 0 > n => i = n + 1
    BY <1>0
  <2>3. Solves(f, 0)
    <3> HIDE DEF f
    <3> QED  BY <2>1, <2>2
  <2>4. f = [i \in 1 .. n + 1 |-> f[i]]
    OBVIOUS
  <2> HIDE DEF f, Solves
  <2> QED  BY <2>3, <2>4
<1>2. ASSUME NEW m \in Nat, Solvable(m)
      PROVE  Solvable(m + 1)
  <2>1. PICK f : f = [i \in 1 .. n + 1 |-> f[i]] /\ Solves(f, m)
    BY <1>2
  <2> DEFINE p == n - m
             g == [i \in 1 .. n + 1 |-> IF i = p THEN ParseFrom(f, bytes, i) ELSE f[i]]
  <2>2. ASSUME NEW i \in 1 .. n + 1, i + (m + 1) > n
        PROVE  g[i] = ParseFrom(g, bytes, i)
    <3>0. p \in Int /\ i >= p /\ (i = p \/ i + m > n)
      BY <1>0, <2>2
    <3> HIDE DEF p
    <3>1. \A j \in i + 1 .. n + 1 : g[j] = f[j]
      BY <1>0, <3>0
    <3>2. g[i] = ParseFrom(f, bytes, i)
      <4>1. CASE i = p
        BY <4>1
      <4>2. CASE i # p
        BY <2>1, <3>0, <4>2
      <4> QED  BY <4>1, <4>2
    <3> HIDE DEF g
    <3>3. ParseFrom(f, bytes, i) = ParseFrom(g, bytes, i)
      BY <3>1, ParseFromLater DEF n
    <3> QED  BY <3>2, <3>3
  <2>3. g = [i \in 1 .. n + 1 |-> g[i]]
    OBVIOUS
  <2>4. Solves(g, m + 1)
    <3> HIDE DEF g
    <3> QED  BY <2>2
  <2> HIDE DEF g, Solves
  <2> QED  BY <2>3, <2>4
<1>3. \A m \in Nat : P[m]
  <2> HIDE DEF Solvable
  <2>1. P[0] /\ \A m \in Nat : P[m] => P[m + 1]
    BY <1>1, <1>2
  <2> HIDE DEF P
  <2> QED  BY <2>1, Induction
<1>4. PICK f : f = [i \in 1 .. n + 1 |-> f[i]] /\ Solves(f, n)
  BY <1>0, <1>3
<1>5. \A i \in 1 .. n + 1 : f[i] = ParseFrom(f, bytes, i)
  BY <1>0, <1>4
<1>6. f = [i \in 1 .. n + 1 |-> ParseFrom(f, bytes, i)]
  BY <1>4, <1>5
<1> QED  BY <1>6 DEF IsParse, n

\* Messages is what a parse says of the first place.
LEMMA MessagesParse ==
    ASSUME NEW bytes \in Seq(Nat)
    PROVE  \E f : /\ Messages(bytes) = f[1]
                  /\ \A i \in 1 .. Len(bytes) + 1 : /\ f[i] = ParseFrom(f, bytes, i)
                                                    /\ f[i] \in Seq(Seq(Nat))
<1> DEFINE f == CHOOSE f : IsParse(f, bytes)
<1>1. IsParse(f, bytes)
  BY ParseExists
<1>2. Messages(bytes) = f[1]
  BY DEF Messages, IsParse, ParseFrom, NoFrame, MessageAt, NextFrame
<1> HIDE DEF f
<1>3. \A i \in 1 .. Len(bytes) + 1 : f[i] = ParseFrom(f, bytes, i)
  BY <1>1 DEF IsParse
<1>4. \A i \in 1 .. Len(bytes) + 1 : f[i] \in Seq(Seq(Nat))
  <2> DEFINE Q == [i \in 1 .. Len(bytes) + 1 |-> f[i] \in Seq(Seq(Nat))]
  <2>1. ASSUME NEW i \in 1 .. Len(bytes) + 1, \A j \in i + 1 .. Len(bytes) + 1 : Q[j]
        PROVE  Q[i]
    <3>0. \A j \in i + 1 .. Len(bytes) + 1 : j \in 1 .. Len(bytes) + 1
      OBVIOUS
    <3>1. \A j \in i + 1 .. Len(bytes) + 1 : f[j] \in Seq(Seq(Nat))
      BY <2>1, <3>0
    <3>2. ParseFrom(f, bytes, i) \in Seq(Seq(Nat))
      BY <3>1, ParseFromType
    <3> QED  BY <1>3, <3>2
  <2>2. \A i \in 1 .. Len(bytes) + 1 : Q[i]
    <3> HIDE DEF Q
    <3>1. Len(bytes) \in Nat
      OBVIOUS
    <3> QED  BY <2>1, <3>1, BackwardInduction
  <2> QED  BY <2>2
<1> QED  BY <1>2, <1>3, <1>4


LEMMA NoMessages == Messages(<<>>) = <<>>
<1>1. <<>> \in Seq(Nat) /\ Len(<<>>) = 0 /\ 1 \in 1 .. Len(<<>>) + 1
  OBVIOUS
<1>2. PICK f : /\ Messages(<<>>) = f[1]
               /\ \A i \in 1 .. Len(<<>>) + 1 : f[i] = ParseFrom(f, <<>>, i)
  BY <1>1, MessagesParse
<1>3. NoFrame(<<>>, 1)
  BY <1>1, StreamBufferAssumption DEF NoFrame
<1> QED  BY <1>1, <1>2, <1>3 DEF ParseFrom

\* The bytes are whole frames, one behind the other, and none is of an empty message: B
\* holds the places where they begin, and the place behind the last.
FrameStarts(B, bytes) ==
    /\ 1 \in B /\ Len(bytes) + 1 \in B
    /\ \A i \in B : i <= Len(bytes) => /\ bytes[i] # 0 /\ NextFrame(bytes, i) \in B
WholeFrames(bytes) == \E B \in SUBSET (1 .. Len(bytes) + 1) : FrameStarts(B, bytes)

LEMMA NoFramesAreWhole == WholeFrames(<<>>)
<1>1. FrameStarts({1}, <<>>)
  BY DEF FrameStarts
<1>2. {1} \in SUBSET (1 .. Len(<<>>) + 1)
  OBVIOUS
<1> QED  BY <1>1, <1>2 DEF WholeFrames

LEMMA WholeFrameFits ==
    ASSUME NEW bytes \in Seq(Nat), NEW n, n = Len(bytes), NEW B \in SUBSET (1 .. n + 1),
           FrameStarts(B, bytes), NEW i \in B, i <= n
    PROVE  /\ i \in 1 .. n /\ bytes[i] \in Nat \ {0} /\ NextFrame(bytes, i) \in B
           /\ i + LengthBytes + bytes[i] <= n + 1 /\ ~NoFrame(bytes, i)
<1>0. LengthBytes \in Nat \ {0} /\ n \in Nat
  BY StreamBufferAssumption
<1>1. i \in 1 .. n
  BY <1>0
<1>2. bytes[i] \in Nat
  BY <1>1
<1>3. bytes[i] # 0 /\ NextFrame(bytes, i) \in B
  BY DEF FrameStarts
<1>4. NextFrame(bytes, i) \in 1 .. n + 1
  BY <1>3
<1> QED  BY <1>0, <1>1, <1>2, <1>3, <1>4 DEF NextFrame, NoFrame

\* The bytes of a frame are its message's length and then the message.
LEMMA FrameBytesAre ==
    ASSUME NEW data \in Seq(Nat), data # <<>>
    PROVE  /\ Frame(data) \in Seq(Nat) /\ Len(Frame(data)) = LengthBytes + Len(data)
           /\ Frame(data)[1] = Len(data)
           /\ \A k \in 1 .. Len(data) : Frame(data)[LengthBytes + k] = data[k]
<1> DEFINE length == [i \in 1 .. LengthBytes |-> IF i = 1 THEN Len(data) ELSE 0]
           d == Len(data)
<1>0. LengthBytes \in Nat \ {0} /\ d \in Nat
  BY StreamBufferAssumption
<1>1. length \in Seq(Nat) /\ Len(length) = LengthBytes /\ length[1] = d
  BY <1>0
<1>2. Frame(data) = length \o data
  BY DEF Frame
<1> HIDE DEF length
<1>3. Frame(data) \in Seq(Nat) /\ Len(Frame(data)) = LengthBytes + d
  BY FrameType
<1>4. \A i \in 1 .. LengthBytes + d :
            Frame(data)[i] = IF i <= LengthBytes THEN length[i] ELSE data[i - LengthBytes]
  BY <1>0, <1>1, <1>2, ConcatProperties
<1> HIDE DEF d
<1>5. Frame(data)[1] = d
  BY <1>0, <1>1, <1>4
<1>6. ASSUME NEW k \in 1 .. d
      PROVE  Frame(data)[LengthBytes + k] = data[k]
  <2> DEFINE i == LengthBytes + k
  <2>1. i \in 1 .. LengthBytes + d /\ ~(i <= LengthBytes) /\ i - LengthBytes = k
    BY <1>0
  <2> HIDE DEF i
  <2>2. Frame(data)[i] = data[k]
    BY <1>4, <2>1
  <2> QED  BY <2>2 DEF i
<1> QED  BY <1>3, <1>5, <1>6 DEF d

\* all is the bytes and behind them the frame of the message.
HasFrameBehind(all, bytes, data) ==
    /\ bytes \in Seq(Nat) /\ data \in Seq(Nat) /\ all \in Seq(Nat)
    /\ Len(data) \in Nat \ {0}
    /\ Len(all) = Len(bytes) + LengthBytes + Len(data)
    /\ \A i \in 1 .. Len(bytes) : all[i] = bytes[i]
    /\ all[Len(bytes) + 1] = Len(data)
    /\ \A k \in 1 .. Len(data) : all[Len(bytes) + LengthBytes + k] = data[k]

LEMMA FrameBehind ==
    ASSUME NEW bytes \in Seq(Nat), NEW data \in Seq(Nat), data # <<>>,
           NEW all, all = bytes \o Frame(data)
    PROVE  HasFrameBehind(all, bytes, data)
<1> DEFINE frame == Frame(data)
           n == Len(bytes)
           d == Len(data)
           f == LengthBytes + d
<1>0. LengthBytes \in Nat \ {0} /\ n \in Nat /\ d \in Nat \ {0}
  BY StreamBufferAssumption, EmptySeq
<1>n. n = Len(bytes) /\ d = Len(data)
  OBVIOUS
<1>1. /\ frame \in Seq(Nat) /\ Len(frame) = f /\ frame[1] = d
      /\ \A k \in 1 .. d : frame[LengthBytes + k] = data[k]
  BY FrameBytesAre
<1>2. all = bytes \o frame
  OBVIOUS
<1> HIDE DEF frame, n, d
<1>3. f \in Nat /\ f >= 1
  BY <1>0
<1> HIDE DEF f
<1>4. /\ all \in Seq(Nat) /\ Len(all) = n + f
      /\ \A i \in 1 .. n + f : all[i] = IF i <= n THEN bytes[i] ELSE frame[i - n]
  <2>1. /\ bytes \o frame \in Seq(Nat)
        /\ Len(bytes \o frame) = Len(bytes) + Len(frame)
        /\ \A i \in 1 .. Len(bytes) + Len(frame) :
              (bytes \o frame)[i] = IF i <= Len(bytes) THEN bytes[i] ELSE frame[i - Len(bytes)]
    <3>1. bytes \in Seq(Nat) /\ frame \in Seq(Nat)
      BY <1>1
    <3> QED  BY ONLY <3>1, ConcatProperties, Zenon
  <2> QED  BY <1>n, <1>1, <1>2, <2>1, Zenon
<1>5. \A i \in 1 .. n : all[i] = bytes[i]
  BY <1>0, <1>3, <1>4
<1>6. ASSUME NEW k \in 1 .. f
      PROVE  all[n + k] = frame[k]
  <2> DEFINE i == n + k
  <2>1. i \in 1 .. n + f /\ ~(i <= n) /\ i - n = k
    BY <1>0, <1>3
  <2> HIDE DEF i
  <2>2. all[i] = frame[k]
    BY <1>4, <2>1
  <2> QED  BY <2>2 DEF i
<1>7. all[n + 1] = d
  <2>1. 1 \in 1 .. f
    BY <1>3
  <2> QED  BY <1>1, <1>6, <2>1
<1>8. ASSUME NEW k \in 1 .. d
      PROVE  all[n + LengthBytes + k] = data[k]
  <2> DEFINE j == LengthBytes + k
  <2>1. j \in 1 .. f /\ n + LengthBytes + k = n + j
    BY <1>0 DEF f
  <2>2. frame[j] = data[k]
    BY <1>1
  <2> HIDE DEF j
  <2>3. all[n + j] = data[k]
    BY <1>6, <2>1, <2>2
  <2> QED  BY <2>1, <2>3
<1>9. n + f = n + LengthBytes + d
  BY <1>0 DEF f
<1> QED  BY <1>0, <1>4, <1>5, <1>7, <1>8, <1>9 DEF HasFrameBehind, n, d

\* Two stretches of sequences are the same if they have the same elements.
Stretch(s, p, q) == SubSeq(s, p, q)
Matches(s, p, q, t, o) ==
    /\ s \in Seq(Nat) /\ p \in 1 .. Len(s) + 1 /\ q \in 0 .. Len(s)
    /\ t \in Seq(Nat) /\ p + o \in 1 .. Len(t) + 1 /\ q + o \in 0 .. Len(t)
    /\ o \in Int /\ \A i \in p .. q : s[i] = t[i + o]

LEMMA SameStretch ==
    ASSUME NEW s, NEW p, NEW q, NEW t, NEW o, Matches(s, p, q, t, o)
    PROVE  Stretch(s, p, q) = Stretch(t, p + o, q + o)
<1> DEFINE u == p + o
           v == q + o
<1>u. u = p + o /\ v = q + o
  OBVIOUS
<1> HIDE DEF u, v
<1>0. /\ s \in Seq(Nat) /\ p \in 1 .. Len(s) + 1 /\ q \in 0 .. Len(s)
      /\ t \in Seq(Nat) /\ u \in 1 .. Len(t) + 1 /\ v \in 0 .. Len(t)
      /\ o \in Int /\ \A i \in p .. q : s[i] = t[i + o]
  BY <1>u DEF Matches
<1>1. /\ Stretch(s, p, q) \in Seq(Nat)
      /\ Len(Stretch(s, p, q)) = IF p <= q THEN q - p + 1 ELSE 0
      /\ \A k \in 1 .. q - p + 1 : Stretch(s, p, q)[k] = s[p + k - 1]
  <2>1. \A i \in p .. q : s[i] \in Nat
    BY <1>0
  <2> QED  BY <1>0, <2>1, SubSeqProperties DEF Stretch
<1>2. /\ Stretch(t, u, v) \in Seq(Nat)
      /\ Len(Stretch(t, u, v)) = IF u <= v THEN v - u + 1 ELSE 0
      /\ \A k \in 1 .. v - u + 1 : Stretch(t, u, v)[k] = t[u + k - 1]
  <2>1. \A i \in u .. v : t[i] \in Nat
    BY <1>0
  <2> QED  BY <1>0, <2>1, SubSeqProperties DEF Stretch
<1>3. (u <= v <=> p <= q) /\ v - u + 1 = q - p + 1
  BY <1>0, <1>u
<1>4. ASSUME NEW k \in 1 .. q - p + 1
      PROVE  Stretch(s, p, q)[k] = Stretch(t, u, v)[k]
  <2> DEFINE i == p + k - 1
  <2>1. i \in p .. q /\ u + k - 1 = i + o
    BY <1>0, <1>u
  <2>2. Stretch(s, p, q)[k] = s[i] /\ Stretch(t, u, v)[k] = t[u + k - 1]
    BY <1>1, <1>2, <1>3
  <2> HIDE DEF i
  <2> QED  BY <1>0, <2>1, <2>2
<1>5. ASSUME p <= q
      PROVE  Stretch(s, p, q) = Stretch(t, u, v)
  BY <1>1, <1>2, <1>3, <1>4, <1>5, SeqEqual
<1>6. ASSUME ~(p <= q)
      PROVE  Stretch(s, p, q) = Stretch(t, u, v)
  BY <1>0, <1>1, <1>2, <1>3, <1>6, EmptySeq
<1>7. Stretch(s, p, q) = Stretch(t, u, v)
  BY <1>5, <1>6
<1> QED  BY <1>u, <1>7


\* A frame is added behind whole frames: they are whole, with one more message.
LEMMA FrameAdded ==
    ASSUME NEW bytes, NEW data, NEW all, WholeFrames(bytes), HasFrameBehind(all, bytes, data)
    PROVE  WholeFrames(all) /\ Messages(all) = Append(Messages(bytes), data)
<1> DEFINE n == Len(bytes)
           m == Len(all)
           d == Len(data)
<1>0. LengthBytes \in Nat \ {0} /\ n \in Nat /\ d \in Nat \ {0}
  BY StreamBufferAssumption DEF HasFrameBehind
<1>n. n = Len(bytes) /\ m = Len(all) /\ d = Len(data)
  OBVIOUS
<1>s. bytes \in Seq(Nat) /\ data \in Seq(Nat) /\ all \in Seq(Nat)
  BY DEF HasFrameBehind
<1>1. /\ m = n + LengthBytes + d
      /\ \A i \in 1 .. n : all[i] = bytes[i]
      /\ all[n + 1] = d
      /\ \A k \in 1 .. d : all[n + LengthBytes + k] = data[k]
  BY DEF HasFrameBehind
<1> HIDE DEF n, m, d
<1>2. PICK B \in SUBSET (1 .. n + 1) : FrameStarts(B, bytes)
  BY <1>n DEF WholeFrames
<1>3. ASSUME NEW i \in B, i <= n
      PROVE  /\ i \in 1 .. n /\ all[i] = bytes[i] /\ bytes[i] \in Nat \ {0}
             /\ i + LengthBytes + bytes[i] <= n + 1 /\ ~NoFrame(bytes, i)
             /\ NextFrame(bytes, i) \in B
  BY <1>n, <1>s, <1>1, <1>2, <1>3, WholeFrameFits
<1>b. 1 \in B /\ n + 1 \in B
  BY <1>n, <1>2 DEF FrameStarts
<1>4. WholeFrames(all)
  <2> DEFINE C == B \cup {m + 1}
  <2>1. C \in SUBSET (1 .. m + 1)
    BY <1>0, <1>1, <1>2
  <2>2. ASSUME NEW i \in C, i <= m
        PROVE  all[i] # 0 /\ NextFrame(all, i) \in C
    <3>1. i \in B /\ i \in 1 .. n + 1
      BY <1>0, <1>1, <1>2, <2>2
    <3>2. CASE i <= n
      <4>1. all[i] = bytes[i] /\ bytes[i] # 0 /\ NextFrame(bytes, i) \in B
        BY <1>3, <3>1, <3>2
      <4> QED  BY <4>1 DEF NextFrame
    <3>3. CASE i = n + 1
      BY <1>0, <1>1, <3>3 DEF NextFrame
    <3> QED  BY <1>0, <3>1, <3>2, <3>3
  <2>3. 1 \in C /\ m + 1 \in C
    BY <1>b
  <2> HIDE DEF C
  <2> QED  BY <1>n, <2>1, <2>2, <2>3 DEF WholeFrames, FrameStarts
<1>5. PICK f : /\ Messages(bytes) = f[1]
               /\ \A i \in 1 .. n + 1 : /\ f[i] = ParseFrom(f, bytes, i)
                                        /\ f[i] \in Seq(Seq(Nat))
  BY <1>n, <1>s, MessagesParse
<1>6. PICK g : /\ Messages(all) = g[1]
               /\ \A i \in 1 .. m + 1 : /\ g[i] = ParseFrom(g, all, i)
                                        /\ g[i] \in Seq(Seq(Nat))
  BY <1>n, <1>s, MessagesParse
<1>7. g[n + 1] = Append(f[n + 1], data)
  <2>1. NoFrame(bytes, n + 1)
    BY <1>0, <1>n DEF NoFrame
  <2>2. NoFrame(all, m + 1) /\ ~NoFrame(all, n + 1) /\ NextFrame(all, n + 1) = m + 1
    BY <1>0, <1>1, <1>n DEF NoFrame, NextFrame
  <2>3. MessageAt(all, n + 1) = data
    <3> DEFINE p == n + 1 + LengthBytes
               q == n + 1 + LengthBytes + all[n + 1] - 1
               o == 0 - n - LengthBytes
    <3>1. /\ p \in 1 .. m + 1 /\ q \in 0 .. m /\ o \in Int /\ p + o = 1 /\ q + o = d
          /\ 1 \in 1 .. d + 1 /\ d \in 0 .. d
      BY <1>0, <1>1
    <3>2. MessageAt(all, n + 1) = Stretch(all, p, q)
      BY DEF MessageAt, Stretch
    <3>3. ASSUME NEW i \in p .. q
          PROVE  all[i] = data[i + o]
      <4> DEFINE k == i + o
      <4>1. k \in 1 .. d /\ i = n + LengthBytes + k
        BY <1>0, <1>1
      <4> HIDE DEF k
      <4>2. all[i] = data[k]
        BY <1>1, <4>1
      <4> QED  BY <4>2 DEF k
    <3> HIDE DEF p, q, o
    <3>4. Stretch(all, p, q) = Stretch(data, 1, d)
      <4>1. Matches(all, p, q, data, o)
        BY <1>n, <1>s, <3>1, <3>3 DEF Matches
      <4>2. 1 = p + o /\ d = q + o
        BY <3>1
      <4>3. Stretch(all, p, q) = Stretch(data, p + o, q + o)
        BY <4>1, SameStretch
      <4> QED  BY <4>2, <4>3
    <3>5. Stretch(data, 1, d) = data
      BY <1>n, <1>s DEF Stretch
    <3> QED  BY <3>2, <3>4, <3>5
  <2>4. n + 1 \in 1 .. n + 1 /\ n + 1 \in 1 .. m + 1 /\ m + 1 \in 1 .. m + 1
    BY <1>0, <1>1
  <2>5. g[m + 1] = <<>> /\ f[n + 1] = <<>>
    BY <1>5, <1>6, <2>1, <2>2, <2>4 DEF ParseFrom
  <2>6. g[n + 1] = <<data>> \o <<>>
    BY <1>6, <2>2, <2>3, <2>4, <2>5 DEF ParseFrom
  <2>7. <<data>> \o <<>> = Append(<<>>, data)
    OBVIOUS
  <2> QED  BY <2>5, <2>6, <2>7
<1>8. ASSUME NEW i \in B, NEW j, j = NextFrame(bytes, i), i <= n, g[j] = Append(f[j], data)
      PROVE  g[i] = Append(f[i], data)
  <2>1. /\ i \in 1 .. n /\ all[i] = bytes[i] /\ bytes[i] \in Nat \ {0}
        /\ i + LengthBytes + bytes[i] <= n + 1 /\ ~NoFrame(bytes, i)
        /\ j \in B
    BY <1>3, <1>8
  <2>2. ~NoFrame(all, i) /\ NextFrame(all, i) = j
    BY <1>0, <1>n, <1>1, <1>8, <2>1 DEF NoFrame, NextFrame
  <2>3. MessageAt(all, i) = MessageAt(bytes, i)
    <3> DEFINE p == i + LengthBytes
               q == i + LengthBytes + bytes[i] - 1
    <3>1. /\ p \in 1 .. n + 1 /\ q \in 0 .. n /\ p \in 1 .. m + 1 /\ q \in 0 .. m
          /\ p + 0 = p /\ q + 0 = q /\ 0 \in Int
      BY <1>0, <1>1, <2>1
    <3>2. MessageAt(all, i) = Stretch(all, p, q) /\ MessageAt(bytes, i) = Stretch(bytes, p, q)
      BY <2>1 DEF MessageAt, Stretch
    <3>3. \A k \in p .. q : bytes[k] = all[k + 0]
      BY <1>0, <1>1, <3>1
    <3> HIDE DEF p, q
    <3>4. Stretch(bytes, p, q) = Stretch(all, p, q)
      <4>1. Matches(bytes, p, q, all, 0)
        BY <1>n, <1>s, <3>1, <3>3 DEF Matches
      <4>2. p = p + 0 /\ q = q + 0
        BY <3>1
      <4>3. Stretch(bytes, p, q) = Stretch(all, p + 0, q + 0)
        BY <4>1, SameStretch
      <4> QED  BY <4>2, <4>3
    <3> QED  BY <3>2, <3>4
  <2> DEFINE first == <<MessageAt(bytes, i)>>
  <2>4. first \in Seq(Seq(Nat)) /\ j \in 1 .. n + 1 /\ i \in 1 .. n + 1 /\ i \in 1 .. m + 1
    <3>1. i \in 1 .. n + 1 /\ i \in 1 .. m + 1 /\ j \in 1 .. n + 1
      BY <1>0, <1>1, <2>1
    <3>2. MessageAt(bytes, i) \in Seq(Nat)
      BY <1>n, <1>s, <2>1, <3>1, FrameFits
    <3> QED  BY <3>1, <3>2
  <2>5. g[i] = first \o g[j] /\ f[i] = first \o f[j]
    BY <1>5, <1>6, <1>8, <2>1, <2>2, <2>3, <2>4 DEF ParseFrom
  <2>6. f[j] \in Seq(Seq(Nat))
    BY <1>5, <2>4
  <2> HIDE DEF first
  <2>7. first \o Append(f[j], data) = Append(first \o f[j], data)
    BY <2>4, <2>6
  <2> QED  BY <1>8, <2>5, <2>7
<1>9. \A i \in 1 .. n + 1 : i \in B => g[i] = Append(f[i], data)
  <2> DEFINE Q == [i \in 1 .. n + 1 |-> i \in B => g[i] = Append(f[i], data)]
  <2>1. ASSUME NEW i \in 1 .. n + 1, \A j \in i + 1 .. n + 1 : Q[j], i \in B
        PROVE  g[i] = Append(f[i], data)
    <3>1. CASE i = n + 1
      BY <1>7, <3>1
    <3>2. CASE i # n + 1
      <4> DEFINE j == NextFrame(bytes, i)
      <4>1. i <= n
        BY <1>0, <3>2
      <4>2. j \in B /\ j \in 1 .. n + 1 /\ j \in i + 1 .. n + 1
        BY <1>0, <1>3, <2>1, <4>1 DEF NextFrame
      <4> HIDE DEF j
      <4>3. g[j] = Append(f[j], data)
        BY <2>1, <4>2
      <4> QED  BY <1>8, <2>1, <4>1, <4>3 DEF j
    <3> QED  BY <3>1, <3>2
  <2>2. \A i \in 1 .. n + 1 : (\A j \in i + 1 .. n + 1 : Q[j]) => Q[i]
    BY <2>1
  <2>3. \A i \in 1 .. n + 1 : Q[i]
    <3> HIDE DEF Q
    <3> QED  BY <1>0, <2>2, BackwardInduction
  <2> QED  BY <2>3
<1>10. g[1] = Append(f[1], data)
  <2>1. 1 \in 1 .. n + 1
    BY <1>0
  <2> QED  BY <1>b, <1>9, <2>1
<1> QED  BY <1>4, <1>5, <1>6, <1>10

\* rest is what is left of the bytes without the first c.
IsRest(rest, bytes, c) ==
    /\ bytes \in Seq(Nat) /\ rest \in Seq(Nat) /\ Len(bytes) \in Nat \ {0} /\ bytes[1] \in Nat
    /\ c <= Len(bytes) => /\ Len(rest) = Len(bytes) - c
                          /\ \A k \in 1 .. Len(bytes) - c : rest[k] = bytes[c + k]

\* The first of whole frames is removed: one message less.
LEMMA FrameRemoved ==
    ASSUME NEW bytes, NEW c, NEW rest, WholeFrames(bytes), c = LengthBytes + bytes[1],
           IsRest(rest, bytes, c)
    PROVE  /\ bytes[1] \in Nat \ {0} /\ c <= Len(bytes) /\ WholeFrames(rest)
           /\ Messages(bytes) = <<Stretch(bytes, LengthBytes + 1, c)>> \o Messages(rest)
           /\ Messages(rest) \in Seq(Seq(Nat))
<1> DEFINE n == Len(bytes)
           r == Len(rest)
<1>0. LengthBytes \in Nat \ {0} /\ n \in Nat \ {0}
  BY StreamBufferAssumption DEF IsRest
<1>n. n = Len(bytes) /\ r = Len(rest)
  OBVIOUS
<1>s. bytes \in Seq(Nat) /\ rest \in Seq(Nat)
  BY DEF IsRest
<1>r. c <= n => r = n - c /\ \A k \in 1 .. n - c : rest[k] = bytes[c + k]
  BY DEF IsRest
<1> HIDE DEF n, r
<1>1. PICK B \in SUBSET (1 .. n + 1) : FrameStarts(B, bytes)
  BY <1>n DEF WholeFrames
<1>2. 1 \in B /\ n + 1 \in B
  BY <1>n, <1>1 DEF FrameStarts
<1>3. /\ bytes[1] \in Nat \ {0} /\ NextFrame(bytes, 1) \in B
      /\ 1 + LengthBytes + bytes[1] <= n + 1 /\ ~NoFrame(bytes, 1)
  <2>1. 1 \in B /\ 1 <= n
    BY <1>0, <1>2
  <2> QED  BY <1>n, <1>s, <1>1, <2>1, WholeFrameFits
<1>4. c \in 1 .. n /\ c + 1 \in B /\ NextFrame(bytes, 1) = c + 1
  BY <1>0, <1>3 DEF NextFrame
<1>5. r = n - c /\ \A k \in 1 .. n - c : rest[k] = bytes[c + k]
  BY <1>0, <1>r, <1>4
<1>6. ASSUME NEW i \in 1 .. r + 1
      PROVE  /\ NoFrame(bytes, c + i) <=> NoFrame(rest, i)
             /\ ~NoFrame(rest, i) => /\ NextFrame(bytes, c + i) = c + NextFrame(rest, i)
                                     /\ MessageAt(bytes, c + i) = MessageAt(rest, i)
  <2>1. CASE i = r + 1
    BY <1>0, <1>n, <1>4, <1>5, <2>1 DEF NoFrame
  <2>2. CASE i \in 1 .. r
    <3> DEFINE b == rest[i]
    <3>1. bytes[c + i] = b /\ b \in Nat
      <4>1. i \in 1 .. n - c /\ i \in 1 .. Len(rest)
        BY <1>n, <1>5, <2>2
      <4> QED  BY <1>s, <1>5, <4>1
    <3>2. (NoFrame(bytes, c + i) <=> NoFrame(rest, i)) /\ NextFrame(bytes, c + i) = c + NextFrame(rest, i)
      <4> HIDE DEF b
      <4>1. /\ NoFrame(bytes, c + i) <=> c + i + LengthBytes > n \/ c + i + LengthBytes + b - 1 > n
            /\ NextFrame(bytes, c + i) = c + i + LengthBytes + b
        BY <1>n, <3>1 DEF NoFrame, NextFrame
      <4>2. /\ NoFrame(rest, i) <=> i + LengthBytes > r \/ i + LengthBytes + b - 1 > r
            /\ NextFrame(rest, i) = i + LengthBytes + b
        BY <1>n DEF NoFrame, NextFrame, b
      <4> QED  BY <1>0, <1>4, <1>5, <2>2, <3>1, <4>1, <4>2
    <3>3. ASSUME ~NoFrame(rest, i)
          PROVE  MessageAt(bytes, c + i) = MessageAt(rest, i)
      <4> DEFINE p == i + LengthBytes
                 q == i + LengthBytes + b - 1
                 u == c + i + LengthBytes
                 v == c + i + LengthBytes + b - 1
      <4>1. MessageAt(bytes, c + i) = Stretch(bytes, u, v) /\ MessageAt(rest, i) = Stretch(rest, p, q)
        BY <3>1 DEF MessageAt, Stretch
      <4>2. p <= r /\ q <= r
        BY <1>0, <1>n, <1>5, <3>1, <3>3 DEF NoFrame
      <4>3. /\ p \in 1 .. r + 1 /\ q \in 0 .. r /\ c \in Int /\ u = p + c /\ v = q + c
            /\ p + c \in 1 .. n + 1 /\ q + c \in 0 .. n
        BY <1>0, <1>4, <1>5, <2>2, <3>1, <4>2
      <4>4. \A k \in p .. q : k \in 1 .. n - c /\ k + c = c + k
        BY <1>0, <1>4, <1>5, <4>3
      <4> HIDE DEF p, q, u, v
      <4>5. \A k \in p .. q : rest[k] = bytes[k + c]
        BY <1>5, <4>4
      <4>6. Stretch(rest, p, q) = Stretch(bytes, u, v)
        <5>1. Matches(rest, p, q, bytes, c)
          BY <1>n, <1>s, <4>3, <4>5 DEF Matches
        <5>2. u = p + c /\ v = q + c
          BY <4>3
        <5>3. Stretch(rest, p, q) = Stretch(bytes, p + c, q + c)
          BY <5>1, SameStretch
        <5> QED  BY <5>2, <5>3
      <4> QED  BY <4>1, <4>6
    <3> QED  BY <3>2, <3>3
  <2> QED  BY <1>0, <1>4, <1>5, <2>1, <2>2
<1>7. WholeFrames(rest)
  <2> DEFINE C == {i \in 1 .. r + 1 : c + i \in B}
  <2>1. 1 \in C /\ r + 1 \in C
    BY <1>0, <1>2, <1>4, <1>5
  <2>2. ASSUME NEW i \in C, i <= r
        PROVE  rest[i] # 0 /\ NextFrame(rest, i) \in C
    <3>1. i \in 1 .. r /\ c + i \in B /\ c + i <= n /\ rest[i] = bytes[c + i]
      BY <1>0, <1>4, <1>5, <2>2
    <3>2. /\ bytes[c + i] \in Nat \ {0} /\ NextFrame(bytes, c + i) \in B
          /\ c + i + LengthBytes + bytes[c + i] <= n + 1
      BY <1>n, <1>s, <1>1, <3>1, WholeFrameFits
    <3>3. NextFrame(bytes, c + i) = c + NextFrame(rest, i) /\ NextFrame(rest, i) \in 1 .. r + 1
      BY <1>0, <1>4, <1>5, <3>1, <3>2 DEF NextFrame
    <3> QED  BY <3>1, <3>2, <3>3
  <2>3. C \in SUBSET (1 .. r + 1)
    OBVIOUS
  <2> HIDE DEF C
  <2> QED  BY <1>n, <2>1, <2>2, <2>3 DEF WholeFrames, FrameStarts
<1>8. PICK f : /\ Messages(bytes) = f[1]
               /\ \A i \in 1 .. n + 1 : /\ f[i] = ParseFrom(f, bytes, i)
                                        /\ f[i] \in Seq(Seq(Nat))
  BY <1>n, <1>s, MessagesParse
<1>9. PICK g : /\ Messages(rest) = g[1]
               /\ \A i \in 1 .. r + 1 : /\ g[i] = ParseFrom(g, rest, i)
                                        /\ g[i] \in Seq(Seq(Nat))
  BY <1>n, <1>s, MessagesParse
<1>10. \A i \in 1 .. r + 1 : f[c + i] = g[i]
  <2> DEFINE Q == [i \in 1 .. r + 1 |-> f[c + i] = g[i]]
  <2>1. ASSUME NEW i \in 1 .. r + 1, \A j \in i + 1 .. r + 1 : Q[j]
        PROVE  f[c + i] = g[i]
    <3>1. c + i \in 1 .. n + 1
      BY <1>0, <1>4, <1>5
    <3>2. f[c + i] = ParseFrom(f, bytes, c + i) /\ g[i] = ParseFrom(g, rest, i)
      BY <1>8, <1>9, <3>1
    <3>3. CASE NoFrame(rest, i)
      BY <1>6, <3>2, <3>3 DEF ParseFrom
    <3>4. CASE ~NoFrame(rest, i)
      <4>1. NextFrame(rest, i) \in i + 1 .. r + 1 /\ NextFrame(rest, i) \in 1 .. r + 1
        BY <1>n, <1>s, <3>4, FrameFits
      <4>2. f[c + NextFrame(rest, i)] = g[NextFrame(rest, i)]
        BY <2>1, <4>1
      <4> QED  BY <1>6, <3>2, <3>4, <4>2 DEF ParseFrom
    <3> QED  BY <3>3, <3>4
  <2>2. \A i \in 1 .. r + 1 : (\A j \in i + 1 .. r + 1 : Q[j]) => Q[i]
    BY <2>1
  <2>3. r \in Nat
    BY <1>0, <1>4, <1>5
  <2>4. \A i \in 1 .. r + 1 : Q[i]
    <3> HIDE DEF Q
    <3> QED  BY <2>2, <2>3, BackwardInduction
  <2> QED  BY <2>4
<1>11. f[1] = <<Stretch(bytes, LengthBytes + 1, c)>> \o g[1] /\ g[1] \in Seq(Seq(Nat))
  <2>1. 1 \in 1 .. n + 1 /\ 1 \in 1 .. r + 1
    BY <1>0, <1>4, <1>5
  <2>2. f[1] = <<MessageAt(bytes, 1)>> \o f[c + 1]
    BY <1>3, <1>4, <1>8, <2>1 DEF ParseFrom
  <2>3. MessageAt(bytes, 1) = Stretch(bytes, LengthBytes + 1, c)
    <3>1. 1 + LengthBytes = LengthBytes + 1 /\ 1 + LengthBytes + bytes[1] - 1 = c
      BY <1>0, <1>3
    <3>2. MessageAt(bytes, 1) = Stretch(bytes, 1 + LengthBytes, 1 + LengthBytes + bytes[1] - 1)
      BY DEF MessageAt, Stretch
    <3> QED  BY <3>1, <3>2
  <2> QED  BY <1>9, <1>10, <2>1, <2>2, <2>3
<1> QED  BY <1>3, <1>4, <1>7, <1>8, <1>9, <1>11, <1>n

-----------------------------------------------------------------------------
(***************************************************************************)
(* What makes the copies right, although nothing protects them: what a     *)
(* side measured is still there when it copies, and only the other side    *)
(* can have added to it.  A message buffer holds whole frames, and what    *)
(* its reader measured has all of the first.                               *)
(***************************************************************************)

Measured(n) ==
    /\ n <= BytesInBuffer
    /\ isMessageBuffer /\ n > LengthBytes => LengthBytes + Bytes[1] <= n

CopiesFit ==
    /\ pc["writer"] # "out" => pvTxData \in Payloads
    /\ pc["writer"] = "out" => xSpace = 0
    /\ pc["writer"] \notin {"completed", "notify"} => xSpace <= SpacesAvailable
    /\ pc["reader"] = "copy" => Measured(xBytesAvailable)

HoldsFrames == isMessageBuffer => WholeFrames(Bytes)

StreamInv == TypeOK /\ InterruptsDoNotWait /\ CopiesFit /\ HoldsFrames

\* Bytes of a stream, or a message, are added; the first ones are removed.
Added ==
    IF isMessageBuffer THEN Bytes' = Bytes \o Frame(pvTxData')
    ELSE \E n \in 1 .. Len(pvTxData') : Bytes' = Bytes \o SubSeq(pvTxData', 1, n)

Removed ==
    IF isMessageBuffer
    THEN /\ Bytes # <<>>
         /\ pvRxData' = SubSeq(Bytes, LengthBytes + 1, LengthBytes + Bytes[1])
         /\ Bytes' = SubSeq(Bytes, LengthBytes + Bytes[1] + 1, Len(Bytes))
    ELSE \E n \in 1 .. Len(Bytes) : /\ pvRxData' = SubSeq(Bytes, 1, n)
                                   /\ Bytes' = SubSeq(Bytes, n + 1, Len(Bytes))

\* A step: a call or a return, a receive that is over, bytes sent, bytes received, or
\* a reset.
StreamStep ==
    /\ UNCHANGED isMessageBuffer
    /\ \/ /\ pvTxData' = pvTxData \/ pvTxData' \in Payloads \cup {<<>>}
          /\ Bytes' = Bytes /\ pvRxData' = pvRxData
       \/ pvRxData' = <<>> /\ Bytes' = Bytes /\ pvTxData' = pvTxData
       \/ pvTxData' \in Payloads /\ pvRxData' = pvRxData /\ Added
       \/ pvTxData' = pvTxData /\ Removed
       \/ Bytes' = <<>> /\ pvTxData' = pvTxData /\ pvRxData' = pvRxData

\* A message is added: it is the last one.
LEMMA MessageAdded ==
    ASSUME TypeOK, HoldsFrames, isMessageBuffer, pvTxData' \in Payloads, Added
    PROVE  WholeFrames(Bytes') /\ Messages(Bytes') = Append(Messages(Bytes), pvTxData')
<1> DEFINE data == pvTxData'
           all == Bytes'
<1>1. Bytes \in Seq(Nat) /\ data \in Seq(Nat) /\ data # <<>>
  BY BytesType, PayloadType, StreamBufferAssumption
<1>2. all = Bytes \o Frame(data) /\ WholeFrames(Bytes)
  BY DEF Added, HoldsFrames
<1> HIDE DEF data, all
<1>3. HasFrameBehind(all, Bytes, data)
  BY <1>1, <1>2, FrameBehind
<1> QED  BY <1>2, <1>3, FrameAdded DEF data, all

\* A message is removed: it was the first one, and was not empty.
LEMMA MessageRemoved ==
    ASSUME TypeOK, HoldsFrames, isMessageBuffer, Removed
    PROVE  /\ WholeFrames(Bytes') /\ pvRxData' # <<>>
           /\ Messages(Bytes) = <<pvRxData'>> \o Messages(Bytes')
           /\ Messages(Bytes') \in Seq(Seq(Nat)) /\ pvRxData' \in Seq(Nat)
<1> DEFINE c == LengthBytes + Bytes[1]
           rest == Bytes'
           message == pvRxData'
<1>1. Bytes \in Seq(Nat) /\ Bytes # <<>> /\ Len(Bytes) \in Nat \ {0} /\ WholeFrames(Bytes)
  BY BytesType, EmptySeq DEF HoldsFrames, Removed
<1>2. rest = SubSeq(Bytes, c + 1, Len(Bytes)) /\ message = Stretch(Bytes, LengthBytes + 1, c)
  BY DEF Removed, Stretch
<1>3. c \in Nat /\ LengthBytes \in Nat \ {0} /\ Bytes[1] \in Nat
  BY <1>1, StreamBufferAssumption
<1> HIDE DEF rest, message
<1>4. IsRest(rest, Bytes, c)
  <2> DEFINE p == c + 1
             n == Len(Bytes)
  <2>1. \A i \in p .. n : Bytes[i] \in Nat
    <3>1. p \in Nat \ {0} /\ n \in Nat /\ n = Len(Bytes)
      BY <1>1, <1>3
    <3> HIDE DEF p, n
    <3>2. \A i \in p .. n : i \in 1 .. Len(Bytes)
      BY <3>1
    <3> QED  BY <1>1, <3>2
  <2>2. p \in Int /\ n \in Nat \ {0} /\ p >= 1
    BY <1>1, <1>3
  <2>3. /\ n - p + 1 = n - c /\ (p <= n <=> c < n)
        /\ \A k \in 1 .. n - c : p + k - 1 = c + k
    BY <1>1, <1>3
  <2>4. n = Len(Bytes)
    OBVIOUS
  <2> HIDE DEF p, n
  <2>5. /\ rest \in Seq(Nat) /\ Len(rest) = IF p <= n THEN n - p + 1 ELSE 0
        /\ \A k \in 1 .. n - p + 1 : rest[k] = Bytes[p + k - 1]
    BY <1>2, <2>1, <2>2, SubSeqProperties DEF p, n
  <2> HIDE DEF c
  <2>6. c <= n => /\ Len(rest) = n - c
                  /\ \A k \in 1 .. n - c : rest[k] = Bytes[c + k]
    <3>1. ASSUME c <= n
          PROVE  Len(rest) = n - c
      BY <1>3, <2>2, <2>3, <2>5, <3>1
    <3>2. ASSUME NEW k \in 1 .. n - c
          PROVE  rest[k] = Bytes[c + k]
      <4>1. k \in 1 .. n - p + 1 /\ p + k - 1 = c + k
        BY <2>3
      <4> QED  BY <2>5, <4>1
    <3> QED  BY <3>1, <3>2
  <2> QED  BY <1>1, <1>3, <2>2, <2>4, <2>5, <2>6 DEF IsRest
<1> HIDE DEF c
<1>5. c = LengthBytes + Bytes[1]
  BY DEF c
<1>6. /\ Bytes[1] \in Nat \ {0} /\ c <= Len(Bytes) /\ WholeFrames(rest)
      /\ Messages(Bytes) = <<Stretch(Bytes, LengthBytes + 1, c)>> \o Messages(rest)
      /\ Messages(rest) \in Seq(Seq(Nat))
  BY <1>1, <1>4, <1>5, FrameRemoved
<1>7. message \in Seq(Nat) /\ message # <<>>
  <2> DEFINE p == LengthBytes + 1
  <2>1. p \in Int /\ c \in Int /\ p <= c /\ c - p + 1 # 0 /\ \A i \in p .. c : Bytes[i] \in Nat
    <3>1. Bytes[1] \in Nat \ {0} /\ c <= Len(Bytes)
      BY <1>6
    <3>2. p \in Int /\ c \in Int /\ p <= c /\ c - p + 1 # 0 /\ p >= 1
      BY <1>3, <1>5, <3>1
    <3> HIDE DEF p
    <3>3. \A i \in p .. c : i \in 1 .. Len(Bytes)
      BY <1>1, <3>1, <3>2
    <3> QED  BY <1>1, <3>2, <3>3
  <2> HIDE DEF p
  <2>2. message \in Seq(Nat) /\ Len(message) = c - p + 1
    BY <1>2, <2>1, SubSeqProperties DEF p, Stretch
  <2> QED  BY <2>1, <2>2
<1> QED  BY <1>2, <1>6, <1>7 DEF rest, message

LEMMA FirstAndRest ==
    ASSUME NEW first \in Seq(Nat), NEW rest \in Seq(Seq(Nat))
    PROVE  /\ 1 \in 1 .. Len(<<first>> \o rest)
           /\ SubSeq(<<first>> \o rest, 1, 1) = <<first>>
           /\ SubSeq(<<first>> \o rest, 1 + 1, Len(<<first>> \o rest)) = rest
<1> DEFINE u == <<first>> \o rest
           n == Len(rest)
<1>1. n \in Nat /\ u \in Seq(Seq(Nat)) /\ Len(u) = n + 1 /\ u[1] = first
      /\ \A k \in 1 .. n : u[k + 1] = rest[k]
  OBVIOUS
<1>2. SubSeq(u, 1, 1) = <<first>>
  <2> DEFINE v == SubSeq(u, 1, 1)
             w == <<first>>
  <2>1. \A i \in 1 .. 1 : u[i] \in Seq(Nat)
    <3> HIDE DEF u, n
    <3> QED  BY <1>1
  <2>2. v \in Seq(Seq(Nat)) /\ Len(v) = 1 /\ v[1] = u[1]
    <3> HIDE DEF u, n
    <3>1. /\ v \in Seq(Seq(Nat)) /\ Len(v) = IF 1 <= 1 THEN 1 - 1 + 1 ELSE 0
          /\ \A k \in 1 .. 1 - 1 + 1 : v[k] = u[1 + k - 1]
      BY <1>1, <2>1, SubSeqProperties
    <3> HIDE DEF v
    <3> QED  BY <3>1
  <2>3. w \in Seq(Seq(Nat)) /\ Len(w) = 1 /\ w[1] = first
    OBVIOUS
  <2> HIDE DEF u, v, w, n
  <2>4. v = w
    BY <1>1, <2>2, <2>3, SeqEqual
  <2> QED  BY <2>4 DEF v, w
<1>3. SubSeq(u, 1 + 1, Len(u)) = rest
  <2> DEFINE v == SubSeq(u, 2, n + 1)
  <2>1. \A i \in 2 .. n + 1 : u[i] \in Seq(Nat)
    <3> HIDE DEF u, n
    <3> QED  BY <1>1
  <2>2. /\ v \in Seq(Seq(Nat)) /\ Len(v) = IF 2 <= n + 1 THEN n + 1 - 2 + 1 ELSE 0
        /\ \A k \in 1 .. n + 1 - 2 + 1 : v[k] = u[2 + k - 1]
    <3> HIDE DEF u, n
    <3> QED  BY <1>1, <2>1, SubSeqProperties
  <2>3. v = SubSeq(u, 1 + 1, Len(u))
    <3> HIDE DEF u
    <3> QED  BY <1>1
  <2> HIDE DEF u, v, n
  <2>4. Len(v) = n /\ \A k \in 1 .. n : v[k] = rest[k]
    BY <1>1, <2>2
  <2>5. v = rest
    BY <2>2, <2>4, SeqEqual DEF n
  <2> QED  BY <2>3, <2>5
<1> QED  BY <1>1, <1>2, <1>3

LEMMA StreamStepIsAbstract ==
    ASSUME TypeOK, HoldsFrames, StreamStep
    PROVE  [Abstract!Next]_Abstract!vars
<1>1. isMessageBuffer' = isMessageBuffer /\ isMessageBuffer \in BOOLEAN
  BY DEF StreamStep, TypeOK
<1>2. /\ Units = IF isMessageBuffer THEN Messages(Bytes) ELSE Bytes
      /\ Units' = IF isMessageBuffer THEN Messages(Bytes') ELSE Bytes'
      /\ UnitsRead = IF isMessageBuffer /\ pvRxData # <<>> THEN <<pvRxData>> ELSE pvRxData
      /\ UnitsRead' = IF isMessageBuffer /\ pvRxData' # <<>> THEN <<pvRxData'>> ELSE pvRxData'
  BY <1>1 DEF Units, UnitsRead, Bytes
<1>3. Bytes' = Bytes => Units' = Units
  BY <1>2
<1>4. pvRxData' = pvRxData => UnitsRead' = UnitsRead
  BY <1>2
<1>5. ASSUME pvTxData' \in Payloads \cup {<<>>}, Bytes' = Bytes, pvRxData' = pvRxData
      PROVE  Abstract!Call
  BY <1>1, <1>3, <1>4, <1>5 DEF Abstract!Call
<1>6. ASSUME pvRxData' = <<>>, Bytes' = Bytes, pvTxData' = pvTxData
      PROVE  Abstract!Handed
  BY <1>1, <1>2, <1>3, <1>6 DEF Abstract!Handed
<1>7. ASSUME pvTxData' \in Payloads, pvRxData' = pvRxData, Added
      PROVE  Abstract!Send
  <2>1. CASE isMessageBuffer
    BY <1>1, <1>2, <1>4, <1>7, <2>1, MessageAdded DEF Abstract!Send
  <2>2. CASE ~isMessageBuffer
    BY <1>1, <1>2, <1>4, <1>7, <2>2 DEF Abstract!Send, Added
  <2> QED  BY <2>1, <2>2
<1>8. ASSUME pvTxData' = pvTxData, Removed
      PROVE  Abstract!Receive
  <2>1. CASE isMessageBuffer
    <3> DEFINE first == pvRxData'
               rest == Messages(Bytes')
    <3>1. /\ first # <<>> /\ first \in Seq(Nat) /\ rest \in Seq(Seq(Nat))
          /\ Messages(Bytes) = <<first>> \o rest
      BY <1>8, <2>1, MessageRemoved
    <3>2. Units = <<first>> \o rest /\ Units' = rest /\ UnitsRead' = <<first>>
      BY <1>2, <2>1, <3>1
    <3> HIDE DEF first, rest
    <3>3. /\ 1 \in 1 .. Len(<<first>> \o rest)
          /\ SubSeq(<<first>> \o rest, 1, 1) = <<first>>
          /\ SubSeq(<<first>> \o rest, 1 + 1, Len(<<first>> \o rest)) = rest
      BY <3>1, FirstAndRest
    <3>4. UnitsRead' = SubSeq(Units, 1, 1) /\ Units' = SubSeq(Units, 1 + 1, Len(Units))
          /\ 1 \in 1 .. Len(Units)
      BY <3>2, <3>3
    <3> QED  BY <1>1, <1>8, <3>4 DEF Abstract!Receive
  <2>2. CASE ~isMessageBuffer
    BY <1>1, <1>2, <1>8, <2>2 DEF Abstract!Receive, Removed
  <2> QED  BY <2>1, <2>2
<1>9. ASSUME Bytes' = <<>>, pvTxData' = pvTxData, pvRxData' = pvRxData
      PROVE  Abstract!Clear
  BY <1>1, <1>2, <1>4, <1>9, NoMessages DEF Abstract!Clear
<1>10. ASSUME Bytes' = Bytes, pvTxData' = pvTxData, pvRxData' = pvRxData
      PROVE  UNCHANGED Abstract!vars
  BY <1>1, <1>3, <1>4, <1>10 DEF Abstract!vars
<1> QED  BY <1>5, <1>6, <1>7, <1>8, <1>9, <1>10 DEF StreamStep, Abstract!Next

\* A message buffer holds whole frames after every step.
LEMMA FramesKept ==
    ASSUME TypeOK, HoldsFrames, StreamStep
    PROVE  HoldsFrames'
<1> SUFFICES ASSUME isMessageBuffer
             PROVE  WholeFrames(Bytes')
  BY DEF StreamStep, HoldsFrames
<1> QED  BY MessageAdded, MessageRemoved, NoFramesAreWhole DEF StreamStep, HoldsFrames

\* What the two sides see while the ring stays as it is.
LEMMA BytesUnmoved ==
    ASSUME UNCHANGED ring
    PROVE  /\ Bytes' = Bytes /\ BytesInBuffer' = BytesInBuffer
           /\ SpacesAvailable' = SpacesAvailable
BY DEF ring, Bytes, BytesFrom, BytesInBuffer, SpacesAvailable, Wrapped

LEMMA CountsNext ==
    ASSUME TypeOK'
    PROVE  BytesInBuffer' \in Nat /\ SpacesAvailable' \in Nat
<1>1. (TypeOK => /\ BytesInBuffer \in 0 .. xLength - 1
                 /\ SpacesAvailable \in 0 .. xLength - 1
                 /\ BytesInBuffer + SpacesAvailable = xLength - 1)'
  BY BytesAndSpaces, PTL
<1>2. BytesInBuffer' \in 0 .. xLength - 1 /\ SpacesAvailable' \in 0 .. xLength - 1
  BY <1>1
<1> QED  BY <1>2, StreamBufferAssumption

\* Of what is there now, the reader may take the first frame.
LEMMA MeasuredNow ==
    ASSUME TypeOK, HoldsFrames
    PROVE  Measured(BytesInBuffer)
<1>1. /\ BytesInBuffer \in Nat /\ LengthBytes \in Nat
      /\ Bytes \in Seq(Nat) /\ BytesInBuffer = Len(Bytes)
  BY BytesAndSpaces, BytesType, StreamBufferAssumption
<1>2. ASSUME isMessageBuffer, BytesInBuffer > LengthBytes
      PROVE  LengthBytes + Bytes[1] <= BytesInBuffer
  <2>1. PICK B \in SUBSET (1 .. BytesInBuffer + 1) : FrameStarts(B, Bytes)
    BY <1>1, <1>2 DEF HoldsFrames, WholeFrames
  <2>2. 1 \in B /\ 1 <= BytesInBuffer
    BY <1>1, <1>2, <2>1 DEF FrameStarts
  <2>3. Bytes[1] \in Nat \ {0} /\ 1 + LengthBytes + Bytes[1] <= BytesInBuffer + 1
    BY <1>1, <2>1, <2>2, WholeFrameFits
  <2> QED  BY <1>1, <2>3
<1> QED  BY <1>1, <1>2 DEF Measured

LEMMA WriterCopies ==
    ASSUME StreamInv, TypeOK', NEW data \in Payloads, NEW space \in 0 .. SpacesAvailable,
           ToWrite(data, space) # <<>>, Write(ToWrite(data, space)),
           pvTxData' = data, UNCHANGED <<isMessageBuffer, pvRxData>>
    PROVE  /\ StreamStep /\ BytesInBuffer <= BytesInBuffer'
           /\ BytesInBuffer > 0 => Bytes'[1] = Bytes[1]
<1> DEFINE n == Min2(Len(data), space)
           bytes == ToWrite(data, space)
<1>0. TypeOK
  BY DEF StreamInv
<1>1. /\ data \in Seq(Nat) /\ SpacesAvailable \in Nat /\ BytesInBuffer \in Nat
      /\ LengthBytes \in Nat
  BY <1>0, PayloadType, BytesAndSpaces, StreamBufferAssumption
<1>2. bytes \in Seq(Nat) /\ bytes # <<>> /\ Len(bytes) <= SpacesAvailable
  <2>1. space \in 0 .. xLength - 1 /\ space <= SpacesAvailable
    BY <1>0, BytesAndSpaces
  <2>2. bytes \in Seq(Nat) /\ Len(bytes) <= space
    BY <1>1, <2>1, ToWriteFits
  <2> QED  BY <1>1, <2>1, <2>2
<1>3. /\ isMessageBuffer => bytes = Frame(data)
      /\ ~isMessageBuffer => bytes = SubSeq(data, 1, n)
  BY <1>2 DEF ToWrite
<1>4. ~isMessageBuffer => n \in 1 .. Len(data)
  <2>1. n \in 0 .. Len(data)
    BY <1>1 DEF Min2
  <2> HIDE DEF n
  <2>2. n = 0 => SubSeq(data, 1, n) = <<>>
    BY <1>1
  <2> QED  BY <1>1, <1>2, <1>3, <2>1, <2>2
<1>5. BytesInBuffer' = BytesInBuffer + Len(bytes) /\ Bytes' = Bytes \o bytes
  <2>1. Write(bytes)
    OBVIOUS
  <2> HIDE DEF bytes
  <2> QED  BY <1>0, <1>2, <2>1, WriteAppends
<1> HIDE DEF bytes, n
<1>6. Added
  <2>1. CASE isMessageBuffer
    BY <1>3, <1>5, <2>1 DEF Added
  <2>2. CASE ~isMessageBuffer
    <3>1. \E k \in 1 .. Len(pvTxData') : Bytes' = Bytes \o SubSeq(pvTxData', 1, k)
      BY <1>3, <1>4, <1>5, <2>2
    <3> QED  BY <2>2, <3>1, Zenon DEF Added
  <2> QED  BY <2>1, <2>2
<1>7. StreamStep
  BY <1>6, Zenon DEF StreamStep
<1>8. BytesInBuffer <= BytesInBuffer'
  BY <1>1, <1>2, <1>5
<1>9. BytesInBuffer > 0 => Bytes'[1] = Bytes[1]
  <2>1. Bytes \in Seq(Nat) /\ Len(Bytes) = BytesInBuffer
    BY <1>0, BytesType
  <2> HIDE DEF Bytes
  <2>2. BytesInBuffer > 0 => (Bytes \o bytes)[1] = Bytes[1]
    BY <1>1, <1>2, <2>1
  <2> QED  BY <1>5, <2>2
<1> QED  BY <1>7, <1>8, <1>9

LEMMA ReaderCopies ==
    ASSUME StreamInv, TypeOK', NEW wanted \in Nat, NEW available \in 0 .. BytesInBuffer,
           Measured(available), ~(available <= FrameBytes),
           ToRead(wanted, available) # 0, Read(ToRead(wanted, available)),
           UNCHANGED <<isMessageBuffer, pvTxData>>
    PROVE  StreamStep /\ SpacesAvailable <= SpacesAvailable'
<1> DEFINE n == ToRead(wanted, available)
           gone == FrameBytes + n
<1>0. TypeOK
  BY DEF StreamInv
<1>1. /\ BytesInBuffer \in 0 .. xLength - 1 /\ SpacesAvailable \in Nat
      /\ FrameBytes \in Nat /\ LengthBytes \in Nat \ {0}
  BY <1>0, BytesAndSpaces, FrameBytesType, StreamBufferAssumption
<1>2. n \in Nat /\ n # 0 /\ gone <= available /\ gone <= BytesInBuffer
  <2>1. available \in 0 .. xLength - 1
    BY <1>1, StreamBufferAssumption
  <2>2. n \in Nat /\ gone <= available
    BY <1>0, <2>1, ToReadIsThere
  <2> HIDE DEF n
  <2> QED  BY <1>1, <2>2 DEF n
<1>3. Bytes \in Seq(Nat) /\ Len(Bytes) = BytesInBuffer
  BY <1>0, BytesType
<1>4. /\ SpacesAvailable' = SpacesAvailable + gone
      /\ pvRxData' = SubSeq(Bytes, FrameBytes + 1, gone)
      /\ Bytes' = SubSeq(Bytes, gone + 1, Len(Bytes))
  <2>1. Read(n) /\ gone = FrameBytes + n
    OBVIOUS
  <2> HIDE DEF n, gone
  <2> QED  BY <1>0, <1>2, <2>1, ReadRemoves
<1>5. ASSUME isMessageBuffer
      PROVE  Removed
  <2>1. FrameBytes = LengthBytes /\ Bytes # <<>> /\ 1 \in 1 .. BytesInBuffer
    BY <1>1, <1>2, <1>3, <1>5 DEF FrameBytes
  <2>2. pucBuffer[xTail] = Bytes[1] /\ Bytes[1] \in Nat
    <3>1. Bytes[1] = pucBuffer[Wrapped(xTail + 1 - 1)]
      BY <1>0, <2>1, BytesType
    <3>2. Wrapped(xTail + 1 - 1) = xTail
      BY <1>0, StreamBufferAssumption DEF TypeOK, Wrapped
    <3> QED  BY <1>3, <2>1, <3>1, <3>2
  <2>3. LengthBytes + Bytes[1] <= available
    BY <1>1, <1>5, <2>1 DEF Measured
  <2>4. n = Bytes[1]
    BY <1>1, <1>2, <1>5, <2>2, <2>3 DEF ToRead, Min2
  <2> HIDE DEF n
  <2>5. gone = LengthBytes + Bytes[1]
    BY <2>1, <2>4
  <2> HIDE DEF gone
  <2>6. /\ pvRxData' = SubSeq(Bytes, LengthBytes + 1, LengthBytes + Bytes[1])
        /\ Bytes' = SubSeq(Bytes, LengthBytes + Bytes[1] + 1, Len(Bytes))
    <3> HIDE DEF Bytes
    <3> QED  BY <1>4, <2>1, <2>5, Zenon
  <2> QED  BY <1>5, <2>1, <2>6, Zenon DEF Removed
<1>6. ASSUME ~isMessageBuffer
      PROVE  Removed
  <2>1. FrameBytes = 0
    BY <1>6 DEF FrameBytes
  <2> HIDE DEF n
  <2>2. gone = n /\ FrameBytes + 1 = 1
    BY <1>2, <2>1
  <2>3. n \in 1 .. Len(Bytes)
    BY <1>1, <1>2, <1>3, <2>2
  <2> HIDE DEF gone
  <2>4. pvRxData' = SubSeq(Bytes, 1, n) /\ Bytes' = SubSeq(Bytes, n + 1, Len(Bytes))
    BY <1>4, <2>2, Zenon
  <2> QED  BY <1>6, <2>3, <2>4, Zenon DEF Removed
<1>7. StreamStep
  BY <1>5, <1>6, Zenon DEF StreamStep
<1>8. SpacesAvailable <= SpacesAvailable'
  <2> HIDE DEF n
  <2> QED  BY <1>1, <1>2, <1>4
<1> QED  BY <1>7, <1>8

\* What the writer sends is a payload, and what it measured is still free.
LEMMA WriterStreamStep ==
    ASSUME StreamInv, TypeOK',
           \/ \E data \in Payloads : \E w \in Waits : Send(data, w)
           \/ \E data \in Payloads : SendFromISR(data)
           \/ SendSteps
    PROVE  StreamStep /\ CopiesFit'
<1> USE DEF ring, setup, noted, times, txCall, rxCall, notifyVars
<1>0. /\ TypeOK /\ HoldsFrames /\ CopiesFit /\ InterruptsDoNotWait
      /\ "writer" \in Sides /\ "reader" \in Sides
  BY DEF StreamInv, Sides
<1>a. /\ SpacesAvailable \in 0 .. xLength - 1 /\ BytesInBuffer \in 0 .. xLength - 1
      /\ xBytesAvailable \in Nat /\ xSpace \in Nat /\ LengthBytes \in Nat
  <2>1. SpacesAvailable \in 0 .. xLength - 1 /\ BytesInBuffer \in 0 .. xLength - 1
    BY <1>0, BytesAndSpaces
  <2>2. xBytesAvailable \in Nat /\ xSpace \in Nat /\ LengthBytes \in Nat
    BY <1>0, StreamBufferAssumption DEF TypeOK
  <2> QED  BY <2>1, <2>2
<1>b. pc \in [Sides -> Steps]
  BY <1>0 DEF TypeOK
<1>1. ASSUME NEW data \in Payloads, NEW w \in Waits, Send(data, w)
      PROVE  StreamStep /\ CopiesFit'
  <2>1. UNCHANGED ring /\ UNCHANGED <<isMessageBuffer, pvRxData, xBytesAvailable, xSpace>>
    BY <1>1 DEF Send
  <2>2. /\ pvTxData' = data /\ pc'["reader"] = pc["reader"]
        /\ pc'["writer"] \in {"measure", "check"} /\ pc["writer"] = "out"
    BY <1>0, <1>b, <1>1 DEF Send, Go, At
  <2>3. StreamStep
    BY <2>1, <2>2, BytesUnmoved DEF StreamStep
  <2> QED  BY <1>0, <1>a, <2>1, <2>2, <2>3, BytesUnmoved DEF CopiesFit, Measured
<1>2. ASSUME NEW data \in Payloads, SendFromISR(data)
      PROVE  StreamStep /\ CopiesFit'
  <2> DEFINE bytes == ToWrite(data, SpacesAvailable)
  <2>1. /\ UNCHANGED <<isMessageBuffer, pvRxData, xBytesAvailable, xSpace, pc>>
        /\ pvTxData' = data
    BY <1>2 DEF SendFromISR
  <2>2. pc["writer"] = "out" /\ xSpace = 0
    BY <1>0, <1>2 DEF SendFromISR, InterruptsDoNotWait, CopiesFit
  <2>3. SpacesAvailable' \in Nat
    BY CountsNext
  <2>4. CASE bytes = <<>>
    <3>1. UNCHANGED ring
      BY <1>2, <2>4 DEF SendFromISR
    <3>2. StreamStep
      BY <2>1, <3>1, BytesUnmoved DEF StreamStep
    <3> QED  BY <1>0, <1>a, <2>1, <2>2, <3>1, <3>2, BytesUnmoved DEF CopiesFit, Measured
  <2>5. CASE bytes # <<>>
    <3>1. Write(bytes)
      BY <1>2, <2>5 DEF SendFromISR
    <3>2. /\ StreamStep /\ BytesInBuffer <= BytesInBuffer'
          /\ BytesInBuffer > 0 => Bytes'[1] = Bytes[1]
      BY <1>a, <2>1, <2>5, <3>1, WriterCopies
    <3>3. BytesInBuffer' \in Nat
      BY CountsNext
    <3> QED  BY <1>0, <1>a, <2>1, <2>2, <2>3, <3>2, <3>3 DEF CopiesFit, Measured
  <2> QED  BY <2>4, <2>5
<1>3. CASE SendCheck \/ SendClear \/ SendMeasure \/ SendEnough
  <2>1. UNCHANGED ring /\ UNCHANGED <<isMessageBuffer, pvRxData, xBytesAvailable, pvTxData>>
    BY <1>3 DEF SendCheck, SendClear, SendMeasure, SendEnough
  <2>2. /\ pc'["reader"] = pc["reader"] /\ pc["writer"] # "out" /\ pc'["writer"] # "out"
        /\ pc'["writer"] \notin {"completed", "notify"} => xSpace' <= SpacesAvailable
    BY <1>0, <1>a, <1>b, <1>3
       DEF SendCheck, SendClear, SendMeasure, SendEnough, Go, At, CopiesFit
  <2>3. StreamStep
    BY <2>1, BytesUnmoved DEF StreamStep
  <2> QED  BY <1>0, <1>a, <2>1, <2>2, <2>3, BytesUnmoved DEF CopiesFit, Measured
<1>4. ASSUME SendReturn, UNCHANGED ring, UNCHANGED <<isMessageBuffer, pvRxData, xBytesAvailable>>
      PROVE  StreamStep /\ CopiesFit'
  <2>1. /\ pvTxData' = <<>> /\ xSpace' = 0
        /\ pc'["reader"] = pc["reader"] /\ pc'["writer"] = "out"
    BY <1>0, <1>b, <1>4 DEF SendReturn, Return, Go
  <2>2. StreamStep
    BY <1>4, <2>1, BytesUnmoved DEF StreamStep
  <2> QED  BY <1>0, <1>a, <1>4, <2>1, <2>2, BytesUnmoved DEF CopiesFit, Measured
<1>5. CASE SendTooLittle \/ SendNotify
  BY <1>4, <1>5 DEF SendTooLittle, SendNotify
<1>6. CASE SendCopy
  <2> DEFINE bytes == ToWrite(pvTxData, xSpace)
  <2>1. CASE bytes = <<>>
    BY <1>4, <1>6, <2>1 DEF SendCopy
  <2>2. CASE bytes # <<>>
    <3>1. /\ Write(bytes)
          /\ UNCHANGED <<isMessageBuffer, pvRxData, xBytesAvailable, pvTxData, xSpace>>
      BY <1>6, <2>2 DEF SendCopy
    <3>2. /\ pc["writer"] = "copy" /\ pc'["writer"] = "completed"
          /\ pc'["reader"] = pc["reader"]
      BY <1>0, <1>b, <1>6, <2>2 DEF SendCopy, Go, At
    <3>3. pvTxData \in Payloads /\ xSpace \in 0 .. SpacesAvailable
      BY <1>0, <1>a, <3>2 DEF CopiesFit, Measured
    <3>4. /\ StreamStep /\ BytesInBuffer <= BytesInBuffer'
          /\ BytesInBuffer > 0 => Bytes'[1] = Bytes[1]
      BY <2>2, <3>1, <3>3, WriterCopies
    <3>5. BytesInBuffer' \in Nat
      BY CountsNext
    <3> QED  BY <1>0, <1>a, <3>1, <3>2, <3>3, <3>4, <3>5 DEF CopiesFit, Measured
  <2> QED  BY <2>1, <2>2
<1> QED  BY <1>1, <1>2, <1>3, <1>5, <1>6 DEF SendSteps

\* What the reader measured is still there.
LEMMA ReaderStreamStep ==
    ASSUME StreamInv, TypeOK',
           \/ \E size \in ReadSizes : \E w \in Waits : Receive(size, w)
           \/ \E size \in ReadSizes : ReceiveFromISR(size)
           \/ ReceiveSteps
    PROVE  StreamStep /\ CopiesFit'
<1> USE DEF ring, setup, noted, times, txCall, rxCall, notifyVars
<1>0. /\ TypeOK /\ HoldsFrames /\ CopiesFit /\ InterruptsDoNotWait
      /\ "writer" \in Sides /\ "reader" \in Sides
  BY DEF StreamInv, Sides
<1>a. /\ SpacesAvailable \in 0 .. xLength - 1 /\ BytesInBuffer \in 0 .. xLength - 1
      /\ xBytesAvailable \in Nat /\ xSpace \in Nat /\ LengthBytes \in Nat
  <2>1. SpacesAvailable \in 0 .. xLength - 1 /\ BytesInBuffer \in 0 .. xLength - 1
    BY <1>0, BytesAndSpaces
  <2>2. xBytesAvailable \in Nat /\ xSpace \in Nat /\ LengthBytes \in Nat
    BY <1>0, StreamBufferAssumption DEF TypeOK
  <2> QED  BY <2>1, <2>2
<1>b. pc \in [Sides -> Steps]
  BY <1>0 DEF TypeOK
<1>1. ASSUME NEW size \in ReadSizes, NEW w \in Waits, Receive(size, w)
      PROVE  StreamStep /\ CopiesFit'
  <2>1. UNCHANGED ring /\ UNCHANGED <<isMessageBuffer, pvRxData, pvTxData, xSpace>>
    BY <1>1 DEF Receive
  <2>2. pc'["writer"] = pc["writer"] /\ pc'["reader"] # "copy"
    BY <1>0, <1>b, <1>1 DEF Receive, Go, At
  <2>3. StreamStep
    BY <2>1, BytesUnmoved DEF StreamStep
  <2> QED  BY <1>0, <2>1, <2>2, <2>3, BytesUnmoved DEF CopiesFit, Measured
<1>2. ASSUME NEW size \in ReadSizes, ReceiveFromISR(size)
      PROVE  StreamStep /\ CopiesFit'
  <2>1. /\ UNCHANGED <<isMessageBuffer, pvTxData, xSpace, pc>>
        /\ ToRead(size, BytesInBuffer) # 0 /\ Read(ToRead(size, BytesInBuffer))
    BY <1>2 DEF ReceiveFromISR
  <2>2. pc["reader"] = "out"
    BY <1>0, <1>2 DEF ReceiveFromISR, InterruptsDoNotWait
  <2>3. /\ size \in Nat /\ BytesInBuffer \in 0 .. BytesInBuffer
        /\ Measured(BytesInBuffer) /\ ~(BytesInBuffer <= FrameBytes)
    BY <1>0, <1>2, <1>a, MeasuredNow, StreamBufferAssumption DEF ReceiveFromISR, NothingToRead
  <2>4. StreamStep /\ SpacesAvailable <= SpacesAvailable'
    BY <2>1, <2>3, ReaderCopies
  <2>5. SpacesAvailable' \in Nat
    BY CountsNext
  <2> QED  BY <1>0, <1>a, <2>1, <2>2, <2>4, <2>5 DEF CopiesFit, Measured
<1>3. CASE ReceiveCheck \/ ReceiveClear \/ ReceiveMeasure
  <2>1. UNCHANGED ring /\ UNCHANGED <<isMessageBuffer, pvRxData, pvTxData, xSpace>>
    BY <1>3 DEF ReceiveCheck, ReceiveClear, ReceiveMeasure
  <2>2. /\ pc'["writer"] = pc["writer"]
        /\ pc'["reader"] = "copy" => xBytesAvailable' = BytesInBuffer
    BY <1>0, <1>b, <1>3 DEF ReceiveCheck, ReceiveClear, ReceiveMeasure, Go, At
  <2>3. StreamStep
    BY <2>1, BytesUnmoved DEF StreamStep
  <2>4. Measured(BytesInBuffer)
    BY <1>0, MeasuredNow
  <2> QED  BY <1>0, <1>a, <2>1, <2>2, <2>3, <2>4, BytesUnmoved DEF CopiesFit, Measured
<1>4. ASSUME ReceiveReturn, UNCHANGED ring, UNCHANGED <<isMessageBuffer, pvTxData, xSpace>>
      PROVE  StreamStep /\ CopiesFit'
  <2>1. /\ pvRxData' = <<>>
        /\ pc'["writer"] = pc["writer"] /\ pc'["reader"] = "out"
    BY <1>0, <1>b, <1>4 DEF ReceiveReturn, Return, Go
  <2>2. StreamStep
    BY <1>4, <2>1, BytesUnmoved DEF StreamStep
  <2> QED  BY <1>0, <1>4, <2>1, <2>2, BytesUnmoved DEF CopiesFit, Measured
<1>5. CASE ReceiveNotify
  BY <1>4, <1>5 DEF ReceiveNotify
<1>6. CASE ReceiveCopy
  <2> DEFINE count == ToRead(xBufferLengthBytes, xBytesAvailable)
  <2>1. CASE xBytesAvailable <= FrameBytes \/ count = 0
    BY <1>4, <1>6, <2>1 DEF ReceiveCopy
  <2>2. CASE ~(xBytesAvailable <= FrameBytes \/ count = 0)
    <3>1. Read(count) /\ count # 0 /\ UNCHANGED <<isMessageBuffer, pvTxData, xSpace>>
      BY <1>6, <2>2 DEF ReceiveCopy
    <3>2. /\ pc["reader"] = "copy" /\ pc'["reader"] = "notify"
          /\ pc'["writer"] = pc["writer"]
      BY <1>0, <1>b, <1>6, <2>2 DEF ReceiveCopy, Go, At
    <3>3. /\ xBufferLengthBytes \in Nat /\ xBytesAvailable \in 0 .. BytesInBuffer
          /\ Measured(xBytesAvailable)
      <4>1. xBufferLengthBytes \in Nat
        BY <1>0 DEF TypeOK
      <4>2. Measured(xBytesAvailable)
        BY <1>0, <3>2 DEF CopiesFit
      <4> QED  BY <1>a, <4>1, <4>2 DEF Measured
    <3>4. StreamStep /\ SpacesAvailable <= SpacesAvailable'
      BY <2>2, <3>1, <3>3, ReaderCopies
    <3>5. SpacesAvailable' \in Nat
      BY CountsNext
    <3> QED  BY <1>0, <1>a, <3>1, <3>2, <3>4, <3>5 DEF CopiesFit, Measured
  <2> QED  BY <2>1, <2>2
<1> QED  BY <1>1, <1>2, <1>3, <1>5, <1>6 DEF ReceiveSteps

\* The steps that leave the bytes alone.
LEMMA StillStreamStep ==
    ASSUME StreamInv, UNCHANGED ring, UNCHANGED <<isMessageBuffer, pvTxData, xSpace, pvRxData,
                                                 xBytesAvailable>>,
           \A s \in Sides : \/ pc'[s] = pc[s]
                            \/ pc[s] \in {"wait", "woken"} /\ pc'[s] \in {"woken", "clear"}
    PROVE  StreamStep /\ CopiesFit'
<1>1. StreamStep
  BY BytesUnmoved DEF StreamStep
<1> QED  BY <1>1, BytesUnmoved DEF StreamInv, CopiesFit, Measured, Sides

\* What a reset leaves.
LEMMA ResetStreamStep ==
    ASSUME StreamInv, TypeOK', Reset
    PROVE  StreamStep /\ CopiesFit'
<1>1. xHead' = 0 /\ xTail' = 0 /\ xLength \in Nat \ {0, 1}
  BY StreamBufferAssumption DEF Reset
<1>2. BytesInBuffer' = 0 /\ SpacesAvailable' = xLength - 1
  BY <1>1 DEF BytesInBuffer, SpacesAvailable, Wrapped
<1>3. Bytes' = <<>>
  BY <1>2, BytesTypeNext, EmptySeq
<1>4. UNCHANGED <<isMessageBuffer, pvTxData, xSpace, pvRxData, xBytesAvailable, pc>>
  BY DEF Reset, setup, txCall, rxCall
<1>5. pc["reader"] # "copy" /\ xSpace <= xLength - 1
  BY StreamBufferAssumption DEF Reset, Sides, StreamInv, TypeOK
<1> QED  BY <1>2, <1>3, <1>4, <1>5 DEF StreamStep, StreamInv, CopiesFit

LEMMA StreamInvStep ==
    ASSUME StreamInv, WakeupInv, [Next]_vars
    PROVE  StreamInv' /\ StreamStep
<1> USE DEF ring, setup, noted, times, txCall, rxCall, notifyVars
<1>0. TypeOK' /\ InterruptsDoNotWait' /\ pc \in [Sides -> Steps]
  BY WakeupStep DEF WakeupInv, TypeOK
<1>1. StreamStep /\ CopiesFit'
  <2>1. CASE \/ \E data \in Payloads : \E w \in Waits : Send(data, w)
             \/ \E data \in Payloads : SendFromISR(data)
             \/ SendSteps
    BY <1>0, <2>1, WriterStreamStep
  <2>2. CASE \/ \E size \in ReadSizes : \E w \in Waits : Receive(size, w)
             \/ \E size \in ReadSizes : ReceiveFromISR(size)
             \/ ReceiveSteps
    BY <1>0, <2>2, ReaderStreamStep
  <2>3. ASSUME NEW s \in Sides, Wait(s) \/ Woken(s) \/ Expire(s)
        PROVE  StreamStep /\ CopiesFit'
    <3>1. UNCHANGED ring
          /\ UNCHANGED <<isMessageBuffer, pvTxData, xSpace, pvRxData, xBytesAvailable>>
      BY <2>3 DEF Wait, Woken, Expire
    <3>2. \A u \in Sides : \/ pc'[u] = pc[u]
                           \/ pc[u] \in {"wait", "woken"} /\ pc'[u] \in {"woken", "clear"}
      BY <1>0, <2>3 DEF Wait, Woken, Expire, At, Go
    <3> QED  BY <3>1, <3>2, StillStreamStep
  <2>4. CASE (\E n \in TriggerLevels : SetTriggerLevel(n)) \/ UNCHANGED vars
    <3>1. UNCHANGED ring
          /\ UNCHANGED <<isMessageBuffer, pvTxData, xSpace, pvRxData, xBytesAvailable, pc>>
      BY <2>4 DEF SetTriggerLevel, vars
    <3> QED  BY <3>1, StillStreamStep
  <2>5. CASE Reset
    BY <1>0, <2>5, ResetStreamStep
  <2> QED  BY <2>1, <2>2, <2>3, <2>4, <2>5 DEF Next
<1>2. HoldsFrames'
  BY <1>1, FramesKept DEF StreamInv
<1>3. StreamInv'
  BY <1>0, <1>1, <1>2 DEF StreamInv
<1> QED  BY <1>1, <1>3

\* What makes the copies right: what a side has measured is still there when it copies.
LEMMA StreamInvariant == Spec => []StreamInv
<1>1. Init => StreamInv
  <2> SUFFICES ASSUME Init
               PROVE  StreamInv
    OBVIOUS
  <2>1. TypeOK
    BY InitType
  <2>2. /\ xHead = 0 /\ xTail = 0 /\ pc = [s \in Sides |-> "out"] /\ xSpace = 0
        /\ xLength \in Nat \ {0, 1} /\ isrs \subseteq Sides
    BY StreamBufferAssumption DEF Init
  <2>3. BytesInBuffer = 0 /\ SpacesAvailable = xLength - 1
    BY <2>2 DEF BytesInBuffer, SpacesAvailable, Wrapped
  <2>4. Bytes = <<>>
    BY <2>1, <2>3, BytesType, EmptySeq
  <2>5. InterruptsDoNotWait /\ CopiesFit
    BY <2>2, <2>3 DEF InterruptsDoNotWait, CopiesFit, Sides
  <2>6. HoldsFrames
    BY <2>4, NoFramesAreWhole DEF HoldsFrames
  <2> QED  BY <2>1, <2>5, <2>6 DEF StreamInv
<1>2. StreamInv /\ WakeupInv /\ [Next]_vars => StreamInv'
  BY StreamInvStep
<1> QED  BY <1>1, <1>2, WakeupInvariant, PTL DEF Spec

\* The bytes of a stream, and the messages of a message buffer, arrive complete, once
\* and in the order they were sent, in a ring of any size, with sends and receives of
\* any size and neither copy protected from the other side, task or interrupt.
THEOREM BytesAndMessagesArriveInOrder == Spec => ImplementsStream
<1>1. Init => Abstract!Init
  <2> SUFFICES ASSUME Init
               PROVE  Abstract!Init
    OBVIOUS
  <2>1. /\ xHead = 0 /\ xTail = 0 /\ pvTxData = <<>> /\ pvRxData = <<>>
        /\ xLength \in Nat \ {0, 1} /\ isMessageBuffer \in BOOLEAN
    BY StreamBufferAssumption DEF Init
  <2>2. BytesInBuffer = 0
    BY <2>1 DEF BytesInBuffer, Wrapped
  <2>3. Bytes = <<>>
    BY <2>2, InitType, BytesType, EmptySeq
  <2>4. Units = <<>> /\ UnitsRead = <<>>
    BY <2>1, <2>3, NoMessages DEF Units, UnitsRead, Bytes
  <2> QED  BY <2>1, <2>4 DEF Abstract!Init
<1>2. StreamInv /\ WakeupInv /\ [Next]_vars => [Abstract!Next]_Abstract!vars
  BY StreamInvStep, StreamStepIsAbstract DEF StreamInv
<1> QED
  BY <1>1, <1>2, StreamInvariant, WakeupInvariant, PTL DEF Spec, ImplementsStream, Abstract!Spec

\* The writer and the reader do not wait for one another, as long as what is sent fits
\* beside what is short of the trigger level, and the level is not changed while the
\* reader waits.  A message buffer that a reader finds
\* nothing in holds nothing, not even a length with no message behind it.
THEOREM SidesDoNotStandOff == ~LevelWhileWaiting => (Spec => []NoStandoff)
<1> SUFFICES ASSUME ~LevelWhileWaiting PROVE Spec => []NoStandoff
  OBVIOUS
<1>1. ASSUME WakeupInv, StreamInv, Sides \subseteq blocked
      PROVE  RequiredSpace(pvTxData) + xTriggerLevelBytes > xLength
  <2>0. TypeOK /\ pc["writer"] = "woken" /\ pc["reader"] = "woken"
    BY <1>1 DEF WakeupInv, BlockedInWait, Sides
  <2>1. NothingToRead \/ ~TriggerReached
    BY <1>1, <2>0 DEF WakeupInv, DataIsSeen, Asleep, Sides
  <2>2. ~(SpacesAvailable >= RequiredSpace(pvTxData))
    BY <1>1, <2>0 DEF WakeupInv, SpaceIsSeen, Asleep, Sides
  <2>3. /\ BytesInBuffer \in 0 .. xLength - 1 /\ SpacesAvailable \in 0 .. xLength - 1
        /\ BytesInBuffer + SpacesAvailable = xLength - 1
    BY <2>0, BytesAndSpaces
  <2>4. pvTxData \in Seq(Nat) /\ xTriggerLevelBytes \in 1 .. xLength - 1
    BY <2>0 DEF TypeOK
  <2>5. RequiredSpace(pvTxData) \in Nat
    BY <2>4, RequiredSpaceType
  <2>6. NothingToRead => BytesInBuffer = 0
    <3>1. CASE ~isMessageBuffer
      BY <2>3, <3>1, StreamBufferAssumption DEF NothingToRead, FrameBytes
    <3>2. CASE isMessageBuffer
      <4> SUFFICES ASSUME BytesInBuffer <= LengthBytes, BytesInBuffer # 0
                   PROVE  FALSE
        BY <3>2 DEF NothingToRead, FrameBytes
      <4>1. Bytes \in Seq(Nat) /\ BytesInBuffer = Len(Bytes) /\ BytesInBuffer \in Nat \ {0}
            /\ LengthBytes \in Nat
        BY <2>0, <2>3, BytesType, StreamBufferAssumption
      <4>2. PICK B \in SUBSET (1 .. BytesInBuffer + 1) : FrameStarts(B, Bytes)
        BY <1>1, <3>2, <4>1 DEF StreamInv, HoldsFrames, WholeFrames
      <4>3. 1 \in B /\ 1 <= BytesInBuffer
        BY <4>1, <4>2 DEF FrameStarts
      <4>4. Bytes[1] \in Nat \ {0} /\ 1 + LengthBytes + Bytes[1] <= BytesInBuffer + 1
        BY <4>1, <4>2, <4>3, WholeFrameFits
      <4> QED  BY <4>1, <4>4
    <3> QED  BY <3>1, <3>2
  <2>7. BytesInBuffer < xTriggerLevelBytes
    BY <2>1, <2>3, <2>4, <2>6, StreamBufferAssumption DEF TriggerReached
  <2> QED  BY <2>2, <2>3, <2>4, <2>5, <2>7, StreamBufferAssumption
<1>2. WakeupInv /\ StreamInv => NoStandoff
  BY <1>1 DEF NoStandoff
<1> QED  BY <1>2, WakeupInvariant, StreamInvariant, PTL
=============================================================================
