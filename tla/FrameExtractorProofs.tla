------------------------ MODULE FrameExtractorProofs ------------------------
(***************************************************************************)
(* What FrameExtractor guarantees for every buffer size and all units.     *)
(***************************************************************************)
EXTENDS FrameExtractor, TLAPS

\* Only what the SDP's parameter sets left behind can keep a start code out
\* of the buffer.
Headed ==
    /\ room = -1 => sent = 0 /\ (filled <=> length > Size - StartCode)
    /\ room >= 0 /\ nal /\ ~headed => filled

IInv == TypeOK /\ NothingLost /\ UnitsAreDelimited /\ Headed

\* continuePlaying() keeps within the buffer, and finds room for a start code
\* behind anything that was held back.
LEMMA ContinuePlayingFits ==
    ASSUME NEW n \in 0 .. Size, ContinuePlaying(n), nal' \in BOOLEAN
    PROVE  /\ length' \in 0 .. Size /\ room' \in 0 .. Size /\ length' + room' = Size
           /\ headed' \in BOOLEAN
           /\ n <= Held => length' <= Held + StartCode /\ (nal' => headed')
           /\ nal' /\ ~headed' => n > Size - StartCode
<1>1. Size \in Nat /\ Size > 52
  BY SizesAssumption DEF Held, StartCode
<1>2. CASE nal' /\ Size - StartCode >= n
  <2>1. headed' = TRUE /\ length' = n + 4 /\ room' = Size - (n + 4)
    BY <1>2 DEF ContinuePlaying, RoomForCode, StartCode
  <2> QED
    BY <1>1, <1>2, <2>1 DEF Held, StartCode
<1>3. CASE ~(nal' /\ Size - StartCode >= n)
  <2>1. headed' = FALSE /\ length' = n /\ room' = Size - n
    BY <1>3 DEF ContinuePlaying, RoomForCode
  <2>2. nal' => n > Size - 4
    BY <1>1, <1>3 DEF StartCode
  <2>3. length' \in 0 .. Size /\ room' \in 0 .. Size /\ length' + room' = Size
    BY <1>1, <2>1
  <2>4. n <= Held => ~nal' /\ length' <= Held + StartCode
    BY <1>1, <2>1, <2>2 DEF Held, StartCode
  <2> QED
    BY <2>1, <2>2, <2>3, <2>4 DEF StartCode
<1> QED
  BY <1>2, <1>3

\* The parameter sets fit into the buffer, or there is no sink.
LEMMA SetsFit == \A s \in SetsThatFit : s[1] \in 0 .. Size /\ s[2] \in Nat
<1> SUFFICES ASSUME NEW s \in SetsThatFit PROVE s[1] \in 0 .. Size /\ s[2] \in Nat
  OBVIOUS
<1>1. Size \in Nat /\ SetSizes \subseteq Nat
  BY SizesAssumption
<1>2. CASE s = <<0, 0>>
  BY <1>1, <1>2
<1>3. CASE \E a \in SetSizes : a + StartCode <= Size /\ s = <<a + StartCode, 1>>
  BY <1>1, <1>3 DEF StartCode
<1>4. CASE \E p \in SetSizes \X SetSizes :
             p[1] + p[2] + 2 * StartCode <= Size /\ s = <<p[1] + p[2] + 2 * StartCode, 2>>
  <2>1. PICK p \in SetSizes \X SetSizes :
          p[1] + p[2] + 2 * StartCode <= Size /\ s = <<p[1] + p[2] + 2 * StartCode, 2>>
    BY <1>4
  <2>2. p[1] \in Nat /\ p[2] \in Nat
    BY <1>1, <2>1
  <2>3. s[1] = p[1] + p[2] + 2 * StartCode /\ s[2] = 2
    BY <2>1
  <2>4. 2 * StartCode = 8
    BY DEF StartCode
  <2> QED
    BY <1>1, <2>1, <2>2, <2>3, <2>4
<1> QED
  BY <1>2, <1>3, <1>4, Zenon DEF SetsThatFit

\* The constructor leaves a buffer that satisfies the invariant.
LEMMA InitIInv == Init => IInv
<1> SUFFICES ASSUME Init PROVE IInv
  OBVIOUS
<1>1. PICK s \in SetsThatFit :
        /\ length = (IF nal THEN s[1] ELSE 0)
        /\ held = (IF nal THEN s[2] ELSE 0)
  BY DEF Init
<1>2. length \in 0 .. Size /\ held \in Nat
  BY <1>1, SetsFit, SizesAssumption
<1>3. /\ nal \in BOOLEAN /\ headed \in BOOLEAN /\ bare \in BOOLEAN
      /\ bare = FALSE /\ filled = (length > Size - StartCode) /\ room = -1 /\ sent = 0
      /\ received = held
  BY DEF Init
<1>4. filled \in BOOLEAN
  BY <1>3
<1>5. TypeOK
  BY <1>2, <1>3, <1>4, SizesAssumption DEF TypeOK
<1>6. NothingLost /\ UnitsAreDelimited
  BY <1>2, <1>3 DEF NothingLost, UnitsAreDelimited
<1>7. filled <=> length > Size - StartCode
  BY <1>3, Zenon
<1>8. Headed
  BY <1>3, <1>7 DEF Headed
<1> QED
  BY <1>5, <1>6, <1>8 DEF IInv

\* Every delivered unit preserves it.
LEMMA StepIInv == IInv /\ [Next]_vars => IInv'
<1> SUFFICES ASSUME IInv, [Next]_vars PROVE IInv'
  OBVIOUS
<1>1. Size \in Nat /\ Size > 52 /\ FrameSizes \subseteq Nat
  BY SizesAssumption DEF Held, StartCode
<1>2. CASE StartPlaying
  <2>1. /\ length \in 0 .. Size /\ ContinuePlaying(length) /\ nal' \in BOOLEAN /\ nal' = nal
        /\ room = -1 /\ sent = 0 /\ (filled <=> length > Size - StartCode)
        /\ UNCHANGED <<filled, bare, received, held, sent>>
    BY <1>2 DEF IInv, TypeOK, Headed, StartPlaying
  <2>2. /\ length' \in 0 .. Size /\ room' \in 0 .. Size /\ length' + room' = Size
        /\ headed' \in BOOLEAN
        /\ nal' /\ ~headed' => length > Size - StartCode
    BY <2>1, ContinuePlayingFits
  <2>6. filled' \in BOOLEAN /\ bare' \in BOOLEAN /\ UNCHANGED <<received, held, sent>>
    BY <2>1, Zenon DEF IInv, TypeOK
  <2>7. received' \in Nat /\ held' \in Nat /\ sent' \in Nat
    BY <2>6 DEF IInv, TypeOK
  <2>8. room' \in -1 .. Size
    BY <1>1, <2>2
  <2>3. TypeOK'
    BY <2>1, <2>2, <2>6, <2>7, <2>8, Zenon DEF TypeOK
  <2>4. NothingLost' /\ UnitsAreDelimited'
    BY <2>1 DEF IInv, NothingLost, UnitsAreDelimited
  <2>5. Headed'
    BY <1>1, <2>1, <2>2 DEF Headed
  <2> QED
    BY <2>3, <2>4, <2>5 DEF IInv
<1>3. CASE DeliverFrame
  <2>1. PICK size \in FrameSizes :
          /\ size <= room
          /\ IF length + size > Held
               THEN sent' = sent + held + 1 /\ held' = 0 /\ ContinuePlaying(0)
               ELSE sent' = sent /\ held' = held + 1 /\ ContinuePlaying(length + size)
    BY <1>3 DEF DeliverFrame
  <2>2. /\ room >= 0 /\ nal' \in BOOLEAN /\ nal' = nal /\ UNCHANGED filled
        /\ received' = received + 1 /\ bare' = (bare \/ (nal /\ ~headed))
        /\ nal \in BOOLEAN /\ filled \in BOOLEAN /\ length \in 0 .. Size /\ room \in 0 .. Size
        /\ received \in Nat /\ held \in Nat /\ sent \in Nat /\ received = sent + held
        /\ size \in Nat /\ length + room = Size
    BY <1>1, <1>3 DEF IInv, TypeOK, NothingLost, DeliverFrame
  <2>3. PICK n \in 0 .. Held :
          /\ ContinuePlaying(n) /\ held' \in Nat /\ sent' \in Nat
          /\ received' = sent' + held'
    <3>1. CASE length + size > Held
      <4>1. ContinuePlaying(0) /\ 0 \in 0 .. Held
        BY <2>1, <3>1 DEF Held
      <4> QED
        BY <2>1, <2>2, <3>1, <4>1
    <3>2. CASE ~(length + size > Held)
      <4>1. ContinuePlaying(length + size) /\ length + size \in 0 .. Held
        BY <2>1, <2>2, <3>2 DEF Held
      <4> QED
        BY <2>1, <2>2, <3>2, <4>1
    <3> QED
      BY <3>1, <3>2
  <2>4. n \in 0 .. Size /\ n <= Held
    BY <1>1, <2>3 DEF Held
  <2>5. /\ length' \in 0 .. Size /\ room' \in 0 .. Size /\ length' + room' = Size
        /\ headed' \in BOOLEAN
        /\ length' <= Held + StartCode /\ (nal' => headed')
    BY <2>2, <2>3, <2>4, ContinuePlayingFits
  <2>6. bare' \in BOOLEAN /\ (bare' => filled)
    BY <1>3, <2>2 DEF IInv, TypeOK, UnitsAreDelimited, Headed
  <2>10. room' \in -1 .. Size /\ received' \in Nat
    BY <1>1, <2>2, <2>5
  <2>11. filled' \in BOOLEAN
    BY <2>2, Zenon
  <2>7. TypeOK'
    BY <2>2, <2>3, <2>5, <2>6, <2>10, <2>11, Zenon DEF TypeOK
  <2>8. NothingLost' /\ UnitsAreDelimited'
    BY <2>2, <2>3, <2>5, <2>6 DEF NothingLost, UnitsAreDelimited
  <2>9. Headed'
    BY <2>2, <2>5 DEF Headed
  <2> QED
    BY <2>7, <2>8, <2>9 DEF IInv
<1>4. CASE UNCHANGED vars
  BY <1>4 DEF vars, IInv, TypeOK, NothingLost, UnitsAreDelimited, Headed
<1> QED
  BY <1>2, <1>3, <1>4 DEF Next

-----------------------------------------------------------------------------

\* IInv is inductive.
THEOREM Invariance == Spec => []IInv
<1>1. Init => IInv
  BY InitIInv
<1>2. IInv /\ [Next]_vars => IInv'
  BY StepIInv
<1> QED
  BY <1>1, <1>2, PTL DEF Spec

\* live555 is never given more room than the buffer has, for any size of
\* buffer, units and parameter sets.
THEOREM BufferIsNeverExceeded == Spec => []TypeOK
<1>1. IInv => TypeOK
  BY DEF IInv
<1> QED
  BY <1>1, Invariance, PTL

\* A unit is stored without a start code only where the parameter sets of
\* the SDP had filled the buffer before the first unit came.
THEOREM Delimited == Spec => []UnitsAreDelimited
<1>1. IInv => UnitsAreDelimited
  BY DEF IInv
<1> QED
  BY <1>1, Invariance, PTL

\* Every unit received is handed on once or still in the buffer, where only
\* one that is too small for a picture is held back.
THEOREM Lossless == Spec => []NothingLost
<1>1. IInv => NothingLost
  BY DEF IInv
<1> QED
  BY <1>1, Invariance, PTL

=============================================================================
