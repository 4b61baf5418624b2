------------------------ MODULE CameraControl_proofs ------------------------
(***************************************************************************)
(* Proofs about the control loops of the camera pipeline, for every range  *)
(* of exposure, gain and lens positions, every set of brightness ratios    *)
(* and every set of energies.                                              *)
(***************************************************************************)
EXTENDS CameraControl, TLAPS

USE ExposureAssumption, FocusAssumption

\* Clipping to a range that is not empty gives an element of it.
LEMMA ClipInRange ==
    ASSUME NEW lo \in Int, NEW hi \in Int, lo <= hi, NEW x \in Int
    PROVE  Clip(lo, x, hi) \in lo .. hi
  BY DEF Clip

\* Scaling an integer by a positive fraction gives an integer.
LEMMA TimesInt ==
    ASSUME NEW x \in Int, NEW n \in Int, NEW d \in Nat \ {0}
    PROVE  Times(x, n, d) \in Int
  <1>1. x * n \in Int
    OBVIOUS
  <1> QED
    BY <1>1 DEF Times

\* One step of the automatic exposure chooses values that the sensor takes.
LEMMA NewSettingsInRange ==
    ASSUME InRange, NEW n \in Nat \ {0}, NEW d \in Nat \ {0}
    PROVE  newExposure(n, d) \in MinExposure .. MaxExposure /\ newGain(n, d) \in 1 .. MaxGain
  <1> DEFINE scaled == Times(mCurrentExposure, n, d)
  <1>1. mCurrentExposure \in Int /\ mCurrentGain \in Int
    BY DEF InRange
  <1>2. scaled \in Int
    BY <1>1, TimesInt
  <1>3. Times(scaled, mCurrentGain, HighGain) \in Int /\ Times(mCurrentGain, scaled, MaxExposure) \in Int
    <2>1. MaxExposure \in Nat \ {0} /\ HighGain \in Nat \ {0}
      OBVIOUS
    <2> HIDE DEF scaled
    <2> QED
      BY <1>1, <1>2, <2>1, TimesInt
  <1>4. newExposure(n, d) \in MinExposure .. MaxExposure
    <2> DEFINE x == IF mCurrentGain > HighGain /\ scaled < MaxExposure
                      THEN Times(scaled, mCurrentGain, HighGain) ELSE scaled
    <2>1. x \in Int
      BY <1>2, <1>3
    <2>2. newExposure(n, d) = Clip(MinExposure, x, MaxExposure)
      BY DEF newExposure
    <2> HIDE DEF x
    <2> QED
      BY <2>1, <2>2, ClipInRange
  <1>5. newGain(n, d) \in 1 .. MaxGain
    <2> DEFINE x == IF scaled > MaxExposure THEN Times(mCurrentGain, scaled, MaxExposure)
                    ELSE IF mCurrentGain > HighGain /\ scaled < MaxExposure THEN HighGain
                    ELSE mCurrentGain
    <2>1. x \in Int
      BY <1>1, <1>3
    <2>2. newGain(n, d) = Clip(1, x, MaxGain)
      BY DEF newGain
    <2>3. 1 \in Int /\ MaxGain \in Int /\ 1 <= MaxGain
      OBVIOUS
    <2> HIDE DEF x
    <2> QED
      BY <2>1, <2>2, <2>3, ClipInRange
  <1> QED
    BY <1>4, <1>5

\* The step never chooses a high gain without the full exposure.
LEMMA NewGainOnlyAtFullExposure ==
    ASSUME InRange, NEW n \in Nat \ {0}, NEW d \in Nat \ {0}, newGain(n, d) > HighGain
    PROVE  newExposure(n, d) = MaxExposure
  <1> DEFINE scaled == Times(mCurrentExposure, n, d)
  <1>1. mCurrentExposure \in Int /\ mCurrentGain \in Int
    BY DEF InRange
  <1>2. scaled \in Int
    BY <1>1, TimesInt
  <1>3. ~ (mCurrentGain > HighGain /\ scaled < MaxExposure)
    <2>1. SUFFICES ASSUME mCurrentGain > HighGain, scaled < MaxExposure PROVE FALSE
      OBVIOUS
    <2>2. newGain(n, d) = Clip(1, HighGain, MaxGain)
      BY <1>2, <2>1 DEF newGain
    <2> QED
      BY <2>2 DEF Clip
  <1>4. newExposure(n, d) = Clip(MinExposure, scaled, MaxExposure)
    BY <1>3 DEF newExposure
  <1>5. scaled >= MaxExposure
    <2>1. SUFFICES ASSUME scaled < MaxExposure PROVE FALSE
      BY <1>2
    <2>2. newGain(n, d) = Clip(1, mCurrentGain, MaxGain)
      BY <1>2, <1>3, <2>1 DEF newGain
    <2>3. mCurrentGain <= HighGain
      BY <1>1, <1>3, <2>1
    <2> HIDE DEF scaled
    <2> QED
      BY <1>1, <2>2, <2>3 DEF Clip
  <1> HIDE DEF scaled
  <1> QED
    BY <1>2, <1>4, <1>5 DEF Clip
-----------------------------------------------------------------------------
ExposureInv == InRange /\ GainOnlyAtFullExposure

\* Every frame keeps the exposure invariant, whichever ioctl fails.
LEMMA ExposureStep == ExposureInv /\ ExposureNext => ExposureInv'
  <1> SUFFICES ASSUME ExposureInv, ExposureNext PROVE ExposureInv'
    OBVIOUS
  <1>1. PICK r \in Ratio : doAutoExposure(r[1], r[2])
    BY DEF ExposureNext
  <1> DEFINE n == r[1]
             d == r[2]
  <1>2. n \in Nat \ {0} /\ d \in Nat \ {0}
    OBVIOUS
  <1>3. doAutoExposure(n, d)
    BY <1>1
  <1> HIDE DEF n, d
  <1>4. /\ newExposure(n, d) \in MinExposure .. MaxExposure
        /\ newGain(n, d) \in 1 .. MaxGain
    BY <1>2, NewSettingsInRange DEF ExposureInv
  <1>5. InRange'
    BY <1>3, <1>4 DEF ExposureInv, InRange, doAutoExposure
  <1>6. GainOnlyAtFullExposure'
    <2>1. SUFFICES ASSUME applied', mCurrentGain' > HighGain
                   PROVE  mCurrentExposure' = MaxExposure
      BY DEF GainOnlyAtFullExposure
    <2>2. mCurrentGain' = newGain(n, d) /\ mCurrentExposure' = newExposure(n, d)
      BY <1>3, <2>1 DEF doAutoExposure
    <2>3. newGain(n, d) > HighGain
      BY <2>1, <2>2
    <2> QED
      BY <1>2, <2>2, <2>3, NewGainOnlyAtFullExposure DEF ExposureInv
  <1> QED
    BY <1>5, <1>6 DEF ExposureInv
-----------------------------------------------------------------------------
(* The scan.  The conjunct on the coarse sweep is what makes SharpestWins  *)
(* inductive: the best position lies behind the sweep, so a measurement    *)
(* never replaces the energy of the best one.                              *)

FocusInv ==
    /\ scan \in {"none", "coarse", "fine"}
    /\ pos \in Int /\ pos >= First
    /\ fineEnd \in Int /\ fineEnd <= Last
    /\ probe \in Int /\ probeEnergy \in Int
    /\ bestEnergy \in Nat
    /\ probeEnergy <= bestEnergy
    /\ bestPos = probe /\ bestEnergy > 0 => probeEnergy = bestEnergy
    /\ scan = "coarse" /\ bestEnergy > 0 => bestPos < pos
    /\ LensInSweep

\* The lens goes where it is sent, inside the sweep, or stays.
LEMMA LensMoves ==
    ASSUME LensInSweep, NEW p \in {0} \cup First .. Last, setFocus(p)
    PROVE  mFocusPosition' \in {-1, 0} \cup First .. Last
  BY DEF setFocus, LensInSweep

\* Every step of the scan keeps the scan's invariant.
LEMMA FocusStepInv ==
    FocusInv /\ (startAfScan \/ cancelAf \/ FocusStep \/ FocusCapture) => FocusInv'
  <1> SUFFICES ASSUME FocusInv, startAfScan \/ cancelAf \/ FocusStep \/ FocusCapture
               PROVE  FocusInv'
    OBVIOUS
  <1>1. CASE startAfScan
    BY <1>1 DEF FocusInv, startAfScan, LensInSweep
  <1>2. CASE cancelAf
    <2>1. mFocusPosition' \in {-1, 0} \cup First .. Last
      BY <1>2, LensMoves DEF cancelAf, FocusInv
    <2> QED
      BY <1>2, <2>1 DEF cancelAf, FocusInv, LensInSweep
  <1>3. CASE coarseStep
    <2>1. mFocusPosition' \in {-1, 0} \cup First .. Last
      BY <1>3, LensMoves DEF coarseStep, FocusInv
    <2>2. PICK energy \in Energy : /\ better(energy)
                                   /\ probeEnergy' = IF pos = probe THEN energy ELSE probeEnergy
      BY <1>3 DEF coarseStep, captureForAf
    <2>3. energy \in Nat \cup {-1}
      OBVIOUS
    <2> QED
      BY <1>3, <2>1, <2>2, <2>3 DEF coarseStep, better, FocusInv, LensInSweep
  <1>4. CASE fineStepCapture
    <2>1. mFocusPosition' \in {-1, 0} \cup First .. Last
      BY <1>4, LensMoves DEF fineStepCapture, FocusInv
    <2>2. PICK energy \in Energy : /\ better(energy)
                                   /\ probeEnergy' = IF pos = probe THEN energy ELSE probeEnergy
      BY <1>4 DEF fineStepCapture, captureForAf
    <2>3. energy \in Nat \cup {-1}
      OBVIOUS
    <2> QED
      BY <1>4, <2>1, <2>2, <2>3 DEF fineStepCapture, better, FocusInv, LensInSweep
  <1>5. CASE fineStart
    BY <1>5 DEF fineStart, FocusInv, LensInSweep
  <1>6. CASE fineStepSkip
    BY <1>6 DEF fineStepSkip, FocusInv, LensInSweep
  <1>7. CASE lock
    <2>1. bestPos \in {0} \cup First .. Last
      BY DEF FocusInv, LensInSweep
    <2>2. mFocusPosition' \in {-1, 0} \cup First .. Last
      BY <1>7, <2>1, LensMoves DEF lock, FocusInv
    <2> QED
      BY <1>7, <2>2 DEF lock, FocusInv, LensInSweep
  <1> QED
    BY <1>1, <1>2, <1>3, <1>4, <1>5, <1>6, <1>7 DEF FocusStep, FocusCapture
-----------------------------------------------------------------------------
IInv == ExposureInv /\ FocusInv

\* The pipeline starts in the invariant.
LEMMA InitInv == Init => IInv
  <1> SUFFICES ASSUME Init PROVE IInv
    OBVIOUS
  <1>1. ExposureInv
    BY DEF Init, ExposureInit, ExposureInv, InRange, GainOnlyAtFullExposure
  <1>2. FocusInv
    BY DEF Init, FocusInit, FocusInv, LensInSweep, Positions
  <1> QED
    BY <1>1, <1>2 DEF IInv

\* Variables that do not change keep their half of the invariant.
LEMMA Stutters ==
    /\ ExposureInv /\ UNCHANGED exposureVars => ExposureInv'
    /\ FocusInv /\ UNCHANGED focusVars => FocusInv'
  BY DEF ExposureInv, InRange, GainOnlyAtFullExposure, exposureVars,
         FocusInv, LensInSweep, focusVars

\* Every step of the two loops keeps the invariant.
LEMMA NextInv == IInv /\ [Next]_vars => IInv'
  <1> SUFFICES ASSUME IInv, [Next]_vars PROVE IInv'
    OBVIOUS
  <1>1. CASE captureFrame
    BY <1>1, ExposureStep, Stutters DEF captureFrame, IInv
  <1>2. CASE newPipeline
    <2>1. ExposureInv'
      BY <1>2 DEF newPipeline, ExposureInv, InRange, GainOnlyAtFullExposure
    <2>2. FocusInv'
      BY <1>2 DEF newPipeline, FocusInv, LensInSweep, IInv
    <2> QED
      BY <2>1, <2>2 DEF IInv
  <1>3. CASE (startAfScan \/ cancelAf \/ FocusStep) /\ UNCHANGED exposureVars
    BY <1>3, FocusStepInv, Stutters DEF IInv
  <1>4. CASE FocusCapture /\ (ExposureNext \/ UNCHANGED exposureVars)
    BY <1>4, FocusStepInv, ExposureStep, Stutters DEF IInv
  <1>5. CASE UNCHANGED vars
    BY <1>5, Stutters DEF IInv, vars
  <1> QED
    BY <1>1, <1>2, <1>3, <1>4, <1>5 DEF Next

\* The invariant holds throughout.
LEMMA Invariance == Spec => []IInv
  BY InitInv, NextInv, PTL DEF Spec

\* doAutoExposure never leaves the range of exposure and gain, for any limits,
\* ratios and failures of the ioctls.
THEOREM SettingsStayInRange == Spec => []InRange
  <1>1. IInv => InRange
    BY DEF IInv, ExposureInv
  <1> QED
    BY <1>1, Invariance, PTL

\* doAutoExposure raises the gain above its normal value only at full exposure.
THEOREM ExposureBeforeGain == Spec => []GainOnlyAtFullExposure
  <1>1. IInv => GainOnlyAtFullExposure
    BY DEF IInv, ExposureInv
  <1> QED
    BY <1>1, Invariance, PTL

\* startAfScan and cancelAf send the lens to positions of the sweep only.
THEOREM LensStaysInSweep == Spec => []LensInSweep
  <1>1. IInv => LensInSweep
    BY DEF IInv, FocusInv
  <1> QED
    BY <1>1, Invariance, PTL

\* A scan locks at a position measured at least as sharp as every other, for
\* every sweep, step and outcome of the captures.
THEOREM LockIsSharpest == Spec => []SharpestWins
  <1>1. IInv => SharpestWins
    BY DEF IInv, FocusInv, SharpestWins
  <1> QED
    BY <1>1, Invariance, PTL

\* The automatic exposure is sound for any limits, ratios and failures of the
\* ioctls: in range, and with gain only at full exposure.
THEOREM ExposureIsSound == Spec => []ExposureSound
  BY SettingsStayInRange, ExposureBeforeGain, PTL DEF ExposureSound

\* The focus scan is sound for every sweep, step and outcome of the captures:
\* the lens stays in the sweep and locks at the sharpest position.
THEOREM FocusIsSound == Spec => []FocusSound
  BY LensStaysInSweep, LockIsSharpest, PTL DEF FocusSound
-----------------------------------------------------------------------------
(* The automatic exposure corrects towards its target *)

\* Products of naturals are monotonic in both factors.
LEMMA MulMono ==
    ASSUME NEW a \in Nat, NEW b \in Nat, NEW c \in Nat, NEW d \in Nat, a <= b, c <= d
    PROVE  a * c <= b * d /\ a * c \in Nat /\ b * d \in Nat
  <1>1. a * c <= b * c
    OBVIOUS
  <1>2. b * c <= b * d
    OBVIOUS
  <1>3. QED BY <1>1, <1>2

\* The quotient of a truncating division, bounded by its product.
LEMMA DivBounds ==
    ASSUME NEW a \in Nat, NEW d \in Nat \ {0}
    PROVE  (a \div d) * d <= a /\ a < (a \div d) * d + d /\ a \div d \in Nat
  OBVIOUS

\* What fits into a dividend fits into the quotient.
LEMMA DivLower ==
    ASSUME NEW a \in Nat, NEW d \in Nat \ {0}, NEW x \in Nat, x * d <= a
    PROVE  x <= a \div d
  <1>1. a < (a \div d) * d + d /\ a \div d \in Nat
    BY DivBounds
  <1>2. ASSUME a \div d < x PROVE FALSE
    <2> DEFINE y == a \div d
    <2>1. y + 1 <= x /\ y \in Nat
      BY <1>1, <1>2
    <2> HIDE DEF y
    <2>2. (y + 1) * d <= x * d
      BY <2>1, MulMono
    <2>3. (y + 1) * d = y * d + d
      BY <2>1
    <2>4. QED BY <1>1, <2>2, <2>3 DEF y
  <1>3. QED BY <1>1, <1>2

\* A ratio of at least one never shortens, one of at most one never lengthens.
LEMMA TimesDirection ==
    ASSUME NEW x \in Nat, NEW n \in Nat, NEW d \in Nat \ {0}
    PROVE  /\ Times(x, n, d) \in Nat
           /\ n >= d => Times(x, n, d) >= x
           /\ n <= d => Times(x, n, d) <= x
           /\ Times(x, n, d) * d <= x * n
  <1>1. x * n \in Nat /\ x * d \in Nat
    OBVIOUS
  <1>2. Times(x, n, d) \in Nat /\ Times(x, n, d) * d <= x * n
    BY <1>1, DivBounds DEF Times
  <1>3. n >= d => Times(x, n, d) >= x
    <2>1. n >= d => x * d <= x * n
      BY MulMono
    <2>2. QED BY <1>1, <2>1, DivLower DEF Times
  <1>4. n <= d => Times(x, n, d) <= x
    <2> DEFINE t == Times(x, n, d)
    <2> HIDE DEF t
    <2>1. SUFFICES ASSUME n <= d, t > x PROVE FALSE
      BY <1>2 DEF t
    <2>2. x + 1 <= t /\ t \in Nat /\ t * d <= x * n
      BY <1>2, <2>1 DEF t
    <2>3. (x + 1) * d <= t * d
      BY <2>2, MulMono
    <2>4. x * n <= x * d
      BY <2>1, MulMono
    <2>5. (x + 1) * d = x * d + d
      OBVIOUS
    <2>6. QED BY <1>1, <2>2, <2>3, <2>4, <2>5
  <1>5. QED BY <1>2, <1>3, <1>4

\* A frame that is too dark: neither exposure nor gain goes down.
LEMMA DarkFrame ==
    ASSUME InRange, GainOnlyAtFullExposure, applied, NEW n \in Nat, NEW d \in Nat \ {0}, n >= d
    PROVE  newExposure(n, d) >= mCurrentExposure /\ newGain(n, d) >= mCurrentGain
  <1> DEFINE scaled == Times(mCurrentExposure, n, d)
             raised == Times(mCurrentGain, scaled, MaxExposure)
  <1>1. /\ mCurrentExposure \in MinExposure .. MaxExposure /\ mCurrentGain \in 1 .. MaxGain
        /\ mCurrentExposure \in Nat /\ mCurrentGain \in Nat /\ MaxExposure \in Nat \ {0}
    BY DEF InRange
  <1>2. scaled \in Nat /\ scaled >= mCurrentExposure
    BY <1>1, TimesDirection
  <1>3. mCurrentGain > HighGain => mCurrentExposure = MaxExposure
    BY DEF GainOnlyAtFullExposure
  <1> HIDE DEF scaled
  <1>4. raised \in Nat /\ (scaled >= MaxExposure => raised >= mCurrentGain)
    BY <1>1, <1>2, TimesDirection
  <1> HIDE DEF raised
  <1>5. newGain(n, d) = Clip(1, IF scaled > MaxExposure THEN raised ELSE mCurrentGain, MaxGain)
    BY <1>1, <1>2, <1>3 DEF newGain, scaled, raised
  <1>6. newExposure(n, d) = Clip(MinExposure, scaled, MaxExposure)
    BY <1>1, <1>2, <1>3 DEF newExposure, scaled
  <1>7. QED BY <1>1, <1>2, <1>4, <1>5, <1>6 DEF Clip

\* A frame that is too bright: the product of exposure and gain does not go up,
\* also when a high gain is turned back into exposure.
LEMMA BrightFrame ==
    ASSUME InRange, GainOnlyAtFullExposure, applied, NEW n \in Nat, NEW d \in Nat \ {0}, n <= d
    PROVE  newExposure(n, d) * newGain(n, d) <= Brightness
  <1> DEFINE scaled == Times(mCurrentExposure, n, d)
             longer == Times(scaled, mCurrentGain, HighGain)
  <1>1. /\ mCurrentExposure \in MinExposure .. MaxExposure /\ mCurrentGain \in 1 .. MaxGain
        /\ mCurrentExposure \in Nat /\ mCurrentGain \in Nat /\ HighGain \in Nat \ {0}
        /\ MinExposure \in Nat /\ MaxExposure \in Nat
    BY DEF InRange
  <1>2. scaled \in Nat /\ scaled <= mCurrentExposure
    BY <1>1, TimesDirection
  <1>3. mCurrentGain > HighGain => mCurrentExposure = MaxExposure
    BY DEF GainOnlyAtFullExposure
  <1> HIDE DEF scaled
  <1>4. longer \in Nat /\ longer * HighGain <= scaled * mCurrentGain
    BY <1>1, <1>2, TimesDirection
  <1> HIDE DEF longer
  <1>5. CASE mCurrentGain > HighGain /\ scaled < MaxExposure
    <2>1. newGain(n, d) = HighGain
      BY <1>1, <1>2, <1>5 DEF newGain, scaled, Clip
    <2>2. newExposure(n, d) = Clip(MinExposure, longer, MaxExposure)
      BY <1>5 DEF newExposure, scaled, longer
    <2>3. CASE newExposure(n, d) = longer
      <3>1. scaled * mCurrentGain <= mCurrentExposure * mCurrentGain
        BY <1>1, <1>2, MulMono
      <3>2. longer * HighGain \in Nat /\ scaled * mCurrentGain \in Nat
            /\ mCurrentExposure * mCurrentGain \in Nat
        BY <1>1, <1>2, <1>4
      <3>3. QED BY <1>4, <2>1, <2>3, <3>1, <3>2 DEF Brightness
    <2>4. CASE newExposure(n, d) \in {MinExposure, MaxExposure}
      <3>1. newExposure(n, d) \in Nat /\ newExposure(n, d) <= mCurrentExposure
            /\ HighGain <= mCurrentGain
        BY <1>1, <1>3, <1>5, <2>4
      <3>2. QED BY <1>1, <2>1, <3>1, MulMono DEF Brightness
    <2>5. QED BY <1>1, <1>4, <2>2, <2>3, <2>4 DEF Clip
  <1>6. CASE ~(mCurrentGain > HighGain /\ scaled < MaxExposure)
    <2>1. newGain(n, d) = mCurrentGain
      BY <1>1, <1>2, <1>6 DEF newGain, scaled, Clip
    <2>2. newExposure(n, d) \in Nat /\ newExposure(n, d) <= mCurrentExposure
      BY <1>1, <1>2, <1>6 DEF newExposure, scaled, Clip
    <2>3. QED BY <1>1, <2>1, <2>2, MulMono DEF Brightness
  <1>7. QED BY <1>5, <1>6

\* From settings that reached the sensor, no frame is corrected the wrong way,
\* for any limits of exposure and gain and any ratio.
THEOREM CorrectionIsRight == Spec => CorrectsTowardsTarget
  <1> DEFINE Corrects(r) ==
               applied /\ applied' /\ doAutoExposure(r[1], r[2]) =>
                 \/ r[1] >= r[2] /\ Brightness' >= Brightness
                 \/ r[1] <= r[2] /\ Brightness' <= Brightness
  <1>1. ASSUME InRange, GainOnlyAtFullExposure, NEW r \in Ratio
        PROVE  Corrects(r)
    <2> SUFFICES ASSUME applied, applied', doAutoExposure(r[1], r[2])
                 PROVE  \/ r[1] >= r[2] /\ Brightness' >= Brightness
                        \/ r[1] <= r[2] /\ Brightness' <= Brightness
      OBVIOUS
    <2>1. r[1] \in Nat \ {0} /\ r[2] \in Nat \ {0}
      OBVIOUS
    <2>2. mCurrentGain' = newGain(r[1], r[2]) /\ mCurrentExposure' = newExposure(r[1], r[2])
      BY DEF doAutoExposure
    <2>3. CASE r[1] >= r[2]
      <3>1. newExposure(r[1], r[2]) \in Nat /\ newGain(r[1], r[2]) \in Nat
        BY <1>1, <2>1, NewSettingsInRange, SMTT(120)
      <3>2. mCurrentExposure \in Nat /\ mCurrentGain \in Nat
        BY <1>1 DEF InRange
      <3>3. newExposure(r[1], r[2]) >= mCurrentExposure /\ newGain(r[1], r[2]) >= mCurrentGain
        BY <1>1, <2>1, <2>3, DarkFrame
      <3>4. mCurrentExposure * mCurrentGain <= newExposure(r[1], r[2]) * newGain(r[1], r[2])
            /\ mCurrentExposure * mCurrentGain \in Nat
            /\ newExposure(r[1], r[2]) * newGain(r[1], r[2]) \in Nat
        BY <3>1, <3>2, <3>3, MulMono
      <3>5. QED BY <2>2, <2>3, <3>4 DEF Brightness
    <2>4. CASE r[1] <= r[2]
      BY <1>1, <2>1, <2>2, <2>4, BrightFrame DEF Brightness
    <2>5. QED BY <2>1, <2>3, <2>4
  <1>2. InRange /\ GainOnlyAtFullExposure /\ [Next]_vars
          => [\A r \in Ratio : Corrects(r)]_exposureVars
    BY <1>1
  <1>3. QED
    BY <1>2, SettingsStayInRange, ExposureBeforeGain, PTL DEF Spec, CorrectsTowardsTarget
=============================================================================
