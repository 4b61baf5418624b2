----------------------------- MODULE CameraControl --------------------------
(***************************************************************************)
(* The control loops of CameraPipeline together: every frame that is       *)
(* processed, for a request or for an autofocus measurement, may adjust    *)
(* exposure and gain.  A capture of the scan that fails before its frame   *)
(* is processed leaves them alone.  configure_streams makes a new pipeline *)
(* object.                                                                 *)
(***************************************************************************)
EXTENDS Integers
-----------------------------------------------------------------------------
(***************************************************************************)
(* The automatic exposure of CameraPipeline (camera/CameraPipeline.cpp,    *)
(* doAutoExposure, setExposure, setGain).  Each processed frame gives a    *)
(* ratio of the wanted to the measured brightness, cut to [1/2, 4]; it is  *)
(* a fraction here, and a product with it is truncated as the casts to int *)
(* do.                                                                     *)
(***************************************************************************)

CONSTANTS MinExposure, MaxExposure,   \* 10 and 2490 in the code
          HighGain, MaxGain,          \* 150 and 180
          FirstExposure,              \* 2400; the first gain is HighGain
          Ratio                       \* fractions <<n, d>>

ASSUME ExposureAssumption ==
    /\ MinExposure \in Nat \ {0} /\ MaxExposure \in Nat /\ MinExposure < MaxExposure
    /\ HighGain \in Nat \ {0} /\ MaxGain \in Nat /\ HighGain < MaxGain
    /\ FirstExposure \in MinExposure .. MaxExposure
    /\ Ratio \subseteq (Nat \ {0}) \X (Nat \ {0})

VARIABLES mCurrentExposure, mCurrentGain,
          applied   \* history: the last step's settings all reached the sensor

exposureVars == <<mCurrentExposure, mCurrentGain, applied>>

ExposureInit ==
    /\ mCurrentExposure = FirstExposure
    /\ mCurrentGain = HighGain
    /\ applied = TRUE

Times(x, n, d) == (x * n) \div d
Clip(lo, x, hi) == IF x < lo THEN lo ELSE IF x > hi THEN hi ELSE x

\* "Prefer longer exposure over higher gain": too long an exposure becomes
\* gain, and a high gain is turned back into exposure.
newExposure(n, d) ==
    LET scaled == Times(mCurrentExposure, n, d)
    IN  Clip(MinExposure,
             IF mCurrentGain > HighGain /\ scaled < MaxExposure
               THEN Times(scaled, mCurrentGain, HighGain) ELSE scaled,
             MaxExposure)

newGain_kept(n, d) ==
    LET scaled == Times(mCurrentExposure, n, d)
    IN  Clip(1, IF scaled > MaxExposure THEN Times(mCurrentGain, scaled, MaxExposure)
                ELSE mCurrentGain,
             MaxGain)

newGain_swapped(n, d) ==
    LET scaled == Times(mCurrentExposure, n, d)
    IN  Clip(1, IF scaled > MaxExposure THEN Times(mCurrentGain, MaxExposure, scaled)
                ELSE IF mCurrentGain > HighGain /\ scaled < MaxExposure THEN HighGain
                ELSE mCurrentGain,
             MaxGain)

newGain(n, d) ==
    LET scaled == Times(mCurrentExposure, n, d)
    IN  Clip(1, IF scaled > MaxExposure THEN Times(mCurrentGain, scaled, MaxExposure)
                ELSE IF mCurrentGain > HighGain /\ scaled < MaxExposure THEN HighGain
                ELSE mCurrentGain,
             MaxGain)

\* setGain and setExposure are called for values that change; either ioctl may
\* fail, and then the member keeps its value.
doAutoExposure(n, d) ==
    /\ mCurrentGain' \in {newGain(n, d), mCurrentGain}
    /\ mCurrentExposure' \in {newExposure(n, d), mCurrentExposure}
    /\ applied' = (mCurrentGain' = newGain(n, d) /\ mCurrentExposure' = newExposure(n, d))

ExposureNext == \E r \in Ratio : doAutoExposure(r[1], r[2])

-----------------------------------------------------------------------------
(* Properties *)

\* Exposure and gain stay in the range of the sensor, whichever calls fail.
InRange == mCurrentExposure \in MinExposure .. MaxExposure /\ mCurrentGain \in 1 .. MaxGain

\* High gain is only used at full exposure ("Prefer longer exposure over higher
\* gain to reduce noise"), except after a setting that failed to be applied.
GainOnlyAtFullExposure ==
    applied /\ mCurrentGain > HighGain => mCurrentExposure = MaxExposure

Brightness == mCurrentExposure * mCurrentGain

\* From settings that were applied, a frame that is too dark never makes the
\* next one darker, and one that is too bright never makes it brighter.
CorrectsTowardsTarget ==
    [][\A r \in Ratio :
         applied /\ applied' /\ doAutoExposure(r[1], r[2]) =>
             \/ r[1] >= r[2] /\ Brightness' >= Brightness
             \/ r[1] <= r[2] /\ Brightness' <= Brightness]_exposureVars
-----------------------------------------------------------------------------
(***************************************************************************)
(* The autofocus scan of CameraPipeline (camera/CameraPipeline.cpp,        *)
(* startAfScan, captureForAf, setFocus, cancelAf): a coarse sweep of the   *)
(* lens, a fine one around the best position, and the lock.  The Sobel     *)
(* energy of a frame is any number of a small set, or an error of the      *)
(* capture.                                                                *)
(*                                                                         *)
(* To say that the best position won, one position is picked at the start  *)
(* (probe) and the energy measured there is remembered.                    *)
(***************************************************************************)

CONSTANTS First, Last, CoarseStep, FineStep, DefaultPosition, MaxPosition,
          Energy   \* energies a capture may give; -1 is an error

ASSUME FocusAssumption ==
    /\ First \in Nat /\ Last \in Nat /\ First < Last /\ Last <= MaxPosition
    /\ MaxPosition \in Nat /\ DefaultPosition \in First .. Last
    /\ CoarseStep \in Nat \ {0} /\ FineStep \in Nat \ {0}
    /\ Energy \subseteq Nat \cup {-1}

VARIABLES
    scan,            \* "none", "coarse" or "fine"
    pos, fineEnd,    \* next position, and the last one of the fine sweep
    bestPos, bestEnergy,
    mFocusPosition, mAfState,
    probe, probeEnergy  \* history

focusVars == <<scan, pos, fineEnd, bestPos, bestEnergy, mFocusPosition, mAfState, probe, probeEnergy>>

Positions == {p \in First .. Last : (p - First) % FineStep = 0}

FocusInit ==
    /\ scan = "none" /\ pos = First /\ fineEnd = Last
    /\ bestPos = DefaultPosition /\ bestEnergy = 0
    /\ mFocusPosition = -1 /\ mAfState = "INACTIVE"
    /\ probe \in Positions /\ probeEnergy = -1

\* The ioctl may fail.
setFocus(position) ==
    mFocusPosition' \in {mFocusPosition,
                         IF position < 0 THEN 0
                         ELSE IF position > MaxPosition THEN MaxPosition ELSE position}

\* A scan is refused while not streaming.
startAfScan ==
    /\ scan = "none"
    /\ \/ /\ mAfState' = "MOVING" /\ scan' = "coarse"
          /\ pos' = First /\ bestPos' = DefaultPosition /\ bestEnergy' = 0 /\ probeEnergy' = -1
       \/ mAfState' = "INACTIVE" /\ UNCHANGED <<scan, pos, bestPos, bestEnergy, probeEnergy>>
    /\ UNCHANGED <<fineEnd, mFocusPosition, probe>>

better_position(energy) ==
    /\ bestPos' = IF energy > bestEnergy THEN pos ELSE bestPos
    /\ UNCHANGED bestEnergy

\* What the two loops do with one measurement.
better(energy) ==
    /\ bestEnergy' = IF energy > bestEnergy THEN energy ELSE bestEnergy
    /\ bestPos' = IF energy > bestEnergy THEN pos ELSE bestPos

captureForAf ==
    \E energy \in Energy :
        /\ better(energy)
        /\ probeEnergy' = IF pos = probe THEN energy ELSE probeEnergy

coarseStep_retry ==
    /\ scan = "coarse" /\ pos <= Last
    /\ setFocus(pos)
    /\ captureForAf
    /\ pos' \in {pos, pos + CoarseStep}
    /\ UNCHANGED <<scan, fineEnd, mAfState, probe>>

coarseStep ==
    /\ scan = "coarse" /\ pos <= Last
    /\ setFocus(pos)
    /\ captureForAf
    /\ pos' = pos + CoarseStep
    /\ UNCHANGED <<scan, fineEnd, mAfState, probe>>

fineStart ==
    /\ scan = "coarse" /\ pos > Last
    /\ scan' = "fine"
    /\ pos' = IF bestPos - CoarseStep < First THEN First ELSE bestPos - CoarseStep
    /\ fineEnd' = IF bestPos + CoarseStep > Last THEN Last ELSE bestPos + CoarseStep
    /\ UNCHANGED <<bestPos, bestEnergy, mFocusPosition, mAfState, probe, probeEnergy>>

fineStepCapture ==
    /\ scan = "fine" /\ pos <= fineEnd /\ pos # bestPos
    /\ setFocus(pos)
    /\ captureForAf
    /\ pos' = pos + FineStep
    /\ UNCHANGED <<scan, fineEnd, mAfState, probe>>

\* The position that is best so far is passed over.
fineStepSkip ==
    /\ scan = "fine" /\ pos <= fineEnd /\ pos = bestPos
    /\ pos' = pos + FineStep
    /\ UNCHANGED <<scan, fineEnd, bestPos, bestEnergy, mFocusPosition, mAfState, probe, probeEnergy>>

lock ==
    /\ scan = "fine" /\ pos > fineEnd
    /\ setFocus(bestPos)
    /\ scan' = "none" /\ mAfState' = "LOCKED"
    /\ UNCHANGED <<pos, fineEnd, bestPos, bestEnergy, probe, probeEnergy>>

cancelAf ==
    /\ scan = "none"
    /\ setFocus(0)
    /\ mAfState' = "INACTIVE"
    /\ UNCHANGED <<scan, pos, fineEnd, bestPos, bestEnergy, probe, probeEnergy>>

\* Steps that take a picture, and the others.
FocusCapture == coarseStep \/ fineStepCapture
FocusStep == fineStart \/ fineStepSkip \/ lock
-----------------------------------------------------------------------------
(* Properties *)

\* The lens is only sent to positions of the sweep, or to 0 by a cancel.
LensInSweep == mFocusPosition \in {-1, 0} \cup First .. Last /\ bestPos \in First .. Last

\* When the scan locks, no position was measured sharper than the chosen one,
\* and the chosen one was measured as sharp as claimed.
SharpestWins ==
    mAfState = "LOCKED" =>
        /\ probeEnergy <= bestEnergy
        /\ bestPos = probe /\ bestEnergy > 0 => probeEnergy = bestEnergy

\* A scan that has begun ends in a lock, whatever fails on the way.
ScanEnds == mAfState = "MOVING" ~> mAfState = "LOCKED"
-----------------------------------------------------------------------------
(* The two together. *)

vars == <<exposureVars, focusVars>>

Init == ExposureInit /\ FocusInit

\* A request's frame; requests wait while a scan runs in the same thread.
captureFrame == scan = "none" /\ ExposureNext /\ UNCHANGED focusVars

newPipeline ==
    /\ scan = "none"
    /\ mCurrentExposure' = FirstExposure /\ mCurrentGain' = HighGain /\ applied' = TRUE
    /\ pos' = First /\ fineEnd' = Last
    /\ bestPos' = DefaultPosition /\ bestEnergy' = 0
    /\ mFocusPosition' = -1 /\ mAfState' = "INACTIVE" /\ probeEnergy' = -1
    /\ UNCHANGED <<scan, probe>>

Next ==
    \/ captureFrame \/ newPipeline
    \/ (startAfScan \/ cancelAf \/ FocusStep) /\ UNCHANGED exposureVars
    \/ FocusCapture /\ (ExposureNext \/ UNCHANGED exposureVars)

\* A scan is one call; it goes on to its end.
Scanning == \/ FocusStep /\ UNCHANGED exposureVars
            \/ FocusCapture /\ (ExposureNext \/ UNCHANGED exposureVars)

Spec == Init /\ [][Next]_vars /\ WF_vars(Scanning)
-----------------------------------------------------------------------------
\* The automatic exposure never leaves the range of exposure and gain, and raises
\* the gain only at full exposure, whatever frames and failures came before.
ExposureSound == InRange /\ GainOnlyAtFullExposure

\* The lens stays in the sweep, and a scan locks where the measured energy was
\* the highest, whichever of its captures failed.
FocusSound == LensInSweep /\ SharpestWins
-----------------------------------------------------------------------------
(* Values for model checking: three coarse positions, and a default that is *)
(* not one of them, as in the code (400 is not 140 + 50 k); ratios on both  *)
(* sides of one.                                                            *)
Energies == {-1, 1, 2}
Ratios == {<<1, 2>>, <<9, 10>>, <<3, 2>>}
=============================================================================
