------------------------------ MODULE QRScanner ------------------------------
(***************************************************************************)
(* The camera scanner of the sender's page: class QRScanner of             *)
(* public/js/qr.js.  start() waits for the camera, for its focus and for   *)
(* the video to play, and then runs a loop that waits for an animation     *)
(* frame and for the detection in turn; stop() may come at any of these    *)
(* waits, and so may another start().  Each call of start() has an id,     *)
(* which is also the id of the camera stream it is given.                  *)
(*                                                                         *)
(* The two attempts to open the camera are one request.  A page opens the  *)
(* scanner only where BarcodeDetector exists, so there is a detector.      *)
(***************************************************************************)
EXTENDS Naturals, FiniteSets

CONSTANTS
  Starts,   \* calls of start() that may be under way together
  NoStart

ASSUME ScannerAssumption == NoStart \notin Starts

VARIABLES
  isScanning,
  hasVideo,   \* this.videoElement is not null
  stream,     \* the start whose stream is this.stream, or NoStart
  running,    \* the streams whose tracks have not been stopped
  frame,      \* the loop animationFrameId was last requested for
  step        \* what each start waits for

scannerVars == <<isScanning, hasVideo, stream, running, frame, step>>

Step == {"none", "camera", "focus", "play", "aborted", "frame", "detect"}

ScannerTypeOK ==
  /\ isScanning \in BOOLEAN /\ hasVideo \in BOOLEAN
  /\ stream \in Starts \cup {NoStart} /\ frame \in Starts \cup {NoStart}
  /\ running \subseteq Starts /\ step \in [Starts -> Step]

ScannerInit ==
  /\ isScanning = FALSE /\ hasVideo = FALSE
  /\ stream = NoStart /\ running = {} /\ frame = NoStart
  /\ step = [i \in Starts |-> "none"]

UnusedStarts == {i \in Starts : step[i] = "none" /\ i \notin running \cup {stream}}
ScannerIdle == \A i \in Starts : step[i] = "none"
------------------------------------------------------------------------------
(* Starting and stopping. *)

\* pause() rejects the play() calls that wait, and the requested frame is
\* cancelled: that of one loop.
AfterStop(steps) ==
  [i \in Starts |-> CASE steps[i] = "play" -> "aborted"
                      [] steps[i] = "frame" /\ i = frame -> "none"
                      [] OTHER -> steps[i]]

StopTracks ==
  /\ running' = running \ {stream}
  /\ stream' = NoStart

\* Mutant: the reference to the stream is dropped before its tracks are stopped.
StopForgetting(steps) ==
  /\ isScanning' = FALSE /\ hasVideo' = FALSE /\ frame' = NoStart
  /\ stream' = NoStart /\ UNCHANGED running
  /\ step' = AfterStop(steps)

\* stop(), in a state where the starts have come to steps.
Stop(steps) ==
  /\ isScanning' = FALSE /\ hasVideo' = FALSE /\ frame' = NoStart
  /\ StopTracks
  /\ step' = AfterStop(steps)

\* start() up to the request for the camera; it stops a scan that is going on.
StartScan(i) ==
  /\ i \in UnusedStarts
  /\ IF isScanning
     THEN StopTracks /\ frame' = NoStart /\ step' = [AfterStop(step) EXCEPT ![i] = "camera"]
     ELSE UNCHANGED <<stream, running, frame>> /\ step' = [step EXCEPT ![i] = "camera"]
  /\ isScanning' = TRUE /\ hasVideo' = TRUE

\* The catch block of start(), before onError.
StartFails(i) == Stop([step EXCEPT ![i] = "none"])

CameraGranted(i) ==
  /\ step[i] = "camera"
  /\ stream' = i
  /\ running' = running \cup {i}
  /\ step' = [step EXCEPT ![i] = "focus"]
  /\ UNCHANGED <<isScanning, hasVideo, frame>>

CameraDenied(i) == step[i] = "camera" /\ StartFails(i)

\* Mutant: that scanning was stopped meanwhile is not noticed.
ShowVideoAnyway(i) ==
  /\ step[i] = "focus"
  /\ step' = [j \in Starts |-> IF j = i THEN "play"
                             ELSE IF step[j] = "play" THEN "aborted" ELSE step[j]]
  /\ UNCHANGED <<isScanning, hasVideo, stream, running, frame>>

\* Scanning may have been stopped meanwhile.  Showing another stream rejects
\* the play() calls that wait.
ShowVideo(i) ==
  /\ step[i] = "focus"
  /\ IF ~isScanning THEN StopTracks /\ step' = [step EXCEPT ![i] = "none"]
     ELSE /\ step' = [j \in Starts |-> IF j = i THEN "play"
                                       ELSE IF step[j] = "play" THEN "aborted" ELSE step[j]]
          /\ UNCHANGED <<stream, running>>
  /\ UNCHANGED <<isScanning, hasVideo, frame>>

PlayRejected(i) == step[i] \in {"play", "aborted"} /\ StartFails(i)
------------------------------------------------------------------------------
(* The scan loop. *)

NextFrame(i) == frame' = i /\ step' = [step EXCEPT ![i] = "frame"]
EndLoop(i) == step' = [step EXCEPT ![i] = "none"] /\ UNCHANGED frame

\* _scanLoop up to the detection, or to the next frame if there is no picture.
ScanLoop(i) ==
  /\ IF ~isScanning \/ ~hasVideo THEN EndLoop(i)
     ELSE \/ step' = [step EXCEPT ![i] = "detect"] /\ UNCHANGED frame
          \/ NextFrame(i)
  /\ UNCHANGED <<isScanning, hasVideo, stream, running>>

PlayStarted(i) == step[i] = "play" /\ ScanLoop(i)
FrameFires(i) == step[i] = "frame" /\ ScanLoop(i)

\* No code in the picture, or none of this program.
NothingDetected(i) ==
  /\ step[i] = "detect"
  /\ IF isScanning THEN NextFrame(i) ELSE EndLoop(i)
  /\ UNCHANGED <<isScanning, hasVideo, stream, running>>

\* A valid code: the scan stops, and onScanSuccess is called.
CodeDetected(i) == step[i] = "detect" /\ Stop([step EXCEPT ![i] = "none"])

\* What follows by itself once the camera has been granted.
ScannerProgress == \E i \in Starts : ShowVideo(i) \/ PlayStarted(i) \/ PlayRejected(i)
------------------------------------------------------------------------------
(* Properties. *)

\* "Strict camera stream cleanup (stopping all tracks on close)": a stream that
\* stop() could not reach any more is never left running.
NoStreamForgotten == running \subseteq {stream}

\* One loop at a time asks the detector, so that one code is reported once.
OneScanLoop == Cardinality({i \in Starts : step[i] \in {"frame", "detect"}}) <= 1

\* stop() switches the camera off for good, also when the camera was still
\* being opened at that moment.
CameraSwitchedOff == ~isScanning ~> running = {} \/ isScanning
=============================================================================
