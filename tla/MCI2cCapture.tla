---------------------------- MODULE MCI2cCapture ----------------------------
(* I2cCapture with a buffer of three samples, exports of up to two packets    *)
(* and a cooldown that doubles twice.  The builds: release, UDP, HTTP.        *)
EXTENDS I2cCapture

BuildInit == CaptureInit /\ wire = 0 /\ ~(configured /\ web) /\ (debug => configured \/ web)
BuildSpec == BuildInit /\ [][CaptureNext]_captureVars /\ CaptureFairness
=============================================================================
