-------------------------- MODULE MCCameraCapture ---------------------------
\* An instance of CameraCapture for TLC: one capture and one status request.
EXTENDS CameraCapture
=============================================================================
