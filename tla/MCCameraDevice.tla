-------------------------- MODULE MCCameraDevice --------------------------
\* CameraDevice for TLC: a driver that grants up to three buffers and two
\* descriptors, so that a leaked one is told from the current one.
EXTENDS CameraDevice
=============================================================================
