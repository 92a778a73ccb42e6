---------------------------- MODULE MCUsbReadWrite ----------------------------
(* An instance of UsbReadWrite for TLC: buffers of two packets of two.     *)
EXTENDS UsbReadWrite
=============================================================================
