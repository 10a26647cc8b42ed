----------------------------- MODULE MCUsbSerial -----------------------------
(* The instance of UsbSerial that TLC checks. *)
EXTENDS UsbSerial

(* No terminal, and a terminal with both signals raised. *)
MCLineStates == {{}, {"DTR", "RTS"}}
=============================================================================
