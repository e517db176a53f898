----------------------------- MODULE MCUsbSerial ----------------------------
(***************************************************************************)
(* Bytes of three values and a buffer of eight: requests without payload,  *)
(* with a payload that looks like a header, and one that fills the buffer. *)
(* Every mix of two size fields occurs.                                    *)
(***************************************************************************)
EXTENDS UsbSerial

MCMessage == {<<0, 0, 0>>, <<1, 0, 2, 0, 1>>, <<1, 0, 1, 2>>, <<2, 1, 0, 1, 2, 2>>,
              <<2, 1, 2, 2, 2, 0, 0, 1>>}

=============================================================================
