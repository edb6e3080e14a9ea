----------------------------- MODULE MCUsbBulkIn ----------------------------
(* Instances of UsbBulkIn for TLC. *)
EXTENDS UsbBulkIn

Load(e, o, n, r) == [errs |-> e, offs |-> o, nomem |-> n, removed |-> r]

\* Errors, radio switching, and both.
AllLoads == {Load(3, 0, 1, TRUE), Load(0, 2, 1, TRUE), Load(1, 1, 0, TRUE)}

\* An error while the radio is being switched.
RadioLoads == {Load(1, 1, 0, FALSE)}
=============================================================================
