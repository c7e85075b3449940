--------------------------- MODULE MCDeviceChannel ---------------------------
(* Small instances of DeviceChannel: every call is an attempt at the same  *)
(* operation.                                                              *)
EXTENDS DeviceChannel
OneOp == [i \in 1 .. MaxCalls |-> "op"]
=============================================================================
