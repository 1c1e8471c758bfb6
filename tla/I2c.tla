---------------------------------- MODULE I2c ----------------------------------
(***************************************************************************)
(* src/cppi2c/cppi2c.cpp as its devices use it.  The bus is external; a    *)
(* transfer may fail.  A write hands the error to its caller; every other  *)
(* call checks it with ESP_ERROR_CHECK, which aborts.                      *)
(***************************************************************************)
VARIABLES
    device,       \* the handle made by addDevice is one of _devices
    crash         \* "no", "abort" (ESP_ERROR_CHECK), "pointer" (null or freed)

i2cVars == <<device, crash>>

AddDevice == device = TRUE /\ crash = "no"

RemoveDevice == device' = FALSE /\ UNCHANGED crash

\* Any transfer may fail (external).
Transfers == BOOLEAN

\* The error, or its absence, is the caller's to look at.
WriteRegister(ok) == ok \in Transfers /\ UNCHANGED i2cVars

\* Through a handle that was removed or is null there is no transfer.
WriteReadWord(handle, ok) ==
    /\ ok \in Transfers
    /\ crash' = IF ~(handle /\ device) THEN "pointer" ELSE IF ok THEN "no" ELSE "abort"
    /\ UNCHANGED device
================================================================================
