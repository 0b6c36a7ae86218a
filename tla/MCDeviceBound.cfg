SPECIFICATION Spec
INVARIANT OnlyDeviceRegisters
CHECK_DEADLOCK FALSE
