SPECIFICATION Spec
CHECK_DEADLOCK FALSE
PROPERTIES BytesArriveInOrder ServersAreExact DevicesAreFaithful AllAreServed
