SPECIFICATION Spec

PROPERTY ServerErrorsDelivered

CHECK_DEADLOCK FALSE
