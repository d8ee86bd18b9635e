SPECIFICATION Spec
PROPERTIES RejectedLeavesNothing
