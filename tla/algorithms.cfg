SPECIFICATION Spec
INVARIANTS TextSound ChecksSound RetrievalSound LearningSound PlansSound
CHECK_DEADLOCK FALSE
