SPECIFICATION WalkSpec
CONSTANT Inputs <- Acks
PROPERTY WalkEnds
