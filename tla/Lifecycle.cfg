SPECIFICATION Spec
CHECK_DEADLOCK FALSE
CONSTANT Null = Null
INVARIANTS ThreadsSeeTheLiving 
 
