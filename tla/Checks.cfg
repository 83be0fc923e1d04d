CONSTANT Endpoints = 15
SPECIFICATION Spec
INVARIANTS SuccessMeansUpdated RefusalSurfaces
PROPERTIES ImplementsCalls
