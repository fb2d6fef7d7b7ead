SPECIFICATION Spec
CONSTANTS
  Width <- MCWidth
  Prereqs <- MCPrereqs
  must_crossproduct = {"t"}
  PortNumbers <- MCPortNumbers
  Resident = {"p1"}
  LocalPorts = {1, 2}
  Inport = "inport"
  Inputs <- MCInputs
INVARIANTS
  NormalForm
  PacketsMeetTheirFlow
