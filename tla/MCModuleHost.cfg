CONSTANTS
  local = local
  autoStart = autoStart
  h1 = h1
  h2 = h2
  watch = watch
  w1 = w1
  w2 = w2
  w3 = w3
  None = None
  Module = {local, autoStart}
  Deps <- MCDeps
  WorkerSeq <- MCWorkerSeq
  OneShot = {autoStart}
  Persona <- MCPersona
  Handler = {h1, h2}
  Watcher = {watch}
  Worker = {w1, w2, w3}
SPECIFICATION Spec
INVARIANTS DepsClosed AlignedUnlessRaced
SYMMETRY Symmetry
